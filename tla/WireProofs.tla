----------------------------- MODULE WireProofs ------------------------------
(* Proofs about Wire, for all sets of messages, sizes, header sizes and      *)
(* limits, and whatever the writer below writes short: the framing           *)
(* implements Channel, and what is delivered beyond it is whole and in order. *)
EXTENDS Wire, SequenceTheorems, TLAPS

\* The byte that comes after another in what is to be written.
Succ(b) == IF b.at = FrameSize(b.of) THEN [of |-> b.of + 1, at |-> 1]
                                     ELSE [of |-> b.of, at |-> b.at + 1]

\* What may come behind a byte on the stream: in a frame that was written short,
\* any byte of it but the first, or the next frame.
Follows(b, c) ==
    \/ c = Succ(b)
    \/ /\ b.of \in torn
       /\ \/ c.of = b.of + 1 /\ c.at = 1
          \/ c.of = b.of /\ c.at # 1

\* The byte that goes on the stream next.
WritePos == IF Idle THEN [of |-> Len(sent) + 1, at |-> 1]
                    ELSE [of |-> Len(sent), at |-> onWire + 1]

WriterInv == IF sent = <<>> THEN onWire = 0 ELSE onWire \in 1..FrameSize(Len(sent))

\* A message of which a byte is still to be written has not been received.
AheadInv == end = "open" /\ ~Idle => Len(received) < Len(sent)

\* Two bytes of the stream: they belong to one frame and are as far apart in it
\* as they are in the stream, or the frame of the first ends between them.  If
\* that was written short, the second is at least not its first byte again.
InOrder(i, j) ==
    \/ stream[j].of = stream[i].of /\ stream[j].at = stream[i].at + (j - i)
    \/ stream[j].of > stream[i].of
       /\ stream[i].at + (j - i) > FrameSize(stream[i].of)
    \/ /\ stream[i].of \in torn
       /\ stream[j].of > stream[i].of \/ (stream[j].of = stream[i].of /\ stream[j].at # 1)

\* The stream is a piece of what was written, without a gap but in frames written
\* short, and ends where the writer is unless the network has lost the rest.
StreamInv ==
    /\ \A i \in 1..Len(stream) :
           /\ stream[i].of \in 1..Len(sent)
           /\ stream[i].at \in 1..FrameSize(stream[i].of)
    /\ \A i \in 1..(Len(stream) - 1) : Follows(stream[i], stream[i + 1])
    /\ \A i, j \in 1..Len(stream) : i < j => InOrder(i, j)
    /\ end # "broken" /\ stream # <<>> => Follows(stream[Len(stream)], WritePos)

Reading == rpc \in {"body", "deliver"}

\* A frame whose first byte is still to come was not delivered, and is not the
\* one that is being read.
OrderInv ==
    /\ Len(received) <= Len(sent)
    /\ \A i \in 1..Len(stream) : stream[i].at = 1 =>
           /\ stream[i].of > Len(received)
           /\ \A j \in DOMAIN later : stream[i].of > later[j].of
           /\ Reading => stream[i].of > header.of
    /\ Reading /\ header.of # 0 =>
           /\ header.of > Len(received)
           /\ \A j \in DOMAIN later : header.of > later[j].of
    /\ rpc = "deliver" => Whole /\ (header.of = 0 => header.len = 0)
    /\ LaterInOrder

\* The byte that Read takes next as long as it has its place.
ReadPos ==
    LET k == Len(received) + 1
    IN  IF rpc = "header" THEN [of |-> k, at |-> 1]
        ELSE IF rpc = "body" /\ Len(data) < header.len
             THEN [of |-> k, at |-> HeaderSize + Len(data) + 1]
             ELSE [of |-> k + 1, at |-> 1]

\* Until its first error, or a message written short, Read has its place in the
\* stream.
ReaderInv ==
    ~failed /\ ~Spoilt =>
        /\ rpc \in {"header", "body", "deliver"}
        /\ later = <<>>
        /\ Reading => /\ header.of = Len(received) + 1
                      /\ header.len = Size[sent[header.of]]
                      /\ header.len <= MaximumMessageSize
                      /\ \A i \in 1..Len(data) :
                             data[i] = [of |-> header.of, at |-> HeaderSize + i]
        /\ stream # <<>> => stream[1] = ReadPos
        /\ end # "broken" /\ stream = <<>> => WritePos = ReadPos

WireInv == TypeOK /\ WriterInv /\ AheadInv /\ StreamInv /\ OrderInv /\ ReaderInv
-----------------------------------------------------------------------------
(* Frames and the stream *)

\* Every frame that was sent has at least a header.
LEMMA FrameType ==
    ASSUME TypeOK, NEW k \in 1..Len(sent)
    PROVE  sent[k] \in Messages /\ Size[sent[k]] \in Nat
           /\ FrameSize(k) \in Nat /\ FrameSize(k) >= HeaderSize /\ FrameSize(k) >= 1
<1>1. sent[k] \in Messages
  BY DEF TypeOK
<1>2. Size[sent[k]] \in Nat
  BY <1>1, WireAssumption
<1>3. QED
  BY <1>1, <1>2, WireAssumption DEF FrameSize

\* More messages do not change the frames of those before them.
LEMMA FrameKept ==
    ASSUME NEW k, sent'[k] = sent[k]
    PROVE  FrameSize(k)' = FrameSize(k)
  BY Zenon DEF FrameSize

LEMMA ByteType ==
    ASSUME TypeOK, StreamInv, NEW i \in 1..Len(stream)
    PROVE  /\ stream[i] \in Byte /\ stream[i].of \in 1..Len(sent)
           /\ stream[i].at \in 1..FrameSize(stream[i].of)
           /\ stream[i] = [of |-> stream[i].of, at |-> stream[i].at]
<1>1. stream[i] \in Byte
  BY DEF TypeOK
<1>2. QED
  BY <1>1 DEF StreamInv, Byte

\* What is left of the stream once its first n bytes are read.
LEMMA StreamSuffix ==
    ASSUME TypeOK, StreamInv, NEW n \in 0..Len(stream),
           stream' = SubSeq(stream, n + 1, Len(stream)), UNCHANGED <<sent, onWire, torn, end>>
    PROVE  /\ stream' \in Seq(Byte) /\ Len(stream') = Len(stream) - n
           /\ \A i \in 1..Len(stream') : i + n \in 1..Len(stream) /\ stream'[i] = stream[i + n]
           /\ StreamInv'
<1>0. stream \in Seq(Byte)
  BY Zenon DEF TypeOK
<1>1. stream' \in Seq(Byte) /\ Len(stream') = Len(stream) - n
  BY <1>0
<1>2. \A i \in 1..Len(stream') : i + n \in 1..Len(stream) /\ stream'[i] = stream[i + n]
  BY <1>0, <1>1
<1>3. \A k : FrameSize(k)' = FrameSize(k)
  BY Zenon, FrameKept
<1>4. \A b, c : Follows(b, c) => Follows(b, c)'
  BY Zenon, <1>3 DEF Follows, Succ
<1>5. \A i \in 1..Len(stream') : /\ stream'[i].of \in 1..Len(sent')
                                  /\ stream'[i].at \in 1..FrameSize(stream[i].of)'
  BY Zenon, <1>2, <1>3 DEF StreamInv
<1>6. \A i \in 1..(Len(stream') - 1) : Follows(stream[i], stream[i + 1])'
  <2> TAKE i \in 1..(Len(stream') - 1)
  <2>1. /\ i \in 1..Len(stream') /\ i + 1 \in 1..Len(stream')
        /\ i + n \in 1..(Len(stream) - 1) /\ (i + 1) + n = (i + n) + 1
    BY <1>0, <1>1
  <2>2. stream'[i] = stream[i + n] /\ stream'[i + 1] = stream[(i + n) + 1]
    BY Zenon, <1>2, <2>1
  <2>3. QED
    BY Zenon, <1>4, <2>1, <2>2 DEF StreamInv
<1>7. \A i, j \in 1..Len(stream') : i < j => InOrder(i, j)'
  <2> SUFFICES ASSUME NEW i \in 1..Len(stream'), NEW j \in 1..Len(stream'), i < j
               PROVE  InOrder(i, j)'
    OBVIOUS
  <2>1. InOrder(i + n, j + n) /\ (j + n) - (i + n) = j - i
    BY <1>2 DEF StreamInv
  <2>2. QED
    BY Zenon, <1>2, <1>3, <2>1 DEF InOrder
<1>8. end' # "broken" /\ stream' # <<>> => Follows(stream[Len(stream)], WritePos)'
  <2>1. WritePos' = WritePos
    BY Zenon, <1>3 DEF WritePos, Idle
  <2>2. stream' # <<>> => /\ stream # <<>> /\ Len(stream') \in 1..Len(stream')
                          /\ Len(stream') + n = Len(stream)
    BY <1>0, <1>1
  <2>3. QED
    BY Zenon, <1>2, <1>4, <2>1, <2>2 DEF StreamInv
<1>9. QED
  BY Zenon, <1>1, <1>2, <1>5, <1>6, <1>7, <1>8 DEF StreamInv

\* The network loses the end of the stream.
LEMMA StreamPrefix ==
    ASSUME TypeOK, StreamInv, NEW n \in 0..Len(stream),
           stream' = SubSeq(stream, 1, n), UNCHANGED <<sent, onWire, torn>>, end' = "broken"
    PROVE  /\ stream' \in Seq(Byte) /\ Len(stream') = n
           /\ \A i \in 1..n : stream'[i] = stream[i]
           /\ StreamInv'
<1>0. stream \in Seq(Byte)
  BY Zenon DEF TypeOK
<1>1. stream' \in Seq(Byte) /\ Len(stream') = n
  BY <1>0
<1>2. \A i \in 1..n : i \in 1..Len(stream) /\ stream'[i] = stream[i]
  BY <1>0, <1>1
<1>3. \A k : FrameSize(k)' = FrameSize(k)
  BY Zenon, FrameKept
<1>4. \A b, c : Follows(b, c) => Follows(b, c)'
  BY Zenon, <1>3 DEF Follows, Succ
<1>5. \A i \in 1..Len(stream') : /\ stream'[i].of \in 1..Len(sent')
                                  /\ stream'[i].at \in 1..FrameSize(stream[i].of)'
  BY Zenon, <1>1, <1>2, <1>3 DEF StreamInv
<1>6. \A i \in 1..(Len(stream') - 1) : Follows(stream[i], stream[i + 1])'
  <2> TAKE i \in 1..(Len(stream') - 1)
  <2>1. i \in 1..n /\ i + 1 \in 1..n /\ i \in 1..(Len(stream) - 1)
    BY <1>0, <1>1
  <2>2. QED
    BY Zenon, <1>2, <1>4, <2>1 DEF StreamInv
<1>7. \A i, j \in 1..Len(stream') : i < j => InOrder(i, j)'
  <2> SUFFICES ASSUME NEW i \in 1..n, NEW j \in 1..n, i < j PROVE InOrder(i, j)'
    BY Zenon, <1>1
  <2>1. InOrder(i, j)
    BY Zenon, <1>2 DEF StreamInv
  <2>2. QED
    BY Zenon, <1>2, <1>3, <2>1 DEF InOrder
<1>8. QED
  BY Zenon, <1>1, <1>2, <1>5, <1>6, <1>7 DEF StreamInv

\* The stream stays as it is.
LEMMA StreamKept ==
    ASSUME StreamInv, UNCHANGED <<sent, onWire, torn, stream>>, end' # "broken" => end # "broken"
    PROVE  StreamInv'
<1>1. \A k : FrameSize(k)' = FrameSize(k)
  BY Zenon, FrameKept
<1>2. \A b, c : Follows(b, c) => Follows(b, c)'
  BY Zenon, <1>1 DEF Follows, Succ
<1>3. WritePos' = WritePos
  BY Zenon, <1>1 DEF WritePos, Idle
<1>4. \A i, j : InOrder(i, j) => InOrder(i, j)'
  BY Zenon, <1>1 DEF InOrder
<1>5. QED
  BY Zenon, <1>1, <1>2, <1>3, <1>4 DEF StreamInv

\* The writer's next byte goes on the stream.
LEMMA StreamAppend ==
    ASSUME TypeOK, StreamInv, end = "open", NEW b, b = WritePos,
           stream' = Append(stream, b), UNCHANGED <<end, torn>>,
           sent' \in Seq(Messages), Len(sent) <= Len(sent'),
           \A k \in 1..Len(sent) : sent'[k] = sent[k],
           b.of \in 1..Len(sent'), b.at \in 1..FrameSize(b.of)', Succ(b)' = WritePos'
    PROVE  /\ stream' \in Seq(Byte) /\ Len(stream') = Len(stream) + 1
           /\ stream'[Len(stream) + 1] = b
           /\ \A i \in 1..Len(stream) : i \in 1..Len(stream') /\ stream'[i] = stream[i]
           /\ StreamInv'
<1> DEFINE n == Len(stream)
<1>0. stream \in Seq(Byte) /\ n \in Nat /\ Len(sent) \in Nat
  BY DEF TypeOK
<1>b. b \in Byte
  <2>1. b.of \in Nat /\ Len(sent') \in Nat
    OBVIOUS
  <2>2. b.at \in Nat
    OBVIOUS
  <2>3. b = [of |-> b.of, at |-> b.at]
    BY DEF WritePos
  <2>4. QED
    BY <2>1, <2>2, <2>3 DEF Byte
<1>1. /\ stream' \in Seq(Byte) /\ Len(stream') = n + 1 /\ stream'[n + 1] = b
      /\ \A i \in 1..n : i \in 1..Len(stream') /\ stream'[i] = stream[i]
  BY <1>0, <1>b
<1> HIDE DEF n
<1>2. \A x \in Byte : x.of \in 1..Len(sent) =>
          FrameSize(x.of)' = FrameSize(x.of) /\ \A y : Follows(x, y) => Follows(x, y)'
  <2> SUFFICES ASSUME NEW x \in Byte, x.of \in 1..Len(sent)
               PROVE  /\ FrameSize(x.of)' = FrameSize(x.of)
                      /\ \A y : Follows(x, y) => Follows(x, y)'
    BY Zenon
  <2>1. FrameSize(x.of)' = FrameSize(x.of)
    BY Zenon, FrameKept
  <2>2. QED
    BY Zenon, <2>1 DEF Follows, Succ
<1>3. \A i \in 1..n : /\ stream[i] \in Byte /\ stream[i].of \in 1..Len(sent)
                       /\ stream[i].of \in 1..Len(sent')
                       /\ stream[i].at \in 1..FrameSize(stream[i].of)
  <2>1. 1..Len(sent) \subseteq 1..Len(sent')
    BY <1>0
  <2>2. QED
    BY Zenon, <2>1, ByteType DEF n
<1>4. \A i \in 1..Len(stream') : /\ stream'[i].of \in 1..Len(sent')
                                  /\ stream'[i].at \in 1..FrameSize(stream[i].of)'
  <2> TAKE i \in 1..Len(stream')
  <2>1. i \in 1..n \/ i = n + 1
    BY <1>0, <1>1
  <2>2. QED
    BY Zenon, <1>1, <1>2, <1>3, <2>1
<1>5. n # 0 => /\ n \in 1..n /\ Follows(stream[n], b)
  <2>1. n # 0 => n \in 1..n /\ stream # <<>>
    BY <1>0 DEF n
  <2>2. QED
    BY Zenon, <2>1 DEF StreamInv, n
<1>6. \A i \in 1..(Len(stream') - 1) : Follows(stream[i], stream[i + 1])'
  <2> TAKE i \in 1..(Len(stream') - 1)
  <2>1. i \in 1..n /\ ((i + 1 \in 1..n /\ i \in 1..(n - 1)) \/ (i = n /\ n # 0))
    BY <1>0, <1>1
  <2>2. Follows(stream[i], stream'[i + 1])
    BY Zenon, <1>1, <1>5, <2>1 DEF StreamInv, n
  <2>3. QED
    BY Zenon, <1>1, <1>2, <1>3, <2>1, <2>2
<1>7. \A i, j \in 1..Len(stream') : i < j => InOrder(i, j)'
  <2> SUFFICES ASSUME NEW i \in 1..Len(stream'), NEW j \in 1..Len(stream'), i < j
               PROVE  InOrder(i, j)'
    OBVIOUS
  <2>1. i \in 1..n /\ (j \in 1..n \/ j = n + 1)
    BY <1>0, <1>1
  <2>2. CASE j \in 1..n
    <3>1. InOrder(i, j)
      BY Zenon, <2>1, <2>2 DEF StreamInv, n
    <3>2. QED
      BY Zenon, <1>1, <1>2, <1>3, <2>1, <2>2, <3>1 DEF InOrder
  <2>3. CASE j = n + 1
    <3>1. n # 0 /\ (i = n \/ i < n)
      BY <1>0, <2>1
    <3>2. i = n \/ InOrder(i, n)
      BY Zenon, <1>5, <2>1, <3>1 DEF StreamInv, n
    <3> DEFINE x == stream[i]
               y == stream[n]
               F == FrameSize(x.of)
    <3>3. /\ x.of \in Nat /\ x.at \in Nat /\ y.of \in Nat /\ y.at \in Nat
          /\ F \in Nat /\ x.at <= F /\ y.at + 1 # 1
      <4>1. /\ x \in Byte /\ y \in Byte /\ x.of \in 1..Len(sent) /\ x.at \in 1..F
            /\ y.at \in 1..FrameSize(y.of)
        BY Zenon, <1>3, <1>5, <2>1, <3>1
      <4>2. F \in Nat
        BY Zenon, <4>1, FrameType
      <4>3. QED
        BY <4>1, <4>2 DEF Byte
    <3>4. \/ y.of = x.of /\ y.at = x.at + (n - i)
          \/ y.of > x.of /\ x.at + (n - i) > F
          \/ x.of \in torn /\ y.of >= x.of
      <4>1. CASE i = n
        <5>1. x.at + (n - i) = x.at
          BY <1>0, <3>3, <4>1
        <5>2. QED
          BY Zenon, <4>1, <5>1
      <4>2. CASE InOrder(i, n)
        <5>1. y.of > x.of \/ y.of = x.of => y.of >= x.of
          BY <3>3
        <5>2. QED
          BY Zenon, <4>2, <5>1 DEF InOrder
      <4>3. QED
        BY Zenon, <3>2, <4>1, <4>2
    <3>5. /\ \/ y.at = FrameSize(y.of) /\ b.of = y.of + 1
             \/ b.of = y.of /\ b.at = y.at + 1
             \/ y.of \in torn /\ (b.of = y.of + 1 \/ (b.of = y.of /\ b.at # 1))
          /\ y.of = x.of => FrameSize(y.of) = F
      BY <1>5, <3>1 DEF Follows, Succ
    <3> HIDE DEF x, y, F
    <3>6. \/ b.of = x.of /\ b.at = x.at + (j - i)
          \/ b.of > x.of /\ x.at + (j - i) > F
          \/ x.of \in torn /\ (b.of > x.of \/ (b.of = x.of /\ b.at # 1))
      <4>1. i \in Nat /\ i <= n /\ b.of \in Nat /\ b.at \in Nat
        BY <1>0, <1>b, <2>1 DEF Byte
      <4>2. (j - i) = (n - i) + 1 /\ n - i \in Nat
        BY <1>0, <2>3, <4>1
      <4>3. CASE x.of \in torn
        <5>0. b.of = y.of + 1 \/ (b.of = y.of /\ b.at # 1)
          BY Zenon, <3>3, <3>5
        <5>1. y.of >= x.of /\ (b.of = y.of + 1 \/ (b.of = y.of /\ b.at # 1))
          BY SMTT(60), <3>3, <3>4, <5>0
        <5>2. b.of > x.of \/ (b.of = x.of /\ b.at # 1)
          BY SMTT(60), <3>3, <4>1, <5>1
        <5>3. QED
          BY Zenon, <4>3, <5>2
      <4>4. CASE x.of \notin torn /\ y.of = x.of /\ y.at = x.at + (n - i)
        <5>0. x.at + (j - i) = (x.at + (n - i)) + 1
          <6>1. PICK d \in Nat : d = n - i /\ j - i = d + 1
            BY Zenon, <4>2
          <6>2. PICK a \in Nat : a = x.at
            BY Zenon, <3>3
          <6>3. a + (d + 1) = (a + d) + 1
            OBVIOUS
          <6>4. QED
            BY Zenon, <6>1, <6>2, <6>3
        <5>1. CASE y.at = F /\ b.of = y.of + 1
          <6>1. y.of + 1 > y.of /\ F + 1 > F
            BY SMTT(60), <3>3
          <6>2. QED
            BY Zenon, <4>4, <5>0, <5>1, <6>1
        <5>2. CASE b.of = y.of /\ b.at = y.at + 1
          BY Zenon, <4>4, <5>0, <5>2
        <5>3. QED
          BY Zenon, <3>5, <4>4, <5>1, <5>2
      <4>5. CASE y.of > x.of /\ x.at + (n - i) > F
        <5>1. b.of > x.of
          BY SMTT(60), <3>3, <3>5, <4>1, <4>5
        <5>2. x.at + (j - i) > F
          BY SMTT(60), <3>3, <4>2, <4>5
        <5>3. QED
          BY Zenon, <5>1, <5>2
      <4>6. QED
        BY Zenon, <3>4, <4>3, <4>4, <4>5
    <3>7. QED
      BY Zenon, <1>1, <1>2, <1>3, <2>1, <2>3, <3>6 DEF InOrder, x, F
  <2>4. QED
    BY Zenon, <2>1, <2>2, <2>3
<1>8. Follows(stream[Len(stream)], WritePos)'
  BY Zenon, <1>1 DEF Follows
<1>9. QED
  BY Zenon, <1>1, <1>4, <1>6, <1>7, <1>8 DEF StreamInv, n
-----------------------------------------------------------------------------
(* The writer's steps *)

\* The byte that goes out next on the stream leaves the reader as it is.
LEMMA AppendStep ==
    ASSUME WireInv, end = "open", NEW b, b = WritePos,
           stream' = Append(stream, b), UNCHANGED <<mode, torn, wpc, end, readerVars>>,
           sent' \in Seq(Messages), Len(sent) <= Len(sent'), onWire' \in Nat,
           \A k \in 1..Len(sent) : sent'[k] = sent[k],
           b.of \in 1..Len(sent'), b.at \in 1..FrameSize(b.of)', Succ(b)' = WritePos',
           b.at = 1 => b.of = Len(sent) + 1, WriterInv', AheadInv', total' \in Nat
    PROVE  WireInv'
<1> USE DEF WireInv
<1>0. /\ Len(stream) \in Nat /\ Len(sent) \in Nat /\ Len(sent') \in Nat
      /\ Len(received) \in Nat /\ header.of \in 0..Len(sent)
      /\ stream \in Seq(Byte) /\ \A j \in DOMAIN later : later[j].of \in 0..Len(sent)
  <2>1. /\ sent \in Seq(Messages) /\ stream \in Seq(Byte) /\ received \in Seq(Messages)
        /\ header \in [of : 0..Len(sent), len : Nat]
        /\ later \in Seq([of : 0..Len(sent), len : Nat, whole : BOOLEAN])
    BY Zenon DEF TypeOK
  <2>2. \A j \in DOMAIN later : later[j] \in [of : 0..Len(sent), len : Nat, whole : BOOLEAN]
    BY ZenonT(60), <2>1, LenProperties, ElementOfSeq
  <2>3. QED
    BY Zenon, <2>1, <2>2, LenProperties
<1>1. /\ stream' \in Seq(Byte) /\ Len(stream') = Len(stream) + 1
      /\ stream'[Len(stream) + 1] = b
      /\ \A i \in 1..Len(stream) : i \in 1..Len(stream') /\ stream'[i] = stream[i]
      /\ StreamInv'
  BY Zenon, StreamAppend
<1>2. UNCHANGED <<rpc, header, data, received, failed, later>>
  BY Zenon DEF readerVars
<1>3. TypeOK'
  <2>1. 0..Len(sent) \subseteq 0..Len(sent') /\ 1..Len(sent) \subseteq 1..Len(sent')
    BY <1>0
  <2>2. header' \in [of : 0..Len(sent'), len : Nat]
    BY Zenon, <1>2, <2>1 DEF TypeOK
  <2>3. later' \in Seq([of : 0..Len(sent'), len : Nat, whole : BOOLEAN])
    <3>1. [of : 0..Len(sent), len : Nat, whole : BOOLEAN]
             \subseteq [of : 0..Len(sent'), len : Nat, whole : BOOLEAN]
      BY Zenon, <2>1
    <3>2. later \in Seq([of : 0..Len(sent), len : Nat, whole : BOOLEAN])
      BY Zenon DEF TypeOK
    <3>3. QED
      BY Zenon, <1>2, <3>1, <3>2, SeqMonotonic
  <2>4. torn' \subseteq 1..Len(sent')
    BY Zenon, <2>1 DEF TypeOK
  <2>5. QED
    BY Zenon, <1>1, <1>2, <2>2, <2>3, <2>4 DEF TypeOK
<1>4. OrderInv'
  <2>1. Len(received') <= Len(sent')
    BY <1>0, <1>2 DEF OrderInv
  <2>2. \A i \in 1..Len(stream') : i \in 1..Len(stream) \/ stream'[i] = b
    <3> TAKE i \in 1..Len(stream')
    <3>1. i \in 1..Len(stream) \/ i = Len(stream) + 1
      BY <1>0, <1>1
    <3>2. QED
      BY Zenon, <1>1, <3>1
  <2>3. b.at = 1 => /\ b.of > Len(received) /\ b.of > header.of
                    /\ \A j \in DOMAIN later : b.of > later[j].of
    BY <1>0 DEF OrderInv
  <2>4. \A i \in 1..Len(stream') : stream'[i].at = 1 =>
           /\ stream'[i].of > Len(received')
           /\ \A j \in DOMAIN later' : stream'[i].of > later'[j].of
           /\ Reading' => stream'[i].of > header'.of
    BY ZenonT(60), <1>1, <1>2, <2>2, <2>3 DEF OrderInv, Reading
  <2>5. LaterInOrder'
    BY Zenon, <1>2 DEF OrderInv, LaterInOrder
  <2>6. QED
    BY Zenon, <1>2, <2>1, <2>4, <2>5 DEF OrderInv, Reading, Whole
<1>5. ReaderInv'
  <2> SUFFICES ASSUME ~failed, ~Spoilt PROVE ReaderInv'
    BY Zenon, <1>2 DEF ReaderInv, Spoilt
  <2>1. ReadPos' = ReadPos
    BY Zenon, <1>2 DEF ReadPos
  <2>2. stream' # <<>> /\ stream'[1] = ReadPos
    <3>1. CASE Len(stream) = 0
      <4>0. Len(stream) + 1 = 1 /\ Len(stream') # 0
        BY <1>1, <3>1
      <4>1. stream = <<>> /\ stream'[1] = b /\ stream' # <<>>
        BY Zenon, <1>0, <1>1, <3>1, <4>0, EmptySeq
      <4>2. QED
        BY Zenon, <4>1 DEF ReaderInv
    <3>2. CASE Len(stream) # 0
      <4>1. 1 \in 1..Len(stream) /\ stream # <<>> /\ stream' # <<>>
        BY <1>0, <1>1, <3>2
      <4>2. QED
        BY Zenon, <1>1, <4>1 DEF ReaderInv
    <3>3. QED
      BY Zenon, <3>1, <3>2
  <2>3. Reading => sent'[header.of] = sent[header.of]
    <3>1. Reading => header.of \in 1..Len(sent)
      BY <1>0 DEF ReaderInv
    <3>2. QED
      BY Zenon, <3>1
  <2>4. QED
    BY Zenon, <1>2, <2>1, <2>2, <2>3 DEF ReaderInv, Reading
<1>6. QED
  BY Zenon, <1>1, <1>3, <1>4, <1>5

LEMMA WriteStep ==
    ASSUME WireInv, NEW m \in Messages, Write(m)
    PROVE  WireInv'
<1>0. sent \in Seq(Messages) /\ Len(sent) \in Nat
  BY DEF WireInv, TypeOK
<1>1. PICK n \in Nat : n = Len(sent)
  BY <1>0
<1>2. PICK b : b = [of |-> n + 1, at |-> 1]
  BY Zenon
<1>3. /\ b = WritePos /\ end = "open"
      /\ sent' = Append(sent, m) /\ onWire' = 1 /\ total' = 0 /\ stream' = Append(stream, b)
      /\ UNCHANGED <<mode, torn, wpc, end, readerVars>>
  BY Zenon, <1>1, <1>2 DEF Write, WritePos
<1>4. /\ sent' \in Seq(Messages) /\ Len(sent') = n + 1 /\ sent'[n + 1] = m
      /\ \A k \in 1..n : sent'[k] = sent[k]
  BY <1>0, <1>1, <1>3
<1>5. Size[m] \in Nat /\ FrameSize(n + 1)' = HeaderSize + Size[m]
  BY Zenon, <1>4, WireAssumption DEF FrameSize
<1>6. FrameSize(n + 1)' \in Nat /\ FrameSize(n + 1)' >= 1
  BY <1>5, WireAssumption
<1>7. WriterInv'
  <2>1. 1 \in 1..FrameSize(n + 1)'
    BY <1>6
  <2>2. sent' # <<>>
    BY <1>3, <1>4
  <2>3. QED
    BY Zenon, <1>3, <1>4, <2>1, <2>2 DEF WriterInv
<1>8. Succ(b)' = WritePos'
  <2>1. sent' # <<>> /\ b.of = n + 1 /\ b.at = 1 /\ b.at + 1 = 1 + 1
    BY <1>2, <1>3, <1>4
  <2>2. Idle' <=> FrameSize(n + 1)' = 1
    BY Zenon, <1>3, <1>4, <2>1 DEF Idle
  <2>3. QED
    BY Zenon, <1>3, <1>4, <2>1, <2>2 DEF Succ, WritePos
<1>9. /\ b.of \in 1..Len(sent') /\ b.at \in 1..FrameSize(b.of)'
      /\ b.of = Len(sent) + 1 /\ Len(sent) <= Len(sent') /\ onWire' \in Nat
  BY <1>1, <1>2, <1>3, <1>4, <1>6
<1>10. AheadInv' /\ total' \in Nat
  <2>1. Len(received) \in Nat /\ Len(received) <= Len(sent) /\ received' = received
    BY Zenon, <1>3, LenProperties DEF WireInv, TypeOK, OrderInv, readerVars
  <2>2. Len(received') < Len(sent') /\ total' \in Nat
    BY <1>1, <1>3, <1>4, <2>1
  <2>3. QED
    BY Zenon, <2>2 DEF AheadInv
<1>11. QED
  BY Zenon, <1>1, <1>3, <1>4, <1>7, <1>8, <1>9, <1>10, AppendStep

LEMMA TransmitStep ==
    ASSUME WireInv, Transmit
    PROVE  WireInv'
<1>0. sent \in Seq(Messages) /\ sent # <<>> /\ onWire # FrameSize(Len(sent)) /\ onWire \in Nat
  BY Zenon DEF WireInv, TypeOK, Transmit, Idle
<1>1. PICK n \in Nat : n = Len(sent) /\ n \in 1..n
  BY <1>0
<1>2. PICK b : b = [of |-> n, at |-> onWire + 1]
  BY Zenon
<1>3. /\ b = WritePos /\ end = "open" /\ onWire' = onWire + 1 /\ stream' = Append(stream, b)
      /\ UNCHANGED <<mode, sent, total, torn, wpc, end, readerVars>>
  BY Zenon, <1>1, <1>2 DEF Transmit, WritePos
<1>4. FrameSize(n)' = FrameSize(n) /\ FrameSize(n) \in Nat /\ onWire \in 1..FrameSize(n)
  BY Zenon, <1>0, <1>1, <1>3, FrameKept, FrameType DEF WireInv, WriterInv
<1>5. /\ onWire' \in 1..FrameSize(n)' /\ onWire' \in Nat /\ onWire' # 1
      /\ b.of = n /\ b.at = onWire' /\ b.at + 1 = onWire' + 1
  BY <1>0, <1>1, <1>2, <1>3, <1>4
<1>6. WriterInv'
  BY Zenon, <1>0, <1>1, <1>3, <1>5 DEF WriterInv
<1>7. Succ(b)' = WritePos'
  BY Zenon, <1>0, <1>1, <1>3, <1>5 DEF Succ, WritePos, Idle
<1>8. Len(sent) <= Len(sent')
  BY <1>1, <1>3
<1>9. AheadInv' /\ total' \in Nat
  BY Zenon, <1>3 DEF WireInv, AheadInv, TypeOK, Transmit, readerVars
<1>10. QED
  BY Zenon, <1>0, <1>1, <1>3, <1>5, <1>6, <1>7, <1>8, <1>9, AppendStep

\* Where the writer goes on after a short write is a place in its frame.
LEMMA AfterShort ==
    ASSUME WireInv, ShortWrite
    PROVE  /\ Len(sent) \in 1..Len(sent) /\ onWire \in 1..FrameSize(Len(sent))
           /\ onWire' \in 1..FrameSize(Len(sent)) /\ onWire' \in Nat /\ total' \in Nat
           /\ onWire + 1 # 1 /\ onWire' + 1 # 1
<1>0. /\ sent \in Seq(Messages) /\ sent # <<>> /\ onWire \in Nat /\ total \in Nat
      /\ onWire \in 1..FrameSize(Len(sent))
  BY Zenon DEF WireInv, TypeOK, ShortWrite, Idle, WriterInv
<1>1. PICK n \in Nat : n = Len(sent) /\ n \in 1..n
  BY <1>0
<1>2. PICK F \in Nat : F = FrameSize(n) /\ F >= HeaderSize
  BY Zenon, <1>1, FrameType DEF WireInv
<1>3. \/ onWire' = HeaderSize /\ total' = total
      \/ /\ ~(onWire < HeaderSize) /\ total' = total + (onWire - HeaderSize)
         /\ onWire' = HeaderSize \/ onWire' = F
  BY Zenon, <1>1, <1>2 DEF ShortWrite, AfterShortWrite
<1>4. onWire \in 1..F /\ HeaderSize \in Nat \ {0}
  BY Zenon, <1>0, <1>1, <1>2, WireAssumption
<1>5. onWire' \in 1..F /\ total' \in Nat
  <2>1. HeaderSize \in 1..F /\ F \in 1..F /\ onWire \in Nat
    BY <1>2, <1>4
  <2>2. ~(onWire < HeaderSize) => total + (onWire - HeaderSize) \in Nat
    BY <1>0, <1>4, <2>1
  <2>3. QED
    BY Zenon, <1>0, <1>3, <2>1, <2>2
<1>6. onWire' \in Nat /\ onWire + 1 # 1 /\ onWire' + 1 # 1
  <2>1. \A z \in 1..F : z \in Nat /\ z + 1 # 1
    OBVIOUS
  <2>2. QED
    BY Zenon, <1>4, <1>5, <2>1
<1>7. QED
  BY Zenon, <1>1, <1>2, <1>4, <1>5, <1>6

\* A short write leaves the stream as it is; what it says of the last frame is
\* from now on only what holds of a frame written short.
LEMMA ShortWriteStream ==
    ASSUME WireInv, ShortWrite
    PROVE  StreamInv'
<1> USE DEF WireInv
<1>0. UNCHANGED <<sent, stream, end>> /\ torn' = torn \cup {Len(sent)}
      /\ end = "open" /\ ~Idle
  BY Zenon DEF ShortWrite
<1>1. \A k : FrameSize(k)' = FrameSize(k)
  BY Zenon, <1>0, FrameKept
<1>2. \A b, c : Follows(b, c) => Follows(b, c)'
  BY Zenon, <1>0, <1>1 DEF Follows, Succ
<1>3. \A i, j : InOrder(i, j) => InOrder(i, j)'
  BY Zenon, <1>0, <1>1 DEF InOrder
<1>4. ASSUME stream # <<>> PROVE Follows(stream[Len(stream)], WritePos)'
  <2>1. PICK b : b = stream[Len(stream)]
    BY Zenon
  <2>2. Follows(b, WritePos)
    BY Zenon, <1>0, <1>4, <2>1 DEF StreamInv
  <2>3. PICK n : n = Len(sent)
    BY Zenon
  <2>4. WritePos = [of |-> n, at |-> onWire + 1]
    BY Zenon, <1>0, <2>3 DEF WritePos
  <2>5. WritePos.of = n /\ WritePos.at # 1
    BY <2>3, <2>4, AfterShort
  <2>6. b.of = n
    BY <2>2, <2>5 DEF Follows, Succ
  <2>7. b.of \in torn'
    BY Zenon, <1>0, <2>3, <2>6
  <2>8. CASE Idle'
    <3>1. WritePos' = [of |-> n + 1, at |-> 1]
      BY Zenon, <1>0, <2>3, <2>8 DEF WritePos
    <3>2. WritePos'.of = b.of + 1 /\ WritePos'.at = 1
      BY <2>6, <3>1
    <3>3. QED
      BY Zenon, <1>0, <2>1, <2>7, <3>2 DEF Follows
  <2>9. CASE ~Idle'
    <3>1. WritePos' = [of |-> n, at |-> onWire' + 1]
      BY Zenon, <1>0, <2>3, <2>9 DEF WritePos
    <3>2. WritePos'.of = b.of /\ WritePos'.at # 1
      BY <2>6, <3>1, AfterShort
    <3>3. QED
      BY Zenon, <1>0, <2>1, <2>7, <3>2 DEF Follows
  <2>10. QED
    BY Zenon, <2>8, <2>9
<1>5. QED
  BY Zenon, <1>0, <1>1, <1>2, <1>3, <1>4 DEF StreamInv

LEMMA ShortWriteStep ==
    ASSUME WireInv, ShortWrite
    PROVE  WireInv'
<1> USE DEF WireInv
<1>1. /\ UNCHANGED <<mode, sent, wpc, stream, end, rpc, header, data, received, failed, later>>
      /\ torn' = torn \cup {Len(sent)} /\ end = "open" /\ ~Idle
  BY Zenon DEF ShortWrite, readerVars
<1>2. /\ Len(sent) \in 1..Len(sent) /\ onWire \in 1..FrameSize(Len(sent))
      /\ onWire' \in 1..FrameSize(Len(sent)) /\ onWire' \in Nat /\ total' \in Nat
      /\ onWire + 1 # 1
  BY Zenon, AfterShort
<1>3. TypeOK'
  <2>1. torn' \subseteq 1..Len(sent)
    BY Zenon, <1>1, <1>2 DEF TypeOK
  <2>2. QED
    BY Zenon, <1>1, <1>2, <2>1 DEF TypeOK
<1>4. WriterInv'
  <2>1. FrameSize(Len(sent))' = FrameSize(Len(sent)) /\ sent # <<>>
    BY Zenon, <1>1 DEF FrameSize, Idle
  <2>2. QED
    BY Zenon, <1>1, <1>2, <2>1 DEF WriterInv
<1>5. AheadInv'
  BY Zenon, <1>1 DEF AheadInv
<1>6. StreamInv'
  BY Zenon, ShortWriteStream
<1>7. OrderInv'
  BY Zenon, <1>1 DEF OrderInv, LaterInOrder, Reading, Whole
<1>8. ReaderInv'
  <2> SUFFICES ASSUME ~failed, ~Spoilt' PROVE ReaderInv'
    BY Zenon, <1>1 DEF ReaderInv
  <2>1. ~Spoilt /\ ~(Len(sent) <= Len(received) + 1)
    BY Zenon, <1>1 DEF Spoilt
  <2>2. Len(sent) \in Nat /\ Len(received) \in Nat
    BY Zenon, LenProperties DEF TypeOK
  <2>3. stream # <<>>
    <3> SUFFICES ASSUME stream = <<>> PROVE FALSE
      OBVIOUS
    <3>1. WritePos = ReadPos
      BY Zenon, <1>1, <2>1 DEF ReaderInv
    <3>2. WritePos.of = Len(sent) /\ WritePos.at # 1
      BY <1>1, <1>2 DEF WritePos
    <3>3. ReadPos.of = Len(received) + 1 \/ ReadPos.at = 1
      BY DEF ReadPos
    <3>4. Len(sent) = Len(received) + 1
      BY Zenon, <3>1, <3>2, <3>3
    <3>5. QED
      BY <2>1, <2>2, <3>4
  <2>4. ReadPos' = ReadPos /\ (Reading' <=> Reading)
    BY Zenon, <1>1 DEF ReadPos, Reading
  <2>5. QED
    BY Zenon, <1>1, <2>1, <2>3, <2>4 DEF ReaderInv
<1>9. QED
  BY Zenon, <1>3, <1>4, <1>5, <1>6, <1>7, <1>8
-----------------------------------------------------------------------------
(* The end of the writer, and errors *)

\* Bytes that are lost or read do not disturb the order, nor does the end of a
\* frame.
LEMMA OrderKept ==
    ASSUME OrderInv, UNCHANGED <<sent, received, header, data, later>>, Reading' => Reading,
           rpc' = "deliver" => Whole /\ (header.of = 0 => header.len = 0),
           \A i \in 1..Len(stream') : \E j \in 1..Len(stream) : stream'[i] = stream[j]
    PROVE  OrderInv'
<1>1. LaterInOrder'
  BY Zenon DEF OrderInv, LaterInOrder
<1>2. \A i \in 1..Len(stream') : stream'[i].at = 1 =>
           /\ stream'[i].of > Len(received)
           /\ \A j \in DOMAIN later : stream'[i].of > later[j].of
           /\ Reading => stream'[i].of > header.of
  BY Zenon DEF OrderInv
<1>3. Whole' <=> Whole
  BY Zenon DEF Whole
<1>4. QED
  BY Zenon, <1>1, <1>2, <1>3 DEF OrderInv

\* Steps that leave the messages and the writer's place alone.
LEMMA PlaceKept ==
    ASSUME WriterInv, AheadInv, UNCHANGED <<sent, onWire, received>>, end' = "open" => end = "open"
    PROVE  /\ WriterInv' /\ AheadInv' /\ WritePos' = WritePos
           /\ \A k : FrameSize(k)' = FrameSize(k)
<1>1. \A k : FrameSize(k)' = FrameSize(k)
  BY Zenon, FrameKept
<1>2. QED
  BY Zenon, <1>1 DEF WriterInv, AheadInv, WritePos, Idle

\* The connection is closed or breaks, or the error of Write is reported.
LEMMA EndStep ==
    ASSUME WireInv, WriteFails \/ Close \/ Break
    PROVE  WireInv'
<1> USE DEF WireInv
<1>1. /\ UNCHANGED <<mode, sent, onWire, total, torn, rpc, header, data, received, failed, later>>
      /\ end' = "open" => end = "open"
  BY Zenon DEF WriteFails, Close, Break, writerVars, readerVars
<1>2. /\ WriterInv' /\ AheadInv' /\ ReadPos' = ReadPos /\ WritePos' = WritePos
      /\ (Reading' = Reading) /\ (Spoilt' <=> Spoilt)
      /\ rpc' = "deliver" => Whole /\ (header.of = 0 => header.len = 0)
  <2>1. WriterInv' /\ AheadInv' /\ WritePos' = WritePos
    BY Zenon, <1>1, PlaceKept
  <2>2. QED
    BY Zenon, <1>1, <2>1 DEF ReadPos, OrderInv, Reading, Spoilt
<1>3. CASE WriteFails \/ Close
  <2>1. UNCHANGED stream /\ (end' # "broken" => end # "broken")
        /\ wpc' \in {"write", "error"} /\ end' \in {"open", "closed", "broken"}
    BY Zenon, <1>3 DEF WriteFails, Close, writerVars, TypeOK
  <2>2. TypeOK'
    BY Zenon, <1>1, <2>1 DEF TypeOK
  <2>3. StreamInv'
    BY Zenon, <1>1, <2>1, StreamKept
  <2>4. OrderInv'
    BY Zenon, <1>1, <1>2, <2>1, OrderKept
  <2>5. ReaderInv'
    BY Zenon, <1>1, <1>2, <2>1 DEF ReaderInv
  <2>6. QED
    BY Zenon, <1>2, <2>2, <2>3, <2>4, <2>5
<1>4. CASE Break
  <2>1. PICK n \in 0..Len(stream) : stream' = SubSeq(stream, 1, n)
    BY Zenon, <1>4 DEF Break
  <2>2. end' = "broken" /\ UNCHANGED wpc
    BY Zenon, <1>4 DEF Break, writerVars
  <2>3. /\ stream' \in Seq(Byte) /\ Len(stream') = n
        /\ \A i \in 1..n : stream'[i] = stream[i]
        /\ StreamInv'
    BY Zenon, <1>1, <2>1, <2>2, StreamPrefix
  <2>4. TypeOK'
    BY Zenon, <1>1, <2>2, <2>3 DEF TypeOK
  <2>5. Len(stream) \in Nat /\ \A i \in 1..n : i \in 1..Len(stream)
    BY DEF TypeOK
  <2>6. OrderInv'
    BY Zenon, <1>1, <1>2, <2>3, <2>5, OrderKept
  <2>7. stream' # <<>> => stream # <<>> /\ 1 \in 1..n
    BY <2>3, <2>5
  <2>8. ReaderInv'
    BY Zenon, <1>1, <1>2, <2>2, <2>3, <2>7 DEF ReaderInv
  <2>9. QED
    BY Zenon, <1>2, <2>3, <2>4, <2>6, <2>8
<1>5. QED
  BY Zenon, <1>3, <1>4

\* Read gives an error because the stream ends, or Channelize's user takes one.
LEMMA ErrorStep ==
    ASSUME WireInv, ReadFails \/ TakeError
    PROVE  WireInv'
<1> USE DEF WireInv
<1>1. UNCHANGED <<mode, sent, onWire, total, torn, end, header, data, received, later>>
  BY Zenon DEF ReadFails, TakeError, Fails, writerVars
<1>2. WriterInv' /\ AheadInv' /\ WritePos' = WritePos
  BY Zenon, <1>1, PlaceKept
<1>3. CASE ReadFails
  <2>1. /\ stream' = <<>> /\ failed' = TRUE /\ rpc' \in {"done", "error"} /\ UNCHANGED wpc
    BY Zenon, <1>3 DEF ReadFails, Fails, writerVars
  <2>2. /\ stream' \in Seq(Byte) /\ Len(stream') = 0 /\ 1..Len(stream') = {}
        /\ 1..(Len(stream') - 1) = {}
    BY <2>1
  <2>3. TypeOK'
    BY Zenon, <1>1, <2>1, <2>2 DEF TypeOK
  <2>4. StreamInv'
    BY Zenon, <2>1, <2>2 DEF StreamInv
  <2>5. OrderInv'
    BY Zenon, <1>1, <2>1, <2>2, OrderKept DEF Reading
  <2>6. QED
    BY Zenon, <1>2, <2>1, <2>3, <2>4, <2>5 DEF ReaderInv
<1>4. CASE TakeError
  <2>1. /\ UNCHANGED <<stream, failed>> /\ wpc' \in {"write", "error"}
        /\ rpc' = rpc \/ (rpc = "error" /\ rpc' = "header")
    BY Zenon, <1>4 DEF TakeError, TypeOK
  <2>2. TypeOK'
    BY Zenon, <1>1, <2>1 DEF TypeOK
  <2>3. StreamInv'
    BY Zenon, <1>1, <2>1, StreamKept
  <2>4. OrderInv'
    <3>1. (Reading' => Reading) /\ (rpc' = "deliver" => rpc = "deliver")
      BY Zenon, <2>1 DEF Reading
    <3>2. QED
      BY Zenon, <1>1, <2>1, <3>1, OrderKept DEF OrderInv
  <2>5. ReaderInv'
    BY Zenon, <1>1, <1>2, <2>1 DEF ReaderInv, ReadPos, Reading, Spoilt
  <2>6. QED
    BY Zenon, <1>2, <2>2, <2>3, <2>4, <2>5
<1>5. QED
  BY Zenon, <1>3, <1>4
-----------------------------------------------------------------------------
(* The steps of Read *)

\* Once the first n bytes are read, the next one is the successor of the n-th,
\* on the stream or still with the writer, unless its frame was written short.
LEMMA NextIsSucc ==
    ASSUME WireInv, NEW n \in 1..Len(stream), stream[n].of \notin torn,
           stream' = SubSeq(stream, n + 1, Len(stream)), UNCHANGED <<sent, onWire, torn, end>>
    PROVE  /\ stream' # <<>> => stream'[1] = Succ(stream[n])
           /\ end # "broken" /\ stream' = <<>> => WritePos = Succ(stream[n])
<1> USE DEF WireInv
<1>0. stream \in Seq(Byte) /\ Len(stream) \in Nat /\ n \in 0..Len(stream) /\ stream # <<>>
  BY DEF TypeOK
<1>1. /\ Len(stream') = Len(stream) - n
      /\ \A i \in 1..Len(stream') : stream'[i] = stream[i + n]
      /\ stream' \in Seq(Byte)
  BY Zenon, <1>0, StreamSuffix
<1>2. CASE n = Len(stream)
  <2>1. Len(stream') = 0
    BY <1>0, <1>1, <1>2
  <2>2. stream' = <<>>
    BY Zenon, <1>1, <2>1, EmptySeq
  <2>3. QED
    BY Zenon, <1>0, <1>2, <2>2 DEF StreamInv, Follows
<1>3. CASE n # Len(stream)
  <2>1. n \in 1..(Len(stream) - 1) /\ 1 + n = n + 1
    BY <1>0, <1>3
  <2>2. Len(stream') \in Nat /\ Len(stream') # 0
    BY <1>0, <1>1, <1>3
  <2>3. 1 \in 1..Len(stream')
    BY <2>2
  <2>4. stream' # <<>>
    BY Zenon, <1>1, <2>2, EmptySeq
  <2>5. QED
    BY Zenon, <1>1, <2>1, <2>3, <2>4 DEF StreamInv, Follows
<1>4. QED
  BY Zenon, <1>2, <1>3

\* The next message is not torn as long as the stream is not spoilt.
LEMMA NextNotTorn ==
    ASSUME ~Spoilt, Len(received) \in Nat
    PROVE  Len(received) + 1 \notin torn
  BY DEF Spoilt

\* As long as Read has its place, the header it reads is that of the next message.
LEMMA HeaderInPlace ==
    ASSUME WireInv, ~failed, ~Spoilt, rpc = "header", Len(stream) >= HeaderSize
    PROVE  /\ stream[1].of = Len(received) + 1
           /\ \A i \in 1..HeaderSize : stream[i] = [of |-> stream[1].of, at |-> i]
<1> USE DEF WireInv
<1>0. Len(stream) \in Nat /\ 1 \in 1..Len(stream) /\ stream # <<>> /\ HeaderSize \in Nat
  BY WireAssumption DEF TypeOK
<1>1. stream[1] = [of |-> Len(received) + 1, at |-> 1]
  BY Zenon, <1>0 DEF ReaderInv, ReadPos
<1>2. stream[1].of = Len(received) + 1 /\ stream[1].at = 1 /\ stream[1].of \notin torn
  <2>1. stream[1].of = Len(received) + 1 /\ stream[1].at = 1
    BY <1>1
  <2>2. QED
    BY Zenon, <2>1, NextNotTorn, LenProperties DEF TypeOK
<1>3. FrameSize(stream[1].of) \in Nat /\ FrameSize(stream[1].of) >= HeaderSize
  BY Zenon, <1>0, ByteType, FrameType
<1>4. ASSUME NEW i \in 1..HeaderSize PROVE stream[i] = [of |-> stream[1].of, at |-> i]
  <2>1. i \in 1..Len(stream) /\ (i = 1 \/ 1 < i) /\ 1 + (i - 1) = i
        /\ ~(i > FrameSize(stream[1].of))
    BY <1>0, <1>3
  <2>2. i = 1 \/ InOrder(1, i)
    BY Zenon, <1>0, <2>1 DEF StreamInv
  <2>3. stream[i].of = stream[1].of /\ stream[i].at = i
    BY Zenon, <1>2, <2>1, <2>2 DEF InOrder
  <2>4. QED
    BY Zenon, <2>1, <2>3, ByteType
<1>5. QED
  BY Zenon, <1>2, <1>4

\* A header is that of a frame whose first byte was the next on the stream, or
\* none that was sent.
LEMMA HeaderCases ==
    ASSUME WireInv, Len(stream) >= HeaderSize, NEW h \in Headers
    PROVE  /\ h \in [of : 0..Len(sent), len : Nat]
           /\ h.of # 0 => stream[1] = [of |-> h.of, at |-> 1] /\ h.len = Size[sent[h.of]]
<1> USE DEF WireInv
<1>0. Len(stream) \in Nat /\ 1 \in 1..Len(stream) /\ HeaderSize \in Nat /\ 1 \in 1..HeaderSize
      /\ Len(sent) \in Nat
  BY WireAssumption DEF TypeOK
<1>1. CASE \A i \in 1..HeaderSize : stream[i] = [of |-> stream[1].of, at |-> i]
  <2>1. h = [of |-> stream[1].of, len |-> Size[sent[stream[1].of]]]
    BY Zenon, <1>1 DEF Headers
  <2>2. stream[1].of \in 1..Len(sent) /\ stream[1] = [of |-> stream[1].of, at |-> 1]
    BY Zenon, <1>0, <1>1, ByteType
  <2>3. Size[sent[stream[1].of]] \in Nat
    BY Zenon, <2>2, FrameType
  <2>4. stream[1].of \in 0..Len(sent)
    BY <1>0, <2>2
  <2>5. QED
    BY Zenon, <2>1, <2>2, <2>3, <2>4
<1>2. CASE ~\A i \in 1..HeaderSize : stream[i] = [of |-> stream[1].of, at |-> i]
  <2>1. PICK l \in 0..(MaximumMessageSize + 1) : h = [of |-> 0, len |-> l]
    BY Zenon, <1>2 DEF Headers
  <2>2. l \in Nat /\ 0 \in 0..Len(sent)
    BY <1>0, WireAssumption
  <2>3. QED
    BY Zenon, <2>1, <2>2
<1>3. QED
  BY Zenon, <1>1, <1>2

LEMMA ReadHeaderStep ==
    ASSUME WireInv, ReadHeader
    PROVE  WireInv'
<1> USE DEF WireInv
<1>1. /\ UNCHANGED <<mode, sent, onWire, total, torn, wpc, end, received, later>>
      /\ rpc = "header" /\ Len(stream) >= HeaderSize /\ header' \in Headers
      /\ stream' = SubSeq(stream, HeaderSize + 1, Len(stream)) /\ data' = <<>>
      /\ \/ /\ header'.len <= MaximumMessageSize /\ rpc' = "body" /\ UNCHANGED failed
         \/ rpc' \in {"done", "error"} /\ failed' = TRUE
  BY Zenon DEF ReadHeader, Fails, writerVars, Accepts
<1>2. /\ Len(stream) \in Nat /\ HeaderSize \in 1..Len(stream) /\ HeaderSize \in 0..Len(stream)
      /\ 1 \in 1..Len(stream)
  BY <1>1, WireAssumption DEF TypeOK
<1>3. /\ stream' \in Seq(Byte) /\ Len(stream') = Len(stream) - HeaderSize
      /\ \A i \in 1..Len(stream') :
             i + HeaderSize \in 1..Len(stream) /\ stream'[i] = stream[i + HeaderSize]
      /\ StreamInv'
  BY Zenon, <1>1, <1>2, StreamSuffix
<1>4. PICK h : h = header'
  BY Zenon
<1>5. /\ h \in [of : 0..Len(sent), len : Nat]
      /\ h.of # 0 => stream[1] = [of |-> h.of, at |-> 1] /\ h.len = Size[sent[h.of]]
  BY Zenon, <1>1, <1>4, HeaderCases
<1>6. WriterInv' /\ AheadInv' /\ WritePos' = WritePos
  BY Zenon, <1>1, PlaceKept
<1>7. TypeOK'
  <2>1. data' \in Seq(Byte) /\ Len(data') <= header'.len
    BY <1>1, <1>4, <1>5
  <2>2. QED
    BY Zenon, <1>1, <1>3, <1>4, <1>5, <2>1 DEF TypeOK
<1>8. OrderInv'
  <2>1. h.of # 0 => /\ h.of > Len(received)
                    /\ \A j \in DOMAIN later : h.of > later[j].of
    <3>1. h.of # 0 => stream[1].of = h.of /\ stream[1].at = 1
      BY <1>5
    <3>2. QED
      BY Zenon, <1>2, <3>1 DEF OrderInv
  <2>2. \A i \in 1..Len(stream') : stream'[i].at = 1 => stream'[i].of > h.of
    <3> SUFFICES ASSUME NEW i \in 1..Len(stream'), stream'[i].at = 1
                 PROVE  stream'[i].of > h.of
      OBVIOUS
    <3>1. /\ i + HeaderSize \in 1..Len(stream) /\ 1 < i + HeaderSize
          /\ 1 + ((i + HeaderSize) - 1) # 1
      BY <1>2, <1>3
    <3>2. CASE h.of = 0
      <4>1. stream'[i].of \in 1..Len(sent)
        BY Zenon, <1>3, <3>1, ByteType
      <4>2. QED
        BY <3>2, <4>1 DEF TypeOK
    <3>3. CASE h.of # 0
      <4>1. stream[1].of = h.of /\ stream[1].at = 1
        BY <1>5, <3>3
      <4>2. InOrder(1, i + HeaderSize)
        BY Zenon, <1>2, <3>1 DEF StreamInv
      <4>3. QED
        BY Zenon, <1>3, <3>1, <4>1, <4>2 DEF InOrder
    <3>4. QED
      BY Zenon, <3>2, <3>3
  <2>3. LaterInOrder' /\ rpc' # "deliver"
    BY Zenon, <1>1 DEF OrderInv, LaterInOrder
  <2>4. \A i \in 1..Len(stream') : stream'[i].at = 1 =>
           /\ stream'[i].of > Len(received)
           /\ \A j \in DOMAIN later : stream'[i].of > later[j].of
    BY Zenon, <1>3 DEF OrderInv
  <2>5. /\ Len(received') <= Len(sent')
        /\ \A i \in 1..Len(stream') : stream'[i].at = 1 =>
               /\ stream'[i].of > Len(received')
               /\ \A j \in DOMAIN later' : stream'[i].of > later'[j].of
               /\ stream'[i].of > header'.of
        /\ header'.of # 0 => /\ header'.of > Len(received')
                             /\ \A j \in DOMAIN later' : header'.of > later'[j].of
    BY Zenon, <1>1, <1>4, <2>1, <2>2, <2>4 DEF OrderInv
  <2>6. QED
    BY Zenon, <2>3, <2>5 DEF OrderInv
<1>9. ReaderInv'
  <2> SUFFICES ASSUME ~failed', ~Spoilt' PROVE ReaderInv'
    BY Zenon DEF ReaderInv
  <2>0. ~Spoilt
    BY Zenon, <1>1 DEF Spoilt
  <2>1. ~failed /\ rpc' = "body" /\ h.len <= MaximumMessageSize
    BY <1>1, <1>4
  <2> DEFINE k == Len(received) + 1
  <2>2. /\ stream[1].of = k
        /\ \A i \in 1..HeaderSize : stream[i] = [of |-> stream[1].of, at |-> i]
    BY Zenon, <1>1, <2>0, <2>1, HeaderInPlace
  <2>3. h.of = k /\ h.len = Size[sent[k]]
    <3>1. h = [of |-> stream[1].of, len |-> Size[sent[stream[1].of]]]
      BY Zenon, <1>1, <1>4, <2>2 DEF Headers
    <3>2. h.of = stream[1].of /\ h.len = Size[sent[stream[1].of]]
      BY <3>1
    <3>3. QED
      BY Zenon, <2>2, <3>2
  <2>4. k \in 1..Len(sent) /\ Size[sent[k]] \in Nat /\ Len(received) \in Nat
    <3>1. k \in 1..Len(sent)
      BY Zenon, <1>2, <2>2, ByteType
    <3>2. QED
      BY Zenon, <3>1, FrameType, LenProperties DEF TypeOK
  <2>5. Succ(stream[HeaderSize]) = IF Size[sent[k]] > 0 THEN [of |-> k, at |-> HeaderSize + 1]
                                                        ELSE [of |-> k + 1, at |-> 1]
    <3>1. stream[HeaderSize].of = k /\ stream[HeaderSize].at = HeaderSize
      <4>1. HeaderSize \in 1..HeaderSize
        BY <1>2
      <4>2. stream[HeaderSize] = [of |-> stream[1].of, at |-> HeaderSize]
        BY Zenon, <2>2, <4>1
      <4>3. stream[HeaderSize].of = stream[1].of /\ stream[HeaderSize].at = HeaderSize
        BY <4>2
      <4>4. QED
        BY Zenon, <2>2, <4>3
    <3>2. FrameSize(k) = HeaderSize <=> ~(Size[sent[k]] > 0)
      BY <2>4, WireAssumption DEF FrameSize
    <3>3. QED
      BY Zenon, <3>1, <3>2 DEF Succ
  <2>6. ReadPos' = Succ(stream[HeaderSize])
    <3>1. Len(data') = 0 /\ HeaderSize + Len(data') + 1 = HeaderSize + 1
          /\ (0 < Size[sent[k]] <=> Size[sent[k]] > 0)
      BY <1>1, <2>4, WireAssumption
    <3>2. QED
      BY Zenon, <1>1, <1>4, <2>1, <2>3, <2>5, <3>1 DEF ReadPos
  <2>7. /\ stream' # <<>> => stream'[1] = Succ(stream[HeaderSize])
        /\ end # "broken" /\ stream' = <<>> => WritePos = Succ(stream[HeaderSize])
    <3>1. HeaderSize \in 1..HeaderSize
      BY <1>2
    <3>2. stream[HeaderSize] = [of |-> k, at |-> HeaderSize]
      BY Zenon, <2>2, <3>1
    <3>3. stream[HeaderSize].of = k
      BY <3>2
    <3>4. stream[HeaderSize].of \notin torn
      BY Zenon, <2>0, <2>4, <3>3, NextNotTorn
    <3>5. QED
      BY Zenon, <1>1, <1>2, <3>4, NextIsSucc
  <2>8. 1..Len(data') = {}
    BY <1>1
  <2>9. later = <<>>
    BY Zenon, <2>0, <2>1 DEF ReaderInv
  <2> HIDE DEF k
  <2>10. Reading' => /\ header'.of = Len(received') + 1
                     /\ header'.len = Size[sent'[header'.of]]
                     /\ header'.len <= MaximumMessageSize
    BY Zenon, <1>1, <1>4, <2>1, <2>3 DEF k
  <2>11. QED
    BY Zenon, <1>1, <1>6, <2>1, <2>6, <2>7, <2>8, <2>9, <2>10 DEF ReaderInv
<1>10. QED
  BY Zenon, <1>3, <1>6, <1>7, <1>8, <1>9

LEMMA ReadBodyStep ==
    ASSUME WireInv, ReadBody
    PROVE  WireInv'
<1> USE DEF WireInv
<1>1. /\ UNCHANGED <<mode, sent, onWire, total, torn, wpc, end, received, later, rpc, header,
                     failed>>
      /\ rpc = "body" /\ Len(data) < header.len /\ stream # <<>>
      /\ data' = Append(data, Head(stream)) /\ stream' = Tail(stream)
  BY Zenon DEF ReadBody, BodyIncomplete, writerVars
<1>2. /\ Len(stream) \in Nat /\ 1 \in 1..Len(stream) /\ 1 \in 0..Len(stream)
      /\ stream' = SubSeq(stream, 1 + 1, Len(stream)) /\ Head(stream) = stream[1]
  <2>1. stream \in Seq(Byte) /\ Len(stream) # 0
    BY Zenon, <1>1, EmptySeq DEF TypeOK
  <2>2. Len(stream) \in Nat /\ 1 + 1 = 2
    BY <2>1
  <2>3. 1 \in 1..Len(stream) /\ 1 \in 0..Len(stream)
    BY <2>1, <2>2
  <2>4. Tail(stream) = SubSeq(stream, 2, Len(stream))
    BY Zenon, <1>1, <2>1, TailIsSubSeq
  <2>5. Head(stream) = stream[1]
    BY <2>1
  <2>6. QED
    BY Zenon, <1>1, <2>2, <2>3, <2>4, <2>5
<1>3. /\ stream' \in Seq(Byte) /\ Len(stream') = Len(stream) - 1
      /\ \A i \in 1..Len(stream') :
             i + 1 \in 1..Len(stream) /\ stream'[i] = stream[i + 1]
      /\ StreamInv'
  BY Zenon, <1>1, <1>2, StreamSuffix
<1>4. WriterInv' /\ AheadInv' /\ WritePos' = WritePos
  BY Zenon, <1>1, PlaceKept
<1>5. PICK b \in Byte : b = stream[1]
  BY Zenon, <1>2, ByteType
<1>6. /\ data' \in Seq(Byte) /\ Len(data') = Len(data) + 1 /\ data'[Len(data) + 1] = b
      /\ \A i \in 1..Len(data) : data'[i] = data[i]
      /\ Len(data) \in Nat
  <2>1. data \in Seq(Byte) /\ data' = Append(data, b)
    BY Zenon, <1>1, <1>2, <1>5 DEF TypeOK
  <2>2. QED
    BY <2>1
<1>7. header.len \in Nat /\ Len(data') <= header.len
  <2>1. header.len \in Nat
    BY DEF TypeOK
  <2>2. QED
    BY <1>1, <1>6, <2>1
<1>8. TypeOK'
  BY Zenon, <1>1, <1>3, <1>6, <1>7 DEF TypeOK
<1>9. OrderInv'
  <2>1. \A i \in 1..Len(stream') : stream'[i].at = 1 =>
           /\ stream'[i].of > Len(received)
           /\ \A j \in DOMAIN later : stream'[i].of > later[j].of
           /\ Reading => stream'[i].of > header.of
    BY Zenon, <1>3 DEF OrderInv
  <2>2. LaterInOrder' /\ (Reading' <=> Reading)
    BY Zenon, <1>1 DEF OrderInv, LaterInOrder, Reading
  <2>3. QED
    BY Zenon, <1>1, <2>1, <2>2 DEF OrderInv
<1>10. ReaderInv'
  <2> SUFFICES ASSUME ~failed', ~Spoilt' PROVE ReaderInv'
    BY Zenon DEF ReaderInv
  <2>1. ~failed /\ ~Spoilt
    BY Zenon, <1>1 DEF Spoilt
  <2>2. /\ later = <<>> /\ header.of = Len(received) + 1
        /\ header.len = Size[sent[header.of]] /\ header.len <= MaximumMessageSize
        /\ \A i \in 1..Len(data) : data[i] = [of |-> header.of, at |-> HeaderSize + i]
        /\ stream[1] = ReadPos
    BY Zenon, <1>1, <2>1 DEF ReaderInv, Reading
  <2>3. b = [of |-> header.of, at |-> HeaderSize + Len(data) + 1]
    BY Zenon, <1>1, <1>5, <2>2 DEF ReadPos
  <2>4. \A i \in 1..Len(data') : data'[i] = [of |-> header.of, at |-> HeaderSize + i]
    <3> TAKE i \in 1..Len(data')
    <3>1. i \in 1..Len(data) \/ i = Len(data) + 1
      BY <1>6
    <3>2. HeaderSize + Len(data) + 1 = HeaderSize + (Len(data) + 1)
      BY <1>6, WireAssumption
    <3>3. QED
      BY Zenon, <1>6, <2>2, <2>3, <3>1, <3>2
  <2>5. b.of = header.of /\ b.at = HeaderSize + Len(data) + 1
    BY <2>3
  <2>6. /\ b.at = FrameSize(b.of) <=> ~(Len(data') < header.len)
        /\ b.at + 1 = HeaderSize + Len(data') + 1
    <3>1. FrameSize(b.of) = HeaderSize + header.len
      BY Zenon, <2>2, <2>5 DEF FrameSize
    <3>2. QED
      BY <1>6, <1>7, <2>5, <3>1, WireAssumption
  <2>7. ReadPos' = Succ(stream[1])
    BY Zenon, <1>1, <1>5, <2>2, <2>5, <2>6 DEF ReadPos, Succ
  <2>8. /\ stream' # <<>> => stream'[1] = Succ(stream[1])
        /\ end # "broken" /\ stream' = <<>> => WritePos = Succ(stream[1])
    <3>1. stream[1].of \notin torn
      BY Zenon, <1>5, <2>1, <2>2, <2>5, NextNotTorn, LenProperties DEF TypeOK
    <3>2. QED
      BY Zenon, <1>1, <1>2, <3>1, NextIsSucc
  <2>9. /\ stream' # <<>> => stream'[1] = ReadPos'
        /\ end' # "broken" /\ stream' = <<>> => WritePos' = ReadPos'
    BY Zenon, <1>1, <1>4, <2>7, <2>8
  <2>10. QED
    BY Zenon, <1>1, <2>2, <2>4, <2>9 DEF ReaderInv
<1>11. QED
  BY Zenon, <1>3, <1>4, <1>8, <1>9, <1>10

\* As long as Read has its place, it finds every body intact.
LEMMA IntactBefore ==
    ASSUME WireInv, ~failed, ~Spoilt, rpc = "body", Len(data) = header.len
    PROVE  Intact /\ header.of # 0
<1>1. /\ header.of = Len(received) + 1 /\ Len(received) \in Nat
      /\ \A i \in 1..header.len : data[i] = [of |-> header.of, at |-> HeaderSize + i]
  BY Zenon, LenProperties DEF WireInv, ReaderInv, Reading, TypeOK
<1>2. header.of # 0
  BY <1>1
<1>3. QED
  BY Zenon, <1>1, <1>2 DEF Intact, Whole

LEMMA CheckStep ==
    ASSUME WireInv, Check
    PROVE  WireInv'
<1> USE DEF WireInv
<1>1. /\ UNCHANGED <<mode, sent, onWire, total, torn, wpc, stream, end, received, later, header,
                     data>>
      /\ rpc = "body" /\ Len(data) = header.len
      /\ \/ Intact /\ rpc' = "deliver" /\ UNCHANGED failed
         \/ (header.of = 0 \/ ~Intact) /\ rpc' \in {"done", "error"} /\ failed' = TRUE
  BY Zenon DEF Check, Fails, writerVars
<1>2. WriterInv' /\ AheadInv' /\ WritePos' = WritePos
  BY Zenon, <1>1, PlaceKept
<1>3. TypeOK'
  <2>1. failed \in BOOLEAN
    BY Zenon DEF TypeOK
  <2>2. failed' = failed \/ failed' = TRUE
    BY Zenon, <1>1
  <2>3. failed' \in BOOLEAN
    BY Zenon, <2>1, <2>2
  <2>4. QED
    BY Zenon, <1>1, <2>3 DEF TypeOK
<1>4. StreamInv'
  BY Zenon, <1>1, StreamKept
<1>5. OrderInv'
  <2>0. 1..0 = {}
    OBVIOUS
  <2>1. rpc' = "deliver" => Whole /\ (header.of = 0 => header.len = 0)
    BY Zenon, <1>1, <2>0 DEF Intact, Whole
  <2>2. QED
    BY Zenon, <1>1, <2>1, OrderKept DEF Reading
<1>6. ReaderInv'
  <2> SUFFICES ASSUME ~failed', ~Spoilt' PROVE ReaderInv'
    BY Zenon DEF ReaderInv
  <2>0. ~Spoilt
    BY Zenon, <1>1 DEF Spoilt
  <2>1. ~failed /\ rpc' = "deliver"
    BY <1>1
  <2>2. ~(Len(data) < header.len)
    <3>1. Len(data) \in Nat
      BY Zenon, LenProperties DEF TypeOK
    <3>2. QED
      BY <1>1, <3>1
  <2>3. ReadPos' = ReadPos
    BY Zenon, <1>1, <2>1, <2>2 DEF ReadPos
  <2>4. QED
    BY Zenon, <1>1, <1>2, <2>0, <2>1, <2>3 DEF ReaderInv, Reading
<1>7. QED
  BY Zenon, <1>2, <1>3, <1>4, <1>5, <1>6

\* A message that is received is the next, and below the limit.
LEMMA NextReceived ==
    ASSUME WireInv, rpc = "deliver", ~failed, ~Spoilt
    PROVE  /\ header.of = Len(received) + 1 /\ header.of \in 1..Len(sent)
           /\ sent[header.of] \in Messages /\ sent[header.of] \notin Large
<1>1. /\ header.of = Len(received) + 1 /\ Len(received) \in Nat /\ header \in [of : 0..Len(sent), len : Nat]
      /\ header.len = Size[sent[header.of]] /\ header.len <= MaximumMessageSize
  BY Zenon, LenProperties DEF WireInv, ReaderInv, Reading, TypeOK
<1>2. header.of \in 1..Len(sent) /\ header.len \in Nat /\ ~(header.len > MaximumMessageSize)
  BY <1>1, WireAssumption DEF WireInv, TypeOK
<1>3. QED
  BY Zenon, <1>1, <1>2, FrameType DEF Large, WireInv

LEMMA DeliverStep ==
    ASSUME WireInv, Deliver
    PROVE  WireInv'
<1> USE DEF WireInv
<1>0. PICK e : e = [of |-> header.of, len |-> header.len, whole |-> Whole]
  BY Zenon
<1>1. /\ UNCHANGED <<mode, sent, onWire, total, torn, wpc, stream, end, header, data, failed>>
      /\ rpc = "deliver" /\ rpc' = "header"
      /\ IF failed \/ Spoilt
         THEN later' = Append(later, e) /\ received' = received
         ELSE received' = Append(received, sent[header.of]) /\ later' = later
  BY Zenon, <1>0 DEF Deliver, writerVars
<1>2. WriterInv' /\ WritePos' = WritePos
  <2>1. \A k : FrameSize(k)' = FrameSize(k)
    BY Zenon, <1>1, FrameKept
  <2>2. QED
    BY Zenon, <1>1, <2>1 DEF WriterInv, WritePos, Idle
<1>3. StreamInv'
  BY Zenon, <1>1, StreamKept
<1>4. ~Reading'
  BY Zenon, <1>1 DEF Reading
<1>5. CASE failed \/ Spoilt
  <2>1. PICK H : H = [of : 0..Len(sent), len : Nat, whole : BOOLEAN]
    BY Zenon
  <2>0. e \in H /\ e.of = header.of /\ e.len = header.len /\ e.whole
    <3>1. Whole /\ (Whole \in BOOLEAN)
      BY Zenon, <1>1 DEF OrderInv, Whole
    <3>2. header \in [of : 0..Len(sent), len : Nat]
      BY Zenon DEF TypeOK
    <3>3. e = [of |-> header.of, len |-> header.len, whole |-> TRUE]
      BY Zenon, <1>0, <3>1
    <3>4. QED
      BY <2>1, <3>2, <3>3
  <2>2. later \in Seq(H) /\ later' = Append(later, e) /\ received' = received
    BY Zenon, <1>1, <1>5, <2>1 DEF TypeOK
  <2>3. /\ later' \in Seq(H) /\ Len(later) \in Nat /\ Len(later') = Len(later) + 1
        /\ later'[Len(later) + 1] = e
        /\ \A i \in 1..Len(later) : later'[i] = later[i]
    BY <2>0, <2>2
  <2>4. DOMAIN later = 1..Len(later) /\ DOMAIN later' = 1..Len(later')
    BY Zenon, <2>2, <2>3, LenProperties
  <2>5. TypeOK'
    BY Zenon, <1>1, <2>1, <2>2, <2>3 DEF TypeOK
  <2>6. /\ Len(received) <= Len(sent) /\ LaterInOrder
        /\ \A i \in 1..Len(stream) : stream[i].at = 1 =>
               /\ stream[i].of > Len(received) /\ stream[i].of > header.of
               /\ \A j \in 1..Len(later) : stream[i].of > later[j].of
        /\ header.of # 0 => /\ header.of > Len(received)
                            /\ \A j \in 1..Len(later) : header.of > later[j].of
        /\ header.of = 0 => header.len = 0
    BY Zenon, <1>1, <2>4 DEF OrderInv, Reading
  <2>7. \A j \in 1..Len(later') : j \in 1..Len(later) \/ j = Len(later) + 1
    BY <2>3
  <2>8. \A i \in 1..Len(stream) : stream[i].at = 1 =>
           \A j \in 1..Len(later') : stream[i].of > later'[j].of
    BY Zenon, <2>0, <2>3, <2>6, <2>7
  <2>9. LaterInOrder'
    <3> SUFFICES ASSUME NEW j \in 1..Len(later')
                 PROVE  /\ later'[j].whole
                        /\ IF later'[j].of = 0
                           THEN later'[j].len = 0
                           ELSE /\ later'[j].of > Len(received)
                                /\ \A i \in 1..(j - 1) : later'[i].of < later'[j].of
      BY Zenon, <2>2, <2>4 DEF LaterInOrder
    <3>1. CASE j \in 1..Len(later)
      <4>1. \A i \in 1..(j - 1) : i \in 1..Len(later)
        BY <2>3, <3>1
      <4>2. QED
        BY Zenon, <2>3, <2>4, <2>6, <3>1, <4>1 DEF LaterInOrder
    <3>2. CASE j = Len(later) + 1
      <4>1. j - 1 = Len(later)
        BY <2>3, <3>2
      <4>2. \A h \in H : h.of \in Nat
        BY <2>1
      <4>3. header.of \in Nat /\ \A i \in 1..Len(later) : later[i].of \in Nat
        BY Zenon, <2>0, <2>2, <4>2, ElementOfSeq
      <4>4. header.of # 0 => \A i \in 1..Len(later) : later[i].of < header.of
        BY <2>6, <4>3
      <4>5. QED
        BY Zenon, <2>0, <2>3, <2>6, <3>2, <4>1, <4>4
    <3>3. QED
      BY Zenon, <2>7, <3>1, <3>2
  <2>10. OrderInv'
    BY Zenon, <1>1, <1>4, <2>2, <2>4, <2>6, <2>8, <2>9 DEF OrderInv
  <2>11. failed' \/ Spoilt'
    BY Zenon, <1>1, <1>5, <2>2 DEF Spoilt
  <2>12. AheadInv'
    BY Zenon, <1>1, <2>2, PlaceKept
  <2>13. QED
    BY Zenon, <1>2, <1>3, <2>5, <2>10, <2>11, <2>12 DEF ReaderInv
<1>6. CASE ~failed /\ ~Spoilt
  <2>1. /\ header.of = Len(received) + 1 /\ header.of \in 1..Len(sent)
        /\ sent[header.of] \in Messages
    BY Zenon, <1>1, <1>6, NextReceived
  <2>2. received \in Seq(Messages) /\ received' = Append(received, sent[header.of])
        /\ later' = later
    BY Zenon, <1>1, <1>6 DEF TypeOK
  <2>3. received' \in Seq(Messages) /\ Len(received') = Len(received) + 1
    BY <2>1, <2>2
  <2>4. later = <<>> /\ (stream # <<>> => stream[1] = ReadPos)
        /\ (end # "broken" /\ stream = <<>> => WritePos = ReadPos)
    BY Zenon, <1>6 DEF ReaderInv
  <2>5. TypeOK'
    BY Zenon, <1>1, <2>2, <2>3 DEF TypeOK
  <2>6. Len(received') <= Len(sent')
    BY <1>1, <2>1, <2>3
  <2>7. DOMAIN later' = {}
    BY <2>2, <2>4
  <2>8. \A i \in 1..Len(stream') : stream'[i].at = 1 => stream'[i].of > Len(received')
    BY Zenon, <1>1, <2>1, <2>3 DEF OrderInv, Reading
  <2>9. LaterInOrder'
    BY Zenon, <2>7 DEF LaterInOrder
  <2>10. OrderInv'
    BY Zenon, <1>1, <1>4, <2>6, <2>7, <2>8, <2>9 DEF OrderInv
  <2>11. ReadPos' = ReadPos
    BY Zenon, <1>1, <2>3 DEF ReadPos
  <2>12. ReaderInv'
    BY Zenon, <1>1, <1>2, <1>4, <2>2, <2>4, <2>11 DEF ReaderInv
  <2>13. AheadInv'
    <3> SUFFICES ASSUME end = "open", ~Idle, ~(Len(received') < Len(sent)) PROVE FALSE
      BY Zenon, <1>1 DEF AheadInv, Idle, FrameSize
    <3>1. Len(received) \in Nat /\ Len(sent) \in Nat
      BY Zenon, LenProperties DEF TypeOK
    <3>2. Len(sent) = Len(received) + 1
      BY <2>1, <2>3, <3>1
    <3>3. ReadPos = [of |-> (Len(received) + 1) + 1, at |-> 1]
      BY Zenon, <1>1 DEF ReadPos
    <3>4. CASE stream = <<>>
      <4>1. WritePos = ReadPos
        BY Zenon, <2>4, <3>4
      <4>2. WritePos.of = Len(sent)
        BY DEF WritePos
      <4>3. QED
        BY <3>1, <3>2, <3>3, <4>1, <4>2
    <3>5. CASE stream # <<>>
      <4>1. Len(stream) \in Nat /\ Len(stream) # 0
        BY Zenon, <3>5, EmptySeq, LenProperties DEF TypeOK
      <4>2. 1 \in 1..Len(stream)
        BY <4>1
      <4>3. stream[1].of \in 1..Len(sent) /\ stream[1] = ReadPos
        BY Zenon, <2>4, <3>5, <4>2, ByteType
      <4>4. QED
        BY <3>1, <3>2, <3>3, <4>3
    <3>6. QED
      BY Zenon, <3>4, <3>5
  <2>14. QED
    BY Zenon, <1>2, <1>3, <2>5, <2>10, <2>12, <2>13
<1>7. QED
  BY Zenon, <1>5, <1>6
-----------------------------------------------------------------------------
(* The invariant *)

LEMMA InitWireInv ==
    Init => WireInv
<1> SUFFICES ASSUME Init PROVE WireInv
  OBVIOUS
<1>1. /\ mode \in {"conn", "channelize"} /\ sent = <<>> /\ onWire = 0 /\ total = 0
      /\ torn = {} /\ wpc = "write"
      /\ stream = <<>> /\ end = "open" /\ rpc = "header"
      /\ header = [of |-> 0, len |-> 0] /\ data = <<>> /\ received = <<>>
      /\ failed = FALSE /\ later = <<>>
  BY Zenon DEF Init
<1>2. TypeOK
  <2>1. <<>> \in Seq(Messages) /\ <<>> \in Seq(Byte)
    BY Zenon, EmptySeq
  <2>2. <<>> \in Seq([of : 0..Len(sent), len : Nat, whole : BOOLEAN])
    BY Zenon, EmptySeq
  <2>3. Len(sent) = 0 /\ Len(data) <= 0 /\ 0 \in 0..0 /\ 0 \in Nat
    BY <1>1
  <2>4. header \in [of : 0..Len(sent), len : Nat] /\ header.len = 0
    BY <1>1, <2>3
  <2>5. failed \in BOOLEAN
    BY Zenon, <1>1
  <2>6. QED
    BY Zenon, <1>1, <2>1, <2>2, <2>3, <2>4, <2>5 DEF TypeOK
<1>3. Len(received) = 0 /\ Len(sent) = 0 /\ 1..Len(stream) = {} /\ 1..(Len(stream) - 1) = {}
      /\ DOMAIN later = {} /\ Len(received) <= Len(sent) /\ ~failed
  BY <1>1
<1>4. WriterInv /\ AheadInv /\ StreamInv
  BY Zenon, <1>1, <1>3 DEF WriterInv, AheadInv, Idle, StreamInv
<1>5. OrderInv
  BY Zenon, <1>1, <1>3 DEF OrderInv, LaterInOrder, Reading
<1>6. WritePos = ReadPos
  BY Zenon, <1>1, <1>3 DEF WritePos, ReadPos, Idle
<1>7. ReaderInv
  BY Zenon, <1>1, <1>6 DEF ReaderInv, Reading
<1>8. QED
  BY Zenon, <1>2, <1>4, <1>5, <1>7 DEF WireInv

LEMMA StutterWire ==
    ASSUME WireInv, UNCHANGED vars
    PROVE  WireInv'
<1>1. UNCHANGED <<mode, sent, onWire, total, torn, wpc, stream, end, rpc, header, data, received,
                  failed, later>>
  BY Zenon DEF vars, writerVars, readerVars
<1>2. WriterInv' /\ AheadInv' /\ WritePos' = WritePos
  BY Zenon, <1>1, PlaceKept DEF WireInv
<1>3. TypeOK' /\ ReadPos' = ReadPos
  BY Zenon, <1>1 DEF WireInv, TypeOK, ReadPos
<1>4. StreamInv'
  BY Zenon, <1>1, StreamKept DEF WireInv
<1>5. OrderInv'
  BY Zenon, <1>1 DEF WireInv, OrderInv, LaterInOrder, Reading, Whole
<1>6. ReaderInv'
  BY Zenon, <1>1, <1>2, <1>3 DEF WireInv, ReaderInv, Reading, Spoilt
<1>7. QED
  BY Zenon, <1>2, <1>3, <1>4, <1>5, <1>6 DEF WireInv

LEMMA WireStep ==
    WireInv /\ [Next]_vars => WireInv'
<1> SUFFICES ASSUME WireInv, [Next]_vars PROVE WireInv'
  OBVIOUS
<1>1. CASE \E m \in Messages : Write(m)
  BY Zenon, <1>1, WriteStep
<1>2. CASE Transmit
  BY Zenon, <1>2, TransmitStep
<1>0. CASE ShortWrite
  BY Zenon, <1>0, ShortWriteStep
<1>3. CASE WriteFails \/ Close \/ Break
  BY Zenon, <1>3, EndStep
<1>4. CASE ReadHeader
  BY Zenon, <1>4, ReadHeaderStep
<1>5. CASE ReadBody
  BY Zenon, <1>5, ReadBodyStep
<1>6. CASE ReadFails \/ TakeError
  BY Zenon, <1>6, ErrorStep
<1>7. CASE Check
  BY Zenon, <1>7, CheckStep
<1>8. CASE Deliver
  BY Zenon, <1>8, DeliverStep
<1>9. CASE UNCHANGED vars
  BY Zenon, <1>9, StutterWire
<1>10. QED
  BY Zenon, <1>0, <1>1, <1>2, <1>3, <1>4, <1>5, <1>6, <1>7, <1>8, <1>9 DEF Next, Reader

\* The bytes and the reader's place stay as WireInv says.
THEOREM WireInvariant == Spec => []WireInv
<1>1. QED
  BY InitWireInv, WireStep, PTL DEF Spec

\* The variables of Write, Read and Channelize keep their types; a header names a
\* message that was sent, and the body read is never longer than its header says.
THEOREM WireTypeCorrect == Spec => []TypeOK
<1>1. WireInv => TypeOK
  BY Zenon DEF WireInv
<1>2. QED
  BY <1>1, WireInvariant, PTL

\* What is delivered after the first error of Read, or from a message written
\* short on, is whole, in order, without repetition and after all that was received
\* before, or empty: however often Read takes a header from the middle of a message.
THEOREM DeliveredInOrder == Spec => []LaterInOrder
<1>1. WireInv => LaterInOrder
  BY Zenon DEF WireInv, OrderInv
<1>2. QED
  BY <1>1, WireInvariant, PTL
-----------------------------------------------------------------------------
(* The framing is a channel of messages *)

Queue == SubSeq(sent, Len(received) + 1, Len(sent))

\* The messages from number r + 1 on, as a queue.
LEMMA QueueOf ==
    ASSUME NEW S, NEW s \in Seq(S), NEW r \in 0..Len(s)
    PROVE  /\ SubSeq(s, r + 1, Len(s)) \in Seq(S)
           /\ Len(SubSeq(s, r + 1, Len(s))) = Len(s) - r
           /\ \A i \in 1..(Len(s) - r) : SubSeq(s, r + 1, Len(s))[i] = s[i + r]
<1>1. Len(s) \in Nat
  OBVIOUS
<1>2. r + 1 \in 1..(Len(s) + 1) /\ Len(s) \in r..Len(s) /\ (Len(s) - (r + 1)) + 1 = Len(s) - r
  BY <1>1
<1>3. QED
  BY <1>1

\* A message sent is at the end of the queue.
LEMMA QueueSend ==
    ASSUME NEW S, NEW s \in Seq(S), NEW r \in 0..Len(s), NEW m \in S
    PROVE  SubSeq(Append(s, m), r + 1, Len(s) + 1) = Append(SubSeq(s, r + 1, Len(s)), m)
<1>0. Len(s) \in Nat /\ r \in Nat
  OBVIOUS
<1>1. PICK t : t = Append(s, m)
  BY Zenon
<1>2. t \in Seq(S) /\ Len(t) = Len(s) + 1 /\ t[Len(s) + 1] = m
      /\ \A i \in 1..Len(s) : t[i] = s[i]
  BY <1>1
<1>3. r \in 0..Len(t)
  BY <1>0, <1>2
<1>4. PICK q : q = SubSeq(s, r + 1, Len(s))
  BY Zenon
<1>5. q \in Seq(S) /\ Len(q) = Len(s) - r /\ \A i \in 1..(Len(s) - r) : q[i] = s[i + r]
  BY Zenon, <1>4, QueueOf
<1>6. PICK u : u = SubSeq(t, r + 1, Len(t))
  BY Zenon
<1>7. u \in Seq(S) /\ Len(u) = Len(t) - r /\ \A i \in 1..(Len(t) - r) : u[i] = t[i + r]
  BY Zenon, <1>2, <1>3, <1>6, QueueOf
<1>8. PICK v : v = Append(q, m)
  BY Zenon
<1>9. v \in Seq(S) /\ Len(v) = Len(q) + 1 /\ v[Len(q) + 1] = m
      /\ \A i \in 1..Len(q) : v[i] = q[i]
  BY <1>5, <1>8
<1>10. Len(u) = Len(v)
  BY <1>0, <1>2, <1>5, <1>7, <1>9
<1>11. ASSUME NEW i \in 1..Len(u) PROVE u[i] = v[i]
  <2>1. i \in 1..(Len(t) - r)
    BY Zenon, <1>7
  <2>2. \/ i \in 1..Len(q) /\ i \in 1..(Len(s) - r) /\ i + r \in 1..Len(s)
        \/ i = Len(q) + 1 /\ i + r = Len(s) + 1
    BY <1>0, <1>2, <1>5, <2>1
  <2>3. QED
    BY Zenon, <1>2, <1>5, <1>7, <1>9, <2>1, <2>2
<1>12. u = v
  BY Zenon, <1>7, <1>9, <1>10, <1>11, SeqEqual
<1>13. QED
  BY Zenon, <1>1, <1>2, <1>4, <1>6, <1>8, <1>12

\* The message received is the first of the queue.
LEMMA QueueReceive ==
    ASSUME NEW S, NEW s \in Seq(S), NEW r \in Nat, r + 1 \in 1..Len(s)
    PROVE  /\ SubSeq(s, r + 1, Len(s)) # <<>>
           /\ Head(SubSeq(s, r + 1, Len(s))) = s[r + 1]
           /\ Tail(SubSeq(s, r + 1, Len(s))) = SubSeq(s, (r + 1) + 1, Len(s))
<1>1. Len(s) \in Nat /\ r \in 0..Len(s) /\ Len(s) - r # 0
  OBVIOUS
<1>2. Len(SubSeq(s, r + 1, Len(s))) # 0
  BY Zenon, <1>1, QueueOf
<1>3. SubSeq(s, r + 1, Len(s)) # <<>>
  BY Zenon, <1>2, EmptySeq
<1>4. Len(s) \in (r + 1)..Len(s)
  BY <1>1
<1>5. /\ Head(SubSeq(s, r + 1, Len(s))) = s[r + 1]
      /\ Tail(SubSeq(s, r + 1, Len(s))) = SubSeq(s, (r + 1) + 1, Len(s))
  BY Zenon, <1>4, HeadTailOfSubSeq
<1>6. QED
  BY Zenon, <1>3, <1>5

\* A stream that has ended without loss ends in the frame of the next message:
\* at most that one was sent and is not received.
LEMMA LastMessage ==
    ASSUME WireInv, ~failed, ~Spoilt, end = "closed", StreamEnds
    PROVE  Len(sent) <= Len(received) + 1
<1> USE DEF WireInv
<1> DEFINE r == Len(received)
           k == r + 1
<1>0. Len(sent) \in Nat /\ r \in Nat
  BY Zenon, LenProperties DEF TypeOK
<1>1. PICK a : a = (IF rpc = "header" THEN 1 ELSE HeaderSize + Len(data) + 1)
  BY Zenon
<1>2. ReadPos = [of |-> k, at |-> a]
  BY Zenon, <1>1 DEF ReadPos, StreamEnds, BodyIncomplete
<1>3. /\ stream # <<>> => stream[1] = ReadPos
      /\ stream = <<>> => WritePos = ReadPos
      /\ stream # <<>> => Follows(stream[Len(stream)], WritePos)
      /\ k \notin torn
  BY Zenon, <1>0, NextNotTorn DEF ReaderInv, StreamInv
<1>4. /\ Idle => WritePos.of = Len(sent) + 1 /\ WritePos.at = 1
      /\ ~Idle => WritePos.of = Len(sent) /\ WritePos.at = onWire + 1
  BY DEF WritePos
<1>5. ~Idle => onWire \in Nat /\ onWire + 1 # 1
  <2> SUFFICES ASSUME ~Idle PROVE onWire \in Nat /\ onWire + 1 # 1
    OBVIOUS
  <2>1. onWire \in 1..FrameSize(Len(sent)) /\ onWire \in Nat
    BY Zenon DEF Idle, WriterInv, TypeOK
  <2>2. QED
    BY <2>1
<1>6. CASE stream = <<>>
  <2>1. WritePos.of = k
    BY <1>2, <1>3, <1>6
  <2>2. QED
    BY <1>0, <1>4, <2>1
<1>7. CASE stream # <<>>
  <2>0. PICK l \in Nat : l = Len(stream) /\ l # 0
    BY Zenon, <1>7, EmptySeq, LenProperties DEF TypeOK
  <2>1. 1 \in 1..l /\ l \in 1..l /\ (l <= 1 => l = 1)
    BY <2>0
  <2>2. stream[1].of = k /\ stream[1].at = a
    BY <1>2, <1>3, <1>7
  <2>3. PICK b : b = stream[l]
    BY Zenon
  <2>4. b.of = k /\ b.at \in 1..FrameSize(b.of)
    <3>1. b.at \in 1..FrameSize(b.of)
      BY Zenon, <2>0, <2>1, <2>3, ByteType
    <3>2. CASE l = 1
      BY Zenon, <2>2, <2>3, <3>1, <3>2
    <3>3. CASE l # 1
      <4>1. rpc = "header" /\ l < HeaderSize
        BY Zenon, <2>0, <2>1, <3>3 DEF StreamEnds
      <4>2. k \in 1..Len(sent)
        BY Zenon, <2>0, <2>1, <2>2, ByteType
      <4>3. FrameSize(k) \in Nat /\ FrameSize(k) >= HeaderSize
        BY Zenon, <4>2, FrameType
      <4>4. 1 < l /\ ~(1 + (l - 1) > FrameSize(k))
        BY <2>0, <3>3, <4>1, <4>3, WireAssumption
      <4>5. InOrder(1, l)
        BY Zenon, <2>0, <2>1, <4>4 DEF StreamInv
      <4>6. QED
        BY Zenon, <1>1, <1>3, <2>2, <2>3, <3>1, <4>1, <4>4, <4>5 DEF InOrder
    <3>4. QED
      BY Zenon, <3>2, <3>3
  <2>5. WritePos = Succ(b)
    BY Zenon, <1>3, <1>7, <2>0, <2>3, <2>4 DEF Follows
  <2>6. /\ b.at = FrameSize(b.of) => WritePos.of = k + 1 /\ WritePos.at = 1
        /\ b.at # FrameSize(b.of) => WritePos.of = k
    BY <2>4, <2>5 DEF Succ
  <2>7. CASE Idle
    <3>1. WritePos.of <= k + 1
      BY <1>0, <2>6
    <3>2. QED
      BY <1>0, <1>4, <2>7, <3>1
  <2>8. CASE ~Idle
    <3>1. WritePos.of = k
      BY Zenon, <1>4, <1>5, <2>6, <2>8
    <3>2. QED
      BY <1>0, <1>4, <2>8, <3>1
  <2>9. QED
    BY Zenon, <2>7, <2>8
<1>8. QED
  BY Zenon, <1>6, <1>7

LEMMA InitIsChannel ==
    Init => C!Init
<1> SUFFICES ASSUME Init PROVE C!Init
  OBVIOUS
<1>1. sent = <<>> /\ received = <<>> /\ end = "open" /\ torn = {} /\ failed = FALSE
  BY Zenon DEF Init
<1>2. <<>> \in Seq(Messages) /\ 0 \in 0..Len(<<>>) /\ Len(<<>>) = 0 /\ Len(<<>>) - 0 = 0
  OBVIOUS
<1>3. PICK q : q = SubSeq(<<>>, 0 + 1, Len(<<>>))
  BY Zenon
<1>4. q \in Seq(Messages) /\ Len(q) = 0
  BY Zenon, <1>2, <1>3, QueueOf
<1>5. q = <<>>
  BY Zenon, <1>4, EmptySeq
<1>6. QED
  BY Zenon, <1>1, <1>2, <1>3, <1>5 DEF C!Init

LEMMA WriteIsSend ==
    ASSUME WireInv, NEW m \in Messages, Write(m)
    PROVE  C!Send(m)
<1>1. /\ end = "open" /\ sent' = Append(sent, m) /\ UNCHANGED <<received, end, torn, failed>>
      /\ sent \in Seq(Messages) /\ received \in Seq(Messages) /\ Len(received) <= Len(sent)
  BY Zenon DEF Write, readerVars, WireInv, TypeOK, OrderInv
<1>2. Len(received) \in 0..Len(sent) /\ Len(sent') = Len(sent) + 1
  BY <1>1
<1>3. Queue' = Append(Queue, m)
  BY Zenon, <1>1, <1>2, QueueSend DEF Queue
<1>4. QED
  BY Zenon, <1>1, <1>3 DEF C!Send, Queue

LEMMA ShortWriteIsTear ==
    ASSUME WireInv, ShortWrite
    PROVE  C!Tear
<1>1. /\ end = "open" /\ ~Idle /\ torn' = torn \cup {Len(sent)}
      /\ UNCHANGED <<sent, received, end, failed>>
      /\ sent \in Seq(Messages) /\ received \in Seq(Messages)
  BY Zenon DEF ShortWrite, readerVars, WireInv, TypeOK
<1>2. Len(received) \in Nat /\ Len(sent) \in Nat /\ Len(received) < Len(sent)
  BY Zenon, <1>1, LenProperties DEF WireInv, AheadInv
<1>3. Len(received) \in 0..Len(sent)
  BY <1>2
<1>4. Len(Queue) = Len(sent) - Len(received)
  BY Zenon, <1>1, <1>3, QueueOf DEF Queue
<1>5. Len(received) + Len(Queue) = Len(sent) /\ Len(Queue) # 0
  BY <1>2, <1>4
<1>6. Queue # <<>> /\ Queue' = Queue
  BY Zenon, <1>1, <1>5, EmptySeq DEF Queue
<1>7. QED
  BY Zenon, <1>1, <1>5, <1>6 DEF C!Tear, Queue

LEMMA DeliverIsReceive ==
    ASSUME WireInv, Deliver, ~failed, ~Spoilt
    PROVE  C!Receive
<1>1. /\ rpc = "deliver" /\ received' = Append(received, sent[header.of])
      /\ UNCHANGED <<sent, end, torn, failed>>
      /\ sent \in Seq(Messages) /\ received \in Seq(Messages)
  BY Zenon DEF Deliver, writerVars, WireInv, TypeOK
<1>2. /\ header.of = Len(received) + 1 /\ header.of \in 1..Len(sent)
      /\ sent[header.of] \in Messages /\ sent[header.of] \notin Large
  BY Zenon, <1>1, NextReceived
<1>3. Len(received) \in Nat /\ Len(received') = Len(received) + 1
  BY <1>1, <1>2
<1>4. Queue # <<>> /\ Head(Queue) = sent[header.of] /\ Tail(Queue) = Queue'
  BY Zenon, <1>1, <1>2, <1>3, QueueReceive DEF Queue
<1>5. QED
  BY Zenon, <1>1, <1>2, <1>4 DEF C!Receive, C!Spoilt, Spoilt, Queue

\* Steps that the channel does not see: those that change none of its variables,
\* and errors after the first.
LEMMA Unseen ==
    ASSUME WireInv, UNCHANGED <<sent, received, end, torn>>,
           failed' = failed \/ (failed = TRUE /\ failed' = TRUE)
    PROVE  UNCHANGED C!vars
<1>1. failed' = failed
  BY Zenon
<1>2. QED
  BY Zenon, <1>1 DEF C!vars

\* The first error of Read has one of the channel's causes.
LEMMA FirstErrorIsGiveUp ==
    ASSUME WireInv, failed # TRUE, UNCHANGED <<sent, received, end, torn>>, failed' = TRUE,
           \/ end = "broken"
           \/ end = "closed" /\ Len(sent) <= Len(received) + 1
           \/ Len(received) + 1 \in 1..Len(sent) /\ sent[Len(received) + 1] \in Large
           \/ Spoilt
    PROVE  C!GiveUp
<1>1. /\ sent \in Seq(Messages) /\ received \in Seq(Messages)
      /\ Len(received) <= Len(sent) /\ Queue' = Queue
  BY Zenon DEF WireInv, TypeOK, OrderInv, Queue
<1>2. Len(received) \in Nat /\ Len(sent) \in Nat
  BY Zenon, <1>1, LenProperties
<1>3. Len(received) \in 0..Len(sent)
  BY <1>1, <1>2
<1>4. Len(Queue) = Len(sent) - Len(received)
  BY Zenon, <1>1, <1>3, QueueOf DEF Queue
<1>5. Len(sent) <= Len(received) + 1 => Len(Queue) <= 1
  BY <1>2, <1>4
<1>6. Len(received) + 1 \in 1..Len(sent) => Queue # <<>> /\ Head(Queue) = sent[Len(received) + 1]
  BY Zenon, <1>1, <1>2, QueueReceive DEF Queue
<1>7. QED
  BY Zenon, <1>1, <1>5, <1>6 DEF C!GiveUp, C!Spoilt, Spoilt, Queue

LEMMA ReadIsChannel ==
    ASSUME WireInv, ReadHeader \/ ReadFails \/ Check
    PROVE  C!GiveUp \/ UNCHANGED C!vars
<1>0. failed # TRUE => ~failed
  <2>1. failed = TRUE \/ failed = FALSE
    BY Zenon DEF WireInv, TypeOK
  <2>2. QED
    BY Zenon, <2>1
<1>1. UNCHANGED <<sent, received, end, torn>> /\ (failed' = failed \/ failed' = TRUE)
  BY Zenon DEF ReadHeader, ReadFails, Check, Fails, writerVars
<1>2. CASE failed' = failed \/ failed = TRUE
  BY Zenon, <1>1, <1>2, Unseen
<1>5. CASE failed' # failed /\ failed # TRUE /\ Spoilt
  BY Zenon, <1>1, <1>5, FirstErrorIsGiveUp
<1>3. CASE failed' # failed /\ failed # TRUE /\ ~Spoilt
  <2>1. CASE ReadHeader
    <3>1. /\ rpc = "header" /\ Len(stream) >= HeaderSize /\ header' \in Headers
          /\ header'.len > MaximumMessageSize
      <4>1. /\ rpc = "header" /\ Len(stream) >= HeaderSize /\ header' \in Headers
            /\ ~(header'.len <= MaximumMessageSize)
        BY Zenon, <1>3, <2>1 DEF ReadHeader, Accepts
      <4>2. header' \in [of : 0..Len(sent), len : Nat]
        BY Zenon, <4>1, HeaderCases
      <4>3. header'.len > MaximumMessageSize
        BY <4>1, <4>2, WireAssumption
      <4>4. QED
        BY Zenon, <4>1, <4>3
    <3>2. /\ stream[1].of = Len(received) + 1
          /\ \A i \in 1..HeaderSize : stream[i] = [of |-> stream[1].of, at |-> i]
      BY Zenon, <1>0, <1>3, <3>1, HeaderInPlace
    <3>3. header' = [of |-> stream[1].of, len |-> Size[sent[stream[1].of]]]
      BY Zenon, <3>1, <3>2 DEF Headers
    <3>4. Size[sent[stream[1].of]] > MaximumMessageSize
      BY <3>1, <3>3
    <3>5. 1 \in 1..Len(stream)
      <4>1. Len(stream) \in Nat
        BY Zenon, LenProperties DEF WireInv, TypeOK
      <4>2. QED
        BY <3>1, <4>1, WireAssumption
    <3>6. stream[1].of \in 1..Len(sent)
      BY Zenon, <3>5, ByteType DEF WireInv
    <3>7. sent[stream[1].of] \in Large
      BY Zenon, <3>4, <3>6, FrameType DEF Large, WireInv
    <3>8. QED
      BY Zenon, <1>1, <1>3, <3>2, <3>6, <3>7, FirstErrorIsGiveUp
  <2>2. CASE ReadFails
    <3>1. StreamEnds /\ end \in {"closed", "broken"}
      BY Zenon, <2>2 DEF ReadFails, WireInv, TypeOK
    <3>2. end = "closed" => Len(sent) <= Len(received) + 1
      BY Zenon, <1>0, <1>3, <3>1, LastMessage
    <3>3. QED
      BY Zenon, <1>1, <1>3, <3>1, <3>2, FirstErrorIsGiveUp
  <2>3. CASE Check
    <3>1. rpc = "body" /\ Len(data) = header.len /\ (header.of = 0 \/ ~Intact)
      BY Zenon, <1>3, <2>3 DEF Check
    <3>2. QED
      BY Zenon, <1>0, <1>3, <3>1, IntactBefore
  <2>4. QED
    BY Zenon, <2>1, <2>2, <2>3
<1>4. QED
  BY Zenon, <1>2, <1>3, <1>5

LEMMA StepIsChannel ==
    WireInv /\ [Next]_vars => [C!Next]_(C!vars)
<1> SUFFICES ASSUME WireInv, [Next]_vars PROVE C!Next \/ UNCHANGED C!vars
  OBVIOUS
<1>1. CASE \E m \in Messages : Write(m)
  BY Zenon, <1>1, WriteIsSend DEF C!Next
<1>0. CASE ShortWrite
  BY Zenon, <1>0, ShortWriteIsTear DEF C!Next
<1>2. CASE Transmit \/ WriteFails \/ ReadBody \/ TakeError \/ UNCHANGED vars
  <2>1. UNCHANGED <<sent, received, end, torn, failed>>
    BY Zenon, <1>2 DEF Transmit, WriteFails, ReadBody, TakeError, vars, writerVars, readerVars
  <2>2. QED
    BY Zenon, <2>1, Unseen
<1>3. CASE Close \/ Break
  <2>1. end = "open" /\ end' \in {"closed", "broken"} /\ UNCHANGED <<sent, received, torn, failed>>
    BY Zenon, <1>3 DEF Close, Break, writerVars, readerVars
  <2>2. C!End
    BY Zenon, <2>1 DEF C!End
  <2>3. QED
    BY Zenon, <2>2 DEF C!Next
<1>4. CASE ReadHeader \/ ReadFails \/ Check
  BY Zenon, <1>4, ReadIsChannel DEF C!Next
<1>5. CASE Deliver
  <2>1. CASE failed \/ Spoilt
    <3>1. UNCHANGED <<sent, received, end, torn, failed>>
      BY Zenon, <1>5, <2>1 DEF Deliver, writerVars
    <3>2. QED
      BY Zenon, <3>1, Unseen
  <2>2. CASE ~failed /\ ~Spoilt
    BY Zenon, <1>5, <2>2, DeliverIsReceive DEF C!Next
  <2>3. QED
    BY Zenon, <2>1, <2>2
<1>6. QED
  BY Zenon, <1>0, <1>1, <1>2, <1>3, <1>4, <1>5 DEF Next, Reader

\* Until its first error, or a message of which the writer below wrote less than it
\* was given, Read, over a stream cut into any pieces, is a channel that gives each
\* message whole, once and in order; and its first error is one of the causes that
\* Channel names.
THEOREM FramingIsChannel == Spec => IsChannel
<1>1. QED
  BY InitIsChannel, StepIsChannel, WireInvariant, PTL DEF Spec, IsChannel, C!Spec
=============================================================================
