--------------------------------- MODULE Wire ---------------------------------
(***************************************************************************)
(* The framing of protocol/wire.go over one direction of a byte stream.    *)
(* Write sends a header and a body; Read takes them from a stream that     *)
(* gives the bytes in pieces and may end anywhere.  A byte is a cell that  *)
(* says which byte of which message it is, so that a reader that has lost  *)
(* its place is visible; cells of different places are taken to differ.    *)
(* The writer below, w, may write less than it is given and report no      *)
(* error: a connection does not, the writer of a test of Write does.  The  *)
(* users are a message connection, which stops at the first error, or the  *)
(* goroutines of Channelize, which go on.                                  *)
(***************************************************************************)
EXTENDS Naturals, Sequences

CONSTANTS
    Messages,            \* what can be sent
    Size,                \* the length of a message once marshalled
    HeaderSize,          \* the length of a header
    MaximumMessageSize,  \* what Read accepts
    MaxMessages,         \* bound on the messages sent
    Tearable             \* bound: the numbers of those that w may write short

ASSUME WireAssumption ==
    /\ Size \in [Messages -> Nat]
    /\ HeaderSize \in Nat \ {0}
    /\ MaximumMessageSize \in Nat
    /\ MaxMessages \in Nat
    /\ Tearable \subseteq Nat

VARIABLES
    mode,      \* who uses the connection: "conn" or "channelize"
    sent,      \* the messages whose transmission has begun
    onWire,    \* how far into the last of them w has come
    total,     \* totalWritten: what the calls of w that wrote its body returned
    torn,      \* history: the numbers of the messages of which w wrote less
    wpc,       \* the writer: "write", or "error" until the error is taken
    stream,    \* the bytes that the reader has not read
    end,       \* the writer's end: "open", "closed", or "broken" by the network
    rpc,       \* where Read is
    header,    \* the header read: [of, len]; of = 0 if it is none that was sent
    data,      \* the bytes of the body read so far
    received,  \* history: the messages delivered before an error or a torn message
    failed,    \* has Read given an error?
    later      \* history: what is delivered after that: [of, len, whole]

writerVars == <<sent, onWire, total, torn, wpc>>
readerVars == <<rpc, header, data, received, failed, later>>
vars == <<mode, writerVars, stream, end, readerVars>>

Large == {m \in Messages : Size[m] > MaximumMessageSize}

Byte == [of : Nat, at : Nat]

FrameSize(k) == HeaderSize + Size[sent[k]]

TypeOK ==
    /\ mode \in {"conn", "channelize"}
    /\ sent \in Seq(Messages)
    /\ onWire \in Nat
    /\ total \in Nat
    /\ torn \subseteq 1..Len(sent)
    /\ wpc \in {"write", "error"}
    /\ stream \in Seq(Byte)
    /\ end \in {"open", "closed", "broken"}
    /\ rpc \in {"header", "body", "deliver", "error", "done"}
    /\ header \in [of : 0..Len(sent), len : Nat]
    /\ data \in Seq(Byte)
    /\ Len(data) <= header.len
    /\ received \in Seq(Messages)
    /\ failed \in BOOLEAN
    /\ later \in Seq([of : 0..Len(sent), len : Nat, whole : BOOLEAN])

Init ==
    /\ mode \in {"conn", "channelize"}
    /\ sent = <<>>
    /\ onWire = 0
    /\ total = 0
    /\ torn = {}
    /\ wpc = "write"
    /\ stream = <<>>
    /\ end = "open"
    /\ rpc = "header"
    /\ header = [of |-> 0, len |-> 0]
    /\ data = <<>>
    /\ received = <<>>
    /\ failed = FALSE
    /\ later = <<>>
-----------------------------------------------------------------------------
(* The writer, and the stream *)

Idle == sent # <<>> => onWire = FrameSize(Len(sent))

\* Write is called; the first byte of the header goes out.
Write(m) ==
    /\ end = "open"
    /\ wpc = "write"
    /\ Idle
    /\ Len(sent) < MaxMessages
    /\ sent' = Append(sent, m)
    /\ onWire' = 1
    /\ total' = 0
    /\ stream' = Append(stream, [of |-> Len(sent) + 1, at |-> 1])
    /\ UNCHANGED <<mode, torn, wpc, end, readerVars>>

\* The rest of the header and the body follow.
Transmit ==
    /\ end = "open"
    /\ ~Idle
    /\ onWire' = onWire + 1
    /\ stream' = Append(stream, [of |-> Len(sent), at |-> onWire + 1])
    /\ UNCHANGED <<mode, sent, total, torn, wpc, end, readerVars>>

\* Where Write goes on once a call of w has returned without error, although
\* something is left of what it was given: the rest of a header is lost, and a
\* body is written again from its beginning until the counts add up to its size.
AfterShortWrite ==
    IF onWire < HeaderSize
    THEN onWire' = HeaderSize /\ UNCHANGED total
    ELSE /\ total' = total + (onWire - HeaderSize)
         /\ onWire' = IF total' < Size[sent[Len(sent)]] THEN HeaderSize
                                                       ELSE FrameSize(Len(sent))

ShortWrite ==
    /\ end = "open"
    /\ ~Idle
    /\ onWire # HeaderSize
    /\ Len(sent) \in Tearable
    /\ AfterShortWrite
    /\ torn' = torn \cup {Len(sent)}
    /\ UNCHANGED <<mode, sent, wpc, stream, end, readerVars>>

\* Write gives an error.  The writer of Channelize waits until it is taken.
WriteFails ==
    /\ end # "open"
    /\ mode = "channelize"
    /\ wpc = "write"
    /\ wpc' = "error"
    /\ UNCHANGED <<mode, sent, onWire, total, torn, stream, end, readerVars>>

\* The writer closes its end, or its process ends, perhaps in mid-message.
Close ==
    /\ end = "open"
    /\ end' = "closed"
    /\ UNCHANGED <<mode, writerVars, stream, readerVars>>

\* The network breaks the connection; some of what was sent may arrive.
Break ==
    /\ end = "open"
    /\ end' = "broken"
    /\ \E n \in 0..Len(stream) : stream' = SubSeq(stream, 1, n)
    /\ UNCHANGED <<mode, writerVars, readerVars>>
-----------------------------------------------------------------------------
(* Read *)

\* What the first bytes of the stream say as a header.  The bytes of another
\* place can say anything; lengths above the limit are all alike.
Headers ==
    LET k == stream[1].of
    IN  IF \A i \in 1..HeaderSize : stream[i] = [of |-> k, at |-> i]
        THEN {[of |-> k, len |-> Size[sent[k]]]}
        ELSE {[of |-> 0, len |-> n] : n \in 0..(MaximumMessageSize + 1)}

\* Read gives an error.  A message connection is not read again.
Fails ==
    /\ failed' = TRUE
    /\ rpc' = IF mode = "conn" THEN "done" ELSE "error"
    /\ UNCHANGED <<received, later>>

\* Mutant of Accepts: the largest length is refused.
AcceptsLess(len) == len < MaximumMessageSize

Accepts(len) == len <= MaximumMessageSize

\* A length above the limit is an error that leaves the body in the stream.
ReadHeader ==
    /\ rpc = "header"
    /\ Len(stream) >= HeaderSize
    /\ header' \in Headers
    /\ stream' = SubSeq(stream, HeaderSize + 1, Len(stream))
    /\ data' = <<>>
    /\ \/ /\ Accepts(header'.len)
          /\ rpc' = "body"
          /\ UNCHANGED <<received, failed, later>>
       \/ /\ ~Accepts(header'.len)
          /\ Fails
    /\ UNCHANGED <<mode, writerVars, end>>

\* Mutant of BodyIncomplete: one byte too many.
BodyNotPast == Len(data) <= header.len

BodyIncomplete == Len(data) < header.len

ReadBody ==
    /\ rpc = "body"
    /\ BodyIncomplete
    /\ stream # <<>>
    /\ data' = Append(data, Head(stream))
    /\ stream' = Tail(stream)
    /\ UNCHANGED <<mode, writerVars, end, rpc, header, received, failed, later>>

\* Mutant of StreamEnds: the loop that reads the body ignores the error.
StreamEndsInHeader == rpc = "header" /\ Len(stream) < HeaderSize

\* The stream ends: in the header or before it; or in the body, where bytes
\* that come together with EOF are dropped, even if they complete the message.
StreamEnds ==
    \/ rpc = "header" /\ Len(stream) < HeaderSize
    \/ rpc = "body" /\ BodyIncomplete /\ Len(stream) <= 1

ReadFails ==
    /\ end # "open"
    /\ StreamEnds
    /\ stream' = <<>>
    /\ Fails
    /\ UNCHANGED <<mode, writerVars, end, header, data>>

\* The body read is the one the header was sent with.
Whole == \A i \in 1..header.len : data[i] = [of |-> header.of, at |-> HeaderSize + i]

\* Mutant of Intact: the checksum is not compared.
IntactAlways == TRUE

\* The body has the checksum of the header.  A header from another place has the
\* checksum of no body, but zeros describe the empty message.
Intact ==
    \/ header.of # 0 /\ Whole
    \/ header.of = 0 /\ header.len = 0

Check ==
    /\ rpc = "body"
    /\ Len(data) = header.len
    /\ \/ /\ Intact
          /\ rpc' = "deliver"
          /\ UNCHANGED <<received, failed, later>>
       \/ /\ header.of = 0 \/ ~Intact
          /\ Fails
    /\ UNCHANGED <<mode, writerVars, stream, end, header, data>>

\* The next message, or one before it, was written short.
Spoilt == \E i \in torn : i <= Len(received) + 1

\* The caller of Read, or the receiver of Channelize's channel, has the message.
Deliver ==
    /\ rpc = "deliver"
    /\ rpc' = "header"
    /\ IF failed \/ Spoilt
       THEN /\ later' = Append(later, [of |-> header.of, len |-> header.len, whole |-> Whole])
            /\ UNCHANGED received
       ELSE /\ received' = Append(received, sent[header.of])
            /\ UNCHANGED later
    /\ UNCHANGED <<mode, writerVars, stream, end, header, data, failed>>

\* The user of Channelize takes an error, and the goroutine goes on.
TakeError ==
    /\ \/ /\ rpc = "error"
          /\ rpc' = "header"
          /\ UNCHANGED wpc
       \/ /\ wpc = "error"
          /\ wpc' = "write"
          /\ UNCHANGED rpc
    /\ UNCHANGED <<mode, sent, onWire, total, torn, stream, end, header, data, received,
                   failed, later>>
-----------------------------------------------------------------------------
Reader == ReadHeader \/ ReadBody \/ ReadFails \/ Check \/ Deliver

Next ==
    \/ \E m \in Messages : Write(m)
    \/ Transmit
    \/ ShortWrite
    \/ WriteFails
    \/ Close
    \/ Break
    \/ Reader
    \/ TakeError

Spec == Init /\ [][Next]_vars

\* Write goes on unless the connection fails, goroutines are scheduled, and the
\* user of Channelize takes messages and errors.
FairSpec == Spec /\ WF_vars(Transmit) /\ WF_vars(Reader) /\ WF_vars(TakeError)
-----------------------------------------------------------------------------
(* Properties *)

C == INSTANCE Channel WITH
        queue <- SubSeq(sent, Len(received) + 1, Len(sent)),
        got <- received,
        over <- failed

\* Up to the first error of Read, or to a message that w wrote less of than it
\* was given, the framing is a channel of messages: each comes whole, once and in
\* order, however the stream is cut into pieces; Read gives an error only for a
\* message over the limit, one written short or a connection that has ended, and
\* then loses at most the last message of one that was closed.
IsChannel == C!Spec

\* Behind an error, or a message written short, Read may take a header from the
\* middle of a message.  What it delivers is still what was sent, whole, in order
\* and without repetition, or the empty message.
LaterInOrder ==
    \A j \in DOMAIN later :
        /\ later[j].whole
        /\ IF later[j].of = 0
           THEN later[j].len = 0
           ELSE /\ later[j].of > Len(received)
                /\ \A i \in 1..(j - 1) : later[i].of < later[j].of

\* A message that has been sent is received, unless the connection fails, a
\* message is over the limit or one up to it was written short.
EventuallyRead ==
    \A k \in 1..MaxMessages :
        (Len(sent) >= k) ~> (Len(received) >= k \/ failed \/ \E i \in torn : i <= k)
=============================================================================
