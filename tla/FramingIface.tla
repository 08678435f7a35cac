---------------------------- MODULE FramingIface ----------------------------
(***************************************************************************)
(* Messages over a stream: the sender puts their length in front, and the  *)
(* receiver puts them together again from whatever pieces the stream comes *)
(* in.  FramingIface.c frees the pieces of a message as soon as it is      *)
(* merged; memory and the descriptors that travel along are left out.      *)
(***************************************************************************)
EXTENDS Integers, SequencesExt

CONSTANTS
    maxMessageSize,    \* the longest message taken
    Messages,          \* what is sent, as sequences of bytes
    MaxSent            \* bound: the number of messages sent

ASSUME FramingAssumption ==
    maxMessageSize \in Nat /\ Messages \subseteq Seq(0 .. 255)

VARIABLES
    sent,        \* the messages given to sendMessage
    wire,        \* the bytes of the stream that have not arrived
    fi,          \* the state of the receiving end
    received     \* the messages that came out of it

framingVars == <<sent, wire, fi, received>>

HEADER_SIZE == 4

(* The length as four bytes, the highest first, and back. *)
hostToBigEndian32(n) == [i \in 1 .. HEADER_SIZE |-> (n \div 256^(HEADER_SIZE - i)) % 256]
bigEndianToHost32(h) == FoldLeft(LAMBDA n, byte : n * 256 + byte, 0, h)

FramingInit ==
    /\ sent = <<>> /\ wire = <<>> /\ received = <<>>
    /\ fi = [bytesRemaining |-> 0,
             frameParts |-> <<>>,                                 \* the newest first
             header |-> [i \in 1 .. HEADER_SIZE |-> 0], headerIndex |-> 0]

(* Mutant of mergeMessage: each part goes behind what is there. *)
MergeAppends(f, last) == FoldLeft(LAMBDA out, part : out \o part, last, f.frameParts)

(* Each part goes in front of what is there, the newest first. *)
mergeMessage(f, last) == FoldLeft(LAMBDA out, part : part \o out, last, f.frameParts)

(* The header with the first k bytes of msg filled in. *)
Filled(f, msg, k) ==
    [i \in 1 .. HEADER_SIZE |->
        IF i \in f.headerIndex + 1 .. f.headerIndex + k THEN msg[i - f.headerIndex]
                                                        ELSE f.header[i]]

(* The loop over the frames of a piece: what f becomes, and what comes out. *)
RECURSIVE Unframe(_, _, _)
Unframe(f, msg, out) ==
    LET missing == HEADER_SIZE - f.headerIndex
        got == IF Len(msg) < missing THEN Len(msg) ELSE missing
        header == Filled(f, msg, got)
        body == SubSeq(msg, got + 1, Len(msg))
        length == bigEndianToHost32(header)
        started == [f EXCEPT !.header = header, !.headerIndex = 0, !.bytesRemaining = length]
        done == [started EXCEPT !.bytesRemaining = 0]
    IN  IF got < missing
        THEN [fi |-> [f EXCEPT !.header = header, !.headerIndex = @ + got], out |-> out]
        ELSE IF length > maxMessageSize THEN [fi |-> started, out |-> out]
        ELSE IF length = Len(body) THEN [fi |-> done, out |-> Append(out, body)]
        ELSE IF length < Len(body)
        THEN Unframe(done, SubSeq(body, length + 1, Len(body)),
                     Append(out, SubSeq(body, 1, length)))
        ELSE [fi |-> [started EXCEPT !.bytesRemaining = length - Len(body),
                                     !.frameParts = <<header \o body>>],
              out |-> out]

(* A piece of the stream.  The piece that ends a frame is merged with the  *)
(* parts before it and goes through again, with the header in front.       *)
receiveMessage(f, msg) ==
    IF f.bytesRemaining > maxMessageSize THEN [fi |-> f, out |-> <<>>]
    ELSE IF f.frameParts = <<>> THEN Unframe(f, msg, <<>>)
    ELSE IF f.bytesRemaining <= Len(msg)
    THEN Unframe([f EXCEPT !.bytesRemaining = 0, !.frameParts = <<>>], mergeMessage(f, msg), <<>>)
    ELSE [fi |-> [f EXCEPT !.bytesRemaining = @ - Len(msg), !.frameParts = <<msg>> \o @],
          out |-> <<>>]

(* The size is not checked here. *)
sendMessage(msg) ==
    /\ Len(sent) < MaxSent
    /\ sent' = Append(sent, msg)
    /\ wire' = wire \o hostToBigEndian32(Len(msg)) \o msg
    /\ UNCHANGED <<fi, received>>

(* The stream delivers its next n bytes as one piece. *)
Arrive(n) ==
    LET r == receiveMessage(fi, SubSeq(wire, 1, n))
    IN  /\ fi' = r.fi
        /\ received' = received \o r.out
        /\ wire' = SubSeq(wire, n + 1, Len(wire))
        /\ UNCHANGED sent

FramingNext ==
    \/ \E msg \in Messages : sendMessage(msg)
    \/ \E n \in 1 .. Len(wire) : Arrive(n)

-----------------------------------------------------------------------------
(* Properties.                                                             *)

StreamLength(n) == FoldLeft(LAMBDA sum, msg : sum + HEADER_SIZE + Len(msg), 0, SubSeq(sent, 1, n))

(* receiveMessage gives out exactly the messages whose last byte has       *)
(* arrived, whole and in order, however the stream was cut, up to the      *)
(* first that is longer than maxMessageSize: after its header it is deaf.  *)
MessagesExact ==
    LET arrived == StreamLength(Len(sent)) - Len(wire)
        Complete(n) == /\ StreamLength(n) <= arrived
                       /\ \A i \in 1 .. n : Len(sent[i]) <= maxMessageSize
    IN  received = SubSeq(sent, 1, Max({n \in 0 .. Len(sent) : Complete(n)}))
=============================================================================
