----------------------------- MODULE ProtoCodec -----------------------------
(***************************************************************************)
(* The encoding of a message (ProtoCodec.hpp), from a sender's memory to a *)
(* receiver's: the bytes, the two lengths, the checksum, and the integers  *)
(* that are flipped in the buffer itself, on hosts of either byte order    *)
(* and either width of long.  On the way one byte may be altered, or only  *)
(* a piece of the message may arrive.                                      *)
(***************************************************************************)
EXTENDS Adler

CONSTANTS SignedBytes,   \* the values of a char
          ByteMod,       \* their number
          Messages,      \* the messages that are sent: [seq, name, body]
          KnownNames,    \* the names the receiver has a descriptor for
          Hosts          \* pairs of a sender and a receiver: [endian, longMod]

MinLen == 16             \* PROTO_MSG_MIN_LEN

ASSUME ProtoCodecAssumption ==
  /\ ByteMod ^ 4 = IntMod
  /\ SignedBytes = -(ByteMod \div 2) .. (ByteMod \div 2) - 1

VARIABLES step,          \* "code", "sent", "altered" or "decoded"
          sender, receiver,
          message,       \* what is sent
          buf,           \* the buffer, on either side
          wasAltered,    \* the bytes that were sent, if another arrives
          result         \* what decodingFromBuf returned and filled in

vars == <<step, sender, receiver, message, buf, wasAltered, result>>

NoMessage == [seq |-> 0, name |-> <<>>, body |-> <<>>]

Init ==
  /\ step = "code" /\ buf = <<>> /\ wasAltered = <<>>
  /\ \E hosts \in Hosts : sender = hosts[1] /\ receiver = hosts[2]
  /\ message \in Messages
  /\ result = [code |-> "ERR_UNDEFINE", message |-> NoMessage]

-----------------------------------------------------------------------------
(* Integers in memory.                                                     *)

ToChar(d) == IF 2 * d < ByteMod THEN d ELSE d - ByteMod

\* The bytes of n in the memory of a host, size of them.
Store(n, size, host) ==
  LET big == [i \in 1 .. size |-> ToChar((n \div ByteMod ^ (size - i)) % ByteMod)]
  IN  IF host.endian = "BIG" THEN big ELSE Reverse(big)

Load(bytes, host) ==
  LET add(n, c) == n * ByteMod + (c % ByteMod)
  IN  FoldLeft(add, 0, IF host.endian = "BIG" THEN bytes ELSE Reverse(bytes))

\* protoFlipBuf: what is longer than two bytes is turned, by flipData.
protoFlipBuf(bytes, host) ==
  IF host.endian # "BIG" /\ Len(bytes) > 2 THEN Reverse(bytes) ELSE bytes

Coded(n, size, host) == protoFlipBuf(Store(n, size, host), host)
Decoded(bytes, host) == Load(protoFlipBuf(bytes, host), host)

-----------------------------------------------------------------------------
\* All of the message but its checksum.
Content(m, host) ==
  Coded(m.seq, 4, host) \o Coded(Len(m.name) + 1, 2, host) \o m.name \o <<0>>
    \o Coded(Len(m.body), 4, host) \o m.body

codingToBuf ==
  /\ step = "code" /\ step' = "sent"
  /\ buf' = Content(message, sender)
            \o Coded(adler32(Content(message, sender), sender.longMod), 4, sender)
  /\ UNCHANGED <<sender, receiver, message, wasAltered, result>>

\* One byte arrives other than it was sent.
Alter ==
  /\ step = "sent" /\ step' = "altered"
  /\ wasAltered' = buf
  /\ \E i \in DOMAIN buf, c \in SignedBytes :
       c # buf[i] /\ buf' = [buf EXCEPT ![i] = c]
  /\ UNCHANGED <<sender, receiver, message, result>>

\* The stream is not framed: a piece of it may arrive. (A longer piece is refused
\* by its checksum but for chance, which these widths exaggerate; it is left out.)
Cut ==
  /\ step = "sent" /\ step' = "altered"
  /\ wasAltered' = buf
  /\ \E n \in 1 .. MinLen - 1 : buf' = SubSeq(buf, 1, n)
  /\ UNCHANGED <<sender, receiver, message, result>>

\* A slip: the last byte of the message is left out of the sum.
ChecksumOfOneLess(b, host) ==
  adler32(SubSeq(b, 1, Len(b) - 5), host.longMod) = Decoded(SubSeq(b, Len(b) - 3, Len(b)), host)

\* The checksum in buffer b is the one of the rest of it.
ChecksumAgrees(b, host) ==
  adler32(SubSeq(b, 1, Len(b) - 4), host.longMod) = Decoded(SubSeq(b, Len(b) - 3, Len(b)), host)

\* b with the bytes from first to last turned.
Flip(b, first, last, host) ==
  SubSeq(b, 1, first - 1) \o protoFlipBuf(SubSeq(b, first, last), host)
    \o SubSeq(b, last + 1, Len(b))

Is(code, m) == [code |-> code, message |-> m]

\* The lengths are believed: with one that is wrong, the code reads past the
\* buffer, and what it then finds is left open here ("overrun").
Parse(b, host) ==
  LET nameLen == Decoded(SubSeq(b, 5, 6), host)
      name == SubSeq(b, 7, 5 + nameLen)
      body == 7 + nameLen + 4
      bodyLen == Decoded(SubSeq(b, 7 + nameLen, body - 1), host)
  IN  IF nameLen = 0 \/ body - 1 > Len(b) THEN Is("overrun", NoMessage)
      ELSE IF name \notin KnownNames THEN Is("ERR_UNKNOWN_MSG_TYPE", NoMessage)
      ELSE IF body - 1 + bodyLen > Len(b) THEN Is("overrun", NoMessage)
      ELSE Is("ERR_NONE", [seq |-> Decoded(SubSeq(b, 1, 4), host), name |-> name,
                           body |-> SubSeq(b, body, body - 1 + bodyLen)])

\* What decodingFromBuf leaves in the buffer: the checksum is turned even if it
\* is wrong, the length of the body only for a known name.
Turned(b, host, code) ==
  LET summed == Flip(b, Len(b) - 3, Len(b), host)
      numbered == Flip(summed, 1, 4, host)
      body == 7 + Decoded(SubSeq(b, 5, 6), host)
  IN  CASE code = "ERR_CHECK_SUM" -> summed
        [] code = "ERR_NONE" -> Flip(numbered, body, body + 3, host)
        [] OTHER -> numbered

decodingFromBuf ==
  /\ step \in {"sent", "altered"} /\ step' = "decoded"
  /\ IF Len(buf) < MinLen
     THEN result' = Is("ERR_INVALID_LENGTH", NoMessage) /\ UNCHANGED buf
     ELSE /\ result' = IF ChecksumAgrees(buf, receiver) THEN Parse(buf, receiver)
                       ELSE Is("ERR_CHECK_SUM", NoMessage)
          /\ buf' = Turned(buf, receiver, result'.code)
  /\ UNCHANGED <<sender, receiver, message, wasAltered>>

Next == codingToBuf \/ Alter \/ Cut \/ decodingFromBuf
Spec == Init /\ [][Next]_vars

-----------------------------------------------------------------------------
\* No byte of 128 and more: the bytes of names, small numbers and plain text.
Plain(bytes) == \A i \in DOMAIN bytes : bytes[i] >= 0

\* Hosts of one byte order that sum these bytes alike.
Agree(bytes) ==
  sender.endian = receiver.endian /\ (sender.longMod = receiver.longMod \/ Plain(bytes))

\* decodingFromBuf gives back the message that codingToBuf was given, on a host
\* of the same byte order and the same long; and on one with another long, as
\* a Windows client and a Linux server are, if every byte of it is below 128.
\* No host at all takes it for another message.
RoundTrip ==
  step = "decoded" /\ wasAltered = <<>> =>
    /\ Agree(Content(message, sender)) =>
         IF message.name \in KnownNames THEN result = Is("ERR_NONE", message)
                                        ELSE result.code = "ERR_UNKNOWN_MSG_TYPE"
    /\ result.code = "ERR_NONE" => result.message = message

\* A piece of a few bytes is refused, and so is a buffer with one byte altered,
\* whichever byte it is, one of the lengths included, if its bytes are below 128
\* before and after: nothing is read by a length that was not sent. (With bytes
\* of 128 and more a sum that wraps on one side of the change only can hide it:
\* 2^32 % BASE is 225.)  decodingFromBuf, lines 115-136.
AlteredRefused ==
    /\ step = "decoded" /\ wasAltered # <<>>
    /\ Agree(wasAltered) /\ Plain(wasAltered) /\ Plain(SubSeq(buf, 1, Len(buf) - 4))
  => result.code \in {"ERR_CHECK_SUM", "ERR_INVALID_LENGTH"}

=============================================================================
