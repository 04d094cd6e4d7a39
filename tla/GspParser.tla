----------------------------- MODULE GspParser -----------------------------
(***************************************************************************)
(* The frame parser of the serial protocol: pkg/gsp/frame.go.  It keeps    *)
(* the length bytes, the payload and the high byte of the CRC in a buffer  *)
(* that is never cleared; bytes come one at a time and any byte may come.  *)
(* The gateway feeds it and resets it when it connects.                    *)
(***************************************************************************)
EXTENDS Integers, Sequences

CONSTANTS
  Radix,        \* values of a byte: 256 in the code
  MaxPayload,   \* MaxPayloadSize
  BufSize,      \* the argument of NewParser
  Crc(_),       \* CRC16
  STX, ETX

Byte == 0 .. Radix - 1

ASSUME ParserAssumption ==
  /\ Radix \in Nat /\ Radix > 1
  /\ MaxPayload \in Nat /\ MaxPayload < Radix * Radix
  /\ BufSize \in Nat
  /\ STX \in Byte /\ ETX \in Byte
  /\ \A n \in 2 .. MaxPayload + 2 :
       \A s \in [1 .. n -> Byte] : Crc(s) \in 0 .. Radix * Radix - 1

VARIABLES
  buf,      \* p.buf; index i of the code is i + 1 here
  bufLen, state, payLen,
  fed,      \* the last byte, or -1 after a reset
  result    \* what the last byte gave: nothing, a frame's payload, or an error

parserVars == <<buf, bufLen, state, payLen, fed, result>>

Nothing  == [kind |-> "none", payload |-> <<>>]
Error    == [kind |-> "error", payload |-> <<>>]
Frame(p) == [kind |-> "frame", payload |-> p]

\* NewParser: at least the length bytes and the longest payload.
Capacity == IF BufSize < MaxPayload + 2 THEN MaxPayload + 2 ELSE BufSize

States == {"waitSTX", "lenHigh", "lenLow", "payload", "crcHigh", "crcLow", "etx"}

ParserInit ==
  /\ buf = [i \in 1 .. Capacity |-> 0]
  /\ bufLen = 0 /\ state = "waitSTX" /\ payLen = 0
  /\ fed = -1 /\ result = Nothing

Cleared == bufLen' = 0 /\ state' = "waitSTX" /\ payLen' = 0

Reset == Cleared /\ fed' = -1 /\ result' = Nothing /\ UNCHANGED buf

\* Feed resets the parser when feedByte returns an error.
Fail == Cleared /\ result' = Error

Store(b) == buf' = [buf EXCEPT ![bufLen + 1] = b] /\ bufLen' = bufLen + 1

WaitSTX(b) ==
  /\ state = "waitSTX"
  /\ IF b = STX THEN state' = "lenHigh" /\ bufLen' = 0 ELSE UNCHANGED <<state, bufLen>>
  /\ result' = Nothing
  /\ UNCHANGED <<buf, payLen>>

ReadLenHigh(b) ==
  /\ state = "lenHigh"
  /\ payLen' = b * Radix
  /\ Store(b)
  /\ state' = "lenLow" /\ result' = Nothing

ReadLenLow(b) ==
  LET n == payLen + b IN
  /\ state = "lenLow"
  /\ buf' = [buf EXCEPT ![2] = b]
  /\ IF n > MaxPayload
     THEN Fail
     ELSE /\ payLen' = n /\ bufLen' = 2 /\ result' = Nothing
          /\ state' = IF n = 0 THEN "crcHigh" ELSE "payload"

ReadPayload(b) ==
  /\ state = "payload"
  /\ IF bufLen >= Capacity
     THEN Fail /\ UNCHANGED buf
     ELSE /\ Store(b)
          /\ state' = IF bufLen' >= payLen + 2 THEN "crcHigh" ELSE "payload"
          /\ result' = Nothing /\ UNCHANGED payLen

\* One place more than the byte needs is asked for.
ReadCRCHigh(b) ==
  /\ state = "crcHigh"
  /\ IF bufLen >= Capacity - 1
     THEN Fail /\ UNCHANGED buf
     ELSE /\ Store(b)
          /\ state' = "crcLow" /\ result' = Nothing /\ UNCHANGED payLen

\* The low byte of the CRC is compared, and not kept.
ReadCRCLow(b) ==
  /\ state = "crcLow"
  /\ IF Crc(SubSeq(buf, 1, payLen + 2)) = buf[payLen + 3] * Radix + b
     THEN state' = "etx" /\ result' = Nothing /\ UNCHANGED <<bufLen, payLen>>
     ELSE Fail
  /\ UNCHANGED buf

ReadETXAny(b) ==   \* mutant: the end byte is not checked
  /\ state = "etx"
  /\ Cleared /\ result' = Frame(SubSeq(buf, 3, payLen + 2))
  /\ UNCHANGED buf

ReadETX(b) ==
  /\ state = "etx"
  /\ IF b = ETX
     THEN Cleared /\ result' = Frame(SubSeq(buf, 3, payLen + 2))
     ELSE Fail
  /\ UNCHANGED buf

FeedByte(b) ==
  /\ fed' = b
  /\ \/ WaitSTX(b) \/ ReadLenHigh(b) \/ ReadLenLow(b) \/ ReadPayload(b)
     \/ ReadCRCHigh(b) \/ ReadCRCLow(b) \/ ReadETX(b)

ParserNext == Reset \/ \E b \in Byte : FeedByte(b)

ParserSpec == ParserInit /\ [][ParserNext]_parserVars
-----------------------------------------------------------------------------
ParserTypeOK ==
  /\ buf \in [1 .. Capacity -> Byte]
  /\ bufLen \in 0 .. Capacity
  /\ state \in States
  /\ payLen \in 0 .. MaxPayload \cup {b * Radix : b \in Byte}
  /\ fed \in Byte \cup {-1}
  /\ result \in {Nothing, Error} \cup
       {Frame(p) : p \in UNION {[1 .. n -> Byte] : n \in 0 .. MaxPayload}}

\* The bytes of the current frame: what the buffer holds of it, and the low byte
\* of the CRC, which is known though not kept.
Partial ==
  CASE state = "waitSTX" -> <<>>
    [] state = "etx" -> <<STX>> \o SubSeq(buf, 1, bufLen)
                        \o <<Crc(SubSeq(buf, 1, payLen + 2)) % Radix>>
    [] OTHER -> <<STX>> \o SubSeq(buf, 1, bufLen)

Framing == INSTANCE GspFraming WITH partial <- Partial

\* The parser keeps the promise of GspFraming: each frame BuildFrame makes, fed
\* from its STX on, is delivered at its last byte with its payload intact, nothing
\* else is delivered, and no byte that could belong to a frame is refused.  Stale
\* bytes in the buffer, a buffer too small and a length at the limit are what
\* could break it.
ImplementsFraming == Framing!Spec
=============================================================================
