----------------------------- MODULE GspFraming -----------------------------
(***************************************************************************)
(* What a receiver of GSP frames (pkg/gsp/frame.go) promises of each byte  *)
(* it is fed, without saying how it remembers what came before: between    *)
(* frames it waits for STX; the byte that completes a frame delivers it;   *)
(* a byte after which a frame is still possible is never refused; once no  *)
(* frame is possible, it may find out and report an error at any byte.     *)
(***************************************************************************)
EXTENDS Integers, Sequences

CONSTANTS
  Radix,        \* values of a byte: 256 in the code
  MaxPayload,   \* MaxPayloadSize
  Crc(_),       \* CRC16, over the length and the payload
  STX, ETX

Byte == 0 .. Radix - 1

\* Two bytes, the high one first.
BigEndian(n) == <<n \div Radix, n % Radix>>

Covered(payload) == BigEndian(Len(payload)) \o payload

BuildFrame(payload) ==
  <<STX>> \o Covered(payload) \o BigEndian(Crc(Covered(payload))) \o <<ETX>>

Payloads == UNION {[1 .. n -> Byte] : n \in 0 .. MaxPayload}

\* Some frame starts with s and goes on after it.
Possible(s) ==
  \E p \in Payloads :
    Len(s) < Len(p) + 6 /\ SubSeq(BuildFrame(p), 1, Len(s)) = s

VARIABLES
  fed,       \* the last byte, or -1 after a reset
  partial,   \* what has been read of a frame
  result     \* what the last byte gave: nothing, a frame's payload, or an error

vars == <<fed, partial, result>>

Nothing  == [kind |-> "none", payload |-> <<>>]
Error    == [kind |-> "error", payload |-> <<>>]
Frame(p) == [kind |-> "frame", payload |-> p]

Init == fed = -1 /\ partial = <<>> /\ result = Nothing

Skip(b) ==
  /\ partial = <<>> /\ b # STX
  /\ partial' = <<>> /\ result' = Nothing

Keep(b) ==
  /\ partial # <<>> \/ b = STX
  /\ Len(partial) < MaxPayload + 5
  /\ partial' = Append(partial, b) /\ result' = Nothing
  /\ \A p \in Payloads : partial' # BuildFrame(p)

Deliver(b) ==
  \E p \in Payloads :
    /\ Append(partial, b) = BuildFrame(p)
    /\ partial' = <<>> /\ result' = Frame(p)

Refuse(b) ==
  /\ partial # <<>> /\ ~Possible(Append(partial, b))
  /\ \A p \in Payloads : Append(partial, b) # BuildFrame(p)
  /\ partial' = <<>> /\ result' = Error

Forget == fed' = -1 /\ partial' = <<>> /\ result' = Nothing

Next ==
  \/ Forget
  \/ \E b \in Byte : fed' = b /\ (Skip(b) \/ Keep(b) \/ Deliver(b) \/ Refuse(b))

Spec == Init /\ [][Next]_vars
=============================================================================
