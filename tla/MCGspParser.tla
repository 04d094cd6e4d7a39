---------------------------- MODULE MCGspParser ----------------------------
(* Instances of GspParser for TLC: bytes of two bits, and a checksum that, *)
(* like the CRC, depends on the value and the place of each byte.          *)
EXTENDS GspParser, SequencesExt

MCCrc(s) == FoldLeft(LAMBDA sum, b : (3 * sum + b + 1) % (Radix * Radix), 15, s)
=============================================================================
