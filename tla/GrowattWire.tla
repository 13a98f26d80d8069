---------------------------- MODULE GrowattWire ----------------------------
(***************************************************************************)
(* The record format shared by the framer (grottprotocol.FrameBuffer) and  *)
(* the record validator (grottproxy.validate_record).                      *)
(*                                                                         *)
(* A record opens with an eight-byte header; the framer needs the first    *)
(* six bytes of it.  What those bytes say is abstracted to a record with   *)
(* the two fields the program reads, `protocol' (byte 3) and `declared'    *)
(* (bytes 4 and 5, big endian: 0..65535), and whatever further fields a    *)
(* module that looks into the record gives it.                             *)
(***************************************************************************)
EXTENDS Integers

PrefixOK(prefix) ==
  /\ prefix.protocol \in 0..255
  /\ prefix.declared \in Nat
  /\ prefix.declared < 65536

SupportedProtocols == {2, 5, 6}

PrefixLength == 6

(* The CRC of protocols 05 and 06 is outside the declared length. *)
CrcLength(prefix) == IF prefix.protocol \in {5, 6} THEN 2 ELSE 0

FrameLength(prefix) == PrefixLength + prefix.declared + CrcLength(prefix)

(* The three FrameErrors a prefix raises as soon as it is complete. *)
Malformed(prefix, maxFrame) ==
  \/ prefix.protocol \notin SupportedProtocols
  \/ prefix.declared < 2
  \/ FrameLength(prefix) > maxFrame

(***************************************************************************)
(* validate_record on the `size' bytes of a record with this prefix: TRUE  *)
(* for the code's 0, FALSE for its 8.  crcOk says whether the two trailing *)
(* bytes are the record's CRC; crcChecked whether libscrc is installed.    *)
(***************************************************************************)
ValidRecord(prefix, size, crcOk, crcChecked) ==
  /\ size >= 8
  /\ prefix.protocol \in SupportedProtocols
  /\ prefix.declared >= 2
  /\ size = FrameLength(prefix)
  /\ (CrcLength(prefix) > 0 /\ crcChecked) => crcOk
=============================================================================
