---------------------------- MODULE RecordFilter ----------------------------
(***************************************************************************)
(* Proxy.on_recv's decisions about one complete record: is it forwarded to *)
(* the other socket of the pair, and is it decoded locally.                *)
(*                                                                         *)
(* A record is its prefix (GrowattWire) with the fields                    *)
(*   type     the record type, the bytes 6 and 7: header[12:16]            *)
(*   command  the command a configure record carries                       *)
(*   crcOk    its last two bytes are its CRC (protocols 05 and 06)         *)
(* and conf is the record of the settings read here: blockcmd, noipf,      *)
(* recwl, minrecl, and crcChecked for libscrc being installed.             *)
(***************************************************************************)
EXTENDS GrowattWire

(* header[14:16] == "18": type is a pair of bytes. *)
IsConfigure(record) == record.type[2] = 24

(***************************************************************************)
(* confcmd == cmd.  For protocols 05 and 06 confdata is the string of hex  *)
(* digits decrypt() returns, and confcmd the four digits of the command.   *)
(* For protocol 02 confdata is `data' itself: confcmd is a slice of bytes, *)
(* which equals no string.                                                 *)
(***************************************************************************)
CommandIs(record, cmd) ==
  record.protocol \in {5, 6} /\ record.command = cmd

Valid(conf, record, size) ==
  ValidRecord(record, size, record.crcOk, conf.crcChecked)

(* The configure commands that pass in spite of blockcmd. *)
Exempt_IgnoreCrc(conf, record, size) ==
  /\ IsConfigure(record)
  /\ CommandIs(record, "time") \/ (CommandIs(record, "ip") /\ conf.noipf)

Exempt(conf, record, size) ==
  /\ IsConfigure(record)
  /\ Valid(conf, record, size)
  /\ CommandIs(record, "time") \/ (CommandIs(record, "ip") /\ conf.noipf)

(* blockflag, when the record reaches `if blockflag'. *)
Blocked(conf, record, size) ==
  /\ conf.blockcmd
  /\ ~Exempt(conf, record, size)
  /\ record.type \notin conf.recwl

(* The record is handed to procdata, once it has been forwarded. *)
Decoded(conf, record, size) ==
  /\ Valid(conf, record, size)
  /\ size > conf.minrecl
=============================================================================
