----------------------------- MODULE MCTelemetry -----------------------------
(***************************************************************************)
(* Telemetry with the layouts of protocol 06 that grottconf.py defines for *)
(* extended records and smart meters, their scored keys only, and a user's *)
(* layout without a serial number.                                         *)
(***************************************************************************)
EXTENDS Telemetry, TLC

Name(token, family) == [class |-> "T06", token |-> token, family |-> family]
Def(keys, device, date) == [keys |-> keys, device |-> device, date |-> date]

Solar == SerialKeys \cup {"pvpowerout", "pv1watt", "pv1voltage", "pvenergytoday"}
Storage == Solar \cup {"SOC", "vbat"}

MCLoaded ==
  Name("NNNN", "")    :> Def(Solar, FALSE, TRUE)          \* T06NNNNX
  @@ Name("NNNN", "SPH") :> Def(Storage, FALSE, TRUE)     \* T06NNNNXSPH
  @@ Name("NNNN", "TL3") :> Def(Solar, FALSE, TRUE)       \* T06NNNNXTL3
  @@ Name("0120", "")  :> Def({"datalogserial", "pvserial", "voltage_l1"}, FALSE, TRUE)
  @@ Name("5129", "")  :> Def(Solar \ {"pvserial"}, FALSE, TRUE)
  @@ Name("501b", "")  :> Def({"datalogserial"}, TRUE, FALSE)

MCFamilies == <<"SPH", "TL3">>

\* The data of a record: what the layouts read for pvserial, the battery and
\* voltage_l1; every other field is "in".
MCReads ==
  [data \in [sn : {"in", "none"}, battery : {"in", "zero"}, meter : {"in", "out"}] |->
     [n \in DOMAIN MCLoaded |->
        [k \in MCLoaded[n].keys |->
           CASE k = "pvserial"        -> data.sn
             [] k \in {"SOC", "vbat"} -> data.battery
             [] k = "voltage_l1"      -> data.meter
             [] OTHER                 -> "in"]]]

Rec(token, type, sn, battery, meter, ack, date) ==
  [class |-> "T06", token |-> token, type |-> type,
   extended |-> type \in {"04", "50"}, extracted |-> sn, serial |-> sn,
   data |-> [sn |-> IF sn = "hex digits" THEN "none" ELSE "in",
             battery |-> battery, meter |-> meter],
   ack |-> ack, date |-> date]

Data(sn, battery) == Rec("0104", "04", sn, battery, "in", FALSE, "valid")

MCRecords ==
  { Data("i1", "in"), Data("i2", "zero"),
    Data("hex digits", "zero"),                                  \* garbled
    Rec("0150", "50", "i1", "zero", "in", FALSE, "invalid"),     \* buffered
    Rec("0119", "19", "i1", "in", "in", FALSE, "valid"),         \* no layout
    Rec("0104", "04", "i1", "in", "in", TRUE, "valid"),
    Rec("0120", "20", "i1", "in", "out", FALSE, "valid"),
    Rec("0120", "20", "hex digits", "in", "in", FALSE, "valid"),
    Rec("5129", "29", "i1", "in", "in", FALSE, "valid"),         \* no serial
    Rec("501b", "1b", "i1", "in", "in", FALSE, "valid") }

Plain ==
  [invtype |-> "DEFAULT", invtypemap |-> ("i2" :> "TL3"), layout_strict |-> FALSE,
   layout_auto_family |-> TRUE, layout_min_score |-> 0, gtime |-> "auto",
   sendbuf |-> TRUE, nomqtt |-> FALSE, pvoutput |-> FALSE, pvinverterid |-> {},
   interval |-> 2, influx |-> FALSE, extension |-> TRUE, inverterid |-> "i2"]

MCConfs ==
  { Plain,
    [Plain EXCEPT !.layout_strict = TRUE, !.layout_min_score = 20, !.invtype = "SPH", !.influx = TRUE],
    [Plain EXCEPT !.pvoutput = TRUE, !.nomqtt = TRUE, !.layout_auto_family = FALSE,
                  !.influx = TRUE],
    [Plain EXCEPT !.pvoutput = TRUE, !.pvinverterid = {"i1"}, !.invtype = "SPH",
                  !.extension = FALSE] }

\* Only the limiter of PVOutput reads the clock: it stands still without it.
Clocked == conf.pvoutput \/ now = 0
=============================================================================
