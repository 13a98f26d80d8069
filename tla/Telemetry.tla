------------------------------ MODULE Telemetry ------------------------------
(***************************************************************************)
(* grottdata.procdata with compat off: a record relayed by the proxy is    *)
(* decoded and offered to MQTT, PVOutput, InfluxDB and the extension, in   *)
(* this order and in one thread.  An action is what happens up to the next *)
(* call that leaves the process; time passes between any two.              *)
(*                                                                         *)
(* A record is [class, token, type, extended, extracted, serial, data,     *)
(* ack, date]: the parts of its header, the text at the position of the    *)
(* serial number of protocol 06, what the decoding loop makes of the field *)
(* its layouts define for pvserial (the text, or its hex digits if it is   *)
(* no text), the data the layouts read, whether it is shorter than 12      *)
(* bytes, and its date: "valid", "invalid" or "short".                     *)
(***************************************************************************)
EXTENDS LayoutSelection

CONSTANTS
  Confs,     \* the configurations Grott may run with
  Records,   \* the records that may arrive
  NoRecord,
  Second,    \* the ticks of the model's clock in a second
  MaxTime    \* bound: the tick at which the clock stops

ASSUME TelemetryAssumption ==
  /\ Second \in Nat \ {0}
  /\ MaxTime \in Nat
  /\ \A c \in Confs : c.interval \in Nat    \* conf.pvuplimit * 60

VARIABLES
  conf,      \* the settings, but for the two below
  layout,    \* conf.layout
  spoiled,   \* layouts in conf.recorddict whose pvserial was overwritten
  register,  \* GrottPvOutLimit.register, 0 where there is no entry
  now,       \* time.perf_counter(), in ticks
  step,      \* the sink procdata comes to next, or "idle"
  record,    \* the record procdata works on, or NoRecord
  serial,    \* definedkey["pvserial"], NoSerial if there is none
  uploaded,  \* history: when the limiter last admitted each inverter, or Never
  fate       \* history: how procdata left the last record, "none" within one

vars == <<conf, layout, spoiled, register, now, step, record, serial,
          uploaded, fate>>

Inverters == {r.serial : r \in Records} \cup {c.inverterid : c \in Confs}
Never     == -1

Init ==
  /\ conf \in Confs
  /\ layout = NoLayout
  /\ spoiled = {}
  /\ register = [i \in Inverters |-> 0]
  /\ now = 0
  /\ step = "idle"
  /\ record = NoRecord
  /\ serial = NoSerial
  /\ uploaded = [i \in Inverters |-> Never]
  /\ fate = "ignored"

(* procdata returns or raises; on_recv catches what it raises. *)
Leave(why) ==
  /\ step' = "idle"
  /\ fate' = why
  /\ record' = NoRecord
  /\ serial' = NoSerial

GoOn(sink) == step' = sink /\ UNCHANGED <<fate, record, serial>>
-----------------------------------------------------------------------------
(* From the call to the first sink. *)
Receiving == step = "idle" /\ UNCHANGED <<conf, register, now, uploaded>>

Ignore == Leave("ignored") /\ UNCHANGED spoiled

(* No layout is defined for the record, not even a generic one. *)
Unrecognised(r) ==
  /\ Receiving
  /\ Lookup(conf, r) = NoLayout
  /\ layout' = NoLayout
  /\ Ignore

(* What select_layout makes of a record the lookup knows. *)
Selected(r) ==
  IF step = "idle" /\ Lookup(conf, r) # NoLayout
    THEN SelectLayout(conf, spoiled, r, Lookup(conf, r))
    ELSE {}

(* The best layout scores below layout_min_score. *)
Implausible(r, s) ==
  /\ Receiving
  /\ ~Usable(conf, r, s)
  /\ layout' = Lookup(conf, r)
  /\ Ignore

(* Shorter than 12 bytes. *)
Acknowledgement(r, s) ==
  /\ Receiving
  /\ r.ack /\ Usable(conf, r, s)
  /\ layout' = s.layout
  /\ Ignore

(* The decoding loop finds a value: any text will do, but not the entry
   without a length that Spoil leaves. *)
Defines(r, name, key) ==
  /\ key \in Keys(spoiled, name)
  /\ key \in SerialKeys \/ Reading(spoiled, r, name, key) # "none"
  /\ key = "pvserial" => name \notin spoiled

SerialRead(r, name) ==
  IF Defines(r, name, "pvserial") THEN r.serial ELSE NoSerial

Defaults(r, name) == ~Loaded[name].device /\ ~Defines(r, name, "pvserial")

(* definedkey["pvserial"] behind the test for the device. *)
SerialUsed(r, name) ==
  IF Defaults(r, name) THEN conf.inverterid ELSE SerialRead(r, name)

(* Mutant: the entry is replaced by every record of a layout without device. *)
Spoil_Always(r, name) ==
  IF ~Loaded[name].device THEN spoiled \cup {name} ELSE spoiled

(* The default is also written into the layout: its later records are scored
   as if they had a serial number that cannot be read. *)
Spoil(r, name) == IF Defaults(r, name) THEN spoiled \cup {name} ELSE spoiled

Buffered(r) == r.type = "50"

ReadsDate(r, name) == Loaded[name].date /\ (conf.gtime # "server" \/ Buffered(r))

TimeFromServer(r, name) == ~(ReadsDate(r, name) /\ r.date = "valid")

(* A statement outside every try raises: the date is cut off, or the record of
   a smart meter lacks a field that is taken for granted. *)
Unreadable(r, name) ==
  \/ ReadsDate(r, name) /\ r.date = "short"
  \/ r.type = "20" /\ ~Defines(r, name, "voltage_l1")
  \/ Meter(r) /\ ~Loaded[name].device /\ ~Defines(r, name, "datalogserial")

(* The tests in front of the sinks. *)
Withheld(r, name) ==
  \/ Unreadable(r, name)
  \/ r.type = "20" /\ Reading(spoiled, r, name, "voltage_l1") = "out"
  \/ Buffered(r) /\ (~conf.sendbuf \/ TimeFromServer(r, name))

Decode(r, s) ==
  /\ Receiving
  /\ ~r.ack /\ Usable(conf, r, s)
  /\ layout' = s.layout
  /\ spoiled' = Spoil(r, s.layout)
  /\ IF Withheld(r, s.layout)
       THEN Leave("ignored")
       ELSE /\ step' = "mqtt"
            /\ fate' = "none"
            /\ record' = r
            /\ serial' = SerialUsed(r, s.layout)
-----------------------------------------------------------------------------
(* The sinks. *)
Enabled(sink) ==
  CASE sink = "mqtt"      -> ~conf.nomqtt
    [] sink = "pvoutput"  -> conf.pvoutput
    [] sink = "influx"    -> conf.influx
    [] sink = "extension" -> conf.extension

At(sink) ==
  /\ step = sink
  /\ UNCHANGED <<conf, layout, spoiled, now>>

Offer(sink)  == At(sink) /\ Enabled(sink)
Refuse(sink) == At(sink) /\ Enabled(sink) /\ UNCHANGED uploaded

Skip(sink) ==
  /\ At(sink) /\ ~Enabled(sink)
  /\ UNCHANGED <<register, uploaded>>
  /\ CASE sink = "mqtt"      -> GoOn("pvoutput")
       [] sink = "pvoutput"  -> GoOn("influx")
       [] sink = "influx"    -> GoOn("extension")
       [] sink = "extension" -> Leave("done")

(* publish.single: whatever it raises is caught. *)
PublishMqtt ==
  /\ Offer("mqtt")
  /\ GoOn("pvoutput")
  /\ UNCHANGED <<register, uploaded>>

(* With one inverter the system id is always known. *)
SystemKnown == conf.pvinverterid = {} \/ serial \in conf.pvinverterid

(* The layout names a device and defines no pvserial, or the system id of the
   inverter is not configured. *)
NoSystem ==
  /\ Refuse("pvoutput")
  /\ serial = NoSerial \/ ~SystemKnown
  /\ Leave("no system")
  /\ UNCHANGED register

(* GrottPvOutLimit.ok_send: the stamp is in whole seconds, and a stamp of 0
   counts as none. *)
OkSend(i) == register[i] = 0 \/ (register[i] + conf.interval) * Second < now

Stamp == now \div Second

(* Mutant: a refusal is stamped like an admission. *)
LimiterRefuses_Stamps ==
  /\ Refuse("pvoutput")
  /\ serial # NoSerial /\ SystemKnown /\ ~OkSend(serial)
  /\ register' = [register EXCEPT ![serial] = Stamp]
  /\ Leave("refused")

LimiterRefuses ==
  /\ Refuse("pvoutput")
  /\ serial # NoSerial /\ SystemKnown /\ ~OkSend(serial)
  /\ Leave("refused")
  /\ UNCHANGED register

(* Mutant: only the first admission of an inverter is stamped. *)
Admitted_Once(i) == [register EXCEPT ![i] = IF @ = 0 THEN Stamp ELSE @]

Admitted(i) == [register EXCEPT ![i] = Stamp]

(* requests.post, twice for a smart meter of type 20: neither its error nor
   that of a missing value is caught, and the admission is spent. *)
Upload ==
  /\ Offer("pvoutput")
  /\ serial # NoSerial /\ SystemKnown /\ OkSend(serial)
  /\ register' = Admitted(serial)
  /\ uploaded' = [uploaded EXCEPT ![serial] = now]
  /\ GoOn("influx") \/ Leave("post failed")

(* pytz is missing; the time does not exist, or exists twice, in a named time
   zone; or the name of the measurement is missing. *)
NoPoint ==
  /\ Refuse("influx")
  /\ Leave("no point")
  /\ UNCHANGED register

(* The measurement is named by the inverter, or by the data logger. *)
PointNamed ==
  IF record.type = "20" THEN Defines(record, layout, "datalogserial") ELSE serial # NoSerial

(* write_influx_points: the InfluxSinkError it raises is caught. *)
WriteInflux ==
  /\ Offer("influx")
  /\ PointNamed
  /\ GoOn("extension")
  /\ UNCHANGED <<register, uploaded>>

NoModule ==
  /\ Refuse("extension")
  /\ Leave("no module")
  /\ UNCHANGED register

(* grottext(conf, result_string, jsonmsg): whatever it raises is caught. *)
RunExtension ==
  /\ Offer("extension")
  /\ Leave("done")
  /\ UNCHANGED <<register, uploaded>>

Sinks == {"mqtt", "pvoutput", "influx", "extension"}

(* Time passes, also while a sink does not answer. *)
Tick ==
  /\ now < MaxTime
  /\ now' = now + 1
  /\ UNCHANGED <<conf, layout, spoiled, register, step, record, serial,
                 uploaded, fate>>

Next ==
  \/ \E r \in Records : Unrecognised(r)
  \/ \E r \in Records : \E s \in Selected(r) :
       Implausible(r, s) \/ Acknowledgement(r, s) \/ Decode(r, s)
  \/ \E sink \in Sinks : Skip(sink)
  \/ PublishMqtt
  \/ NoSystem \/ LimiterRefuses \/ Upload
  \/ NoPoint \/ WriteInflux
  \/ NoModule \/ RunExtension
  \/ Tick

Spec == Init /\ [][Next]_vars
-----------------------------------------------------------------------------
(* What the values of the variables are. *)
TypeOK ==
  /\ conf \in Confs
  /\ layout \in DOMAIN Loaded \cup {NoLayout}
  /\ spoiled \subseteq DOMAIN Loaded
  /\ register \in [Inverters -> Nat]
  /\ now \in 0..MaxTime
  /\ step \in Sinks \cup {"idle"}
  /\ record \in Records \cup {NoRecord}
  /\ serial \in Inverters \cup {NoSerial}
  /\ uploaded \in [Inverters -> Nat \cup {Never}]
  /\ fate \in {"none", "ignored", "no system", "refused", "post failed",
               "no point", "no module", "done"}

(* layout_strict: a record of an inverter is never decoded with the layout of
   another family than the configured one, whichever of the two lookups, the
   selection and its fall-back decided. *)
StrictFamily ==
  step # "idle" /\ conf.layout_strict /\ conf.invtype # "DEFAULT" /\ ~Meter(record)
    => layout.family = conf.invtype

(* A record is published under the serial number it carries, where its layout
   defines one: what an earlier record without one wrote into the layouts
   never takes its place. *)
SerialKept ==
  step # "idle" =>
    serial = IF "pvserial" \in Loaded[layout].keys THEN record.serial
             ELSE IF Loaded[layout].device THEN NoSerial
             ELSE conf.inverterid

(* Two uploads of an inverter are further apart than the limit, but for the
   second lost in rounding; after an upload in the very first second of the
   clock the next one is not limited. *)
UploadsSpaced ==
  [][ (/\ step = "pvoutput" /\ conf.pvoutput
       /\ step' = "influx" \/ fate' = "post failed"
       /\ uploaded[serial] # Never)
      => \/ now - uploaded[serial] > (conf.interval - 1) * Second
         \/ uploaded[serial] < Second ]_vars

(* An inverter is refused only within the limit behind an upload that was made,
   or tried, for it: refusals do not prolong the wait. *)
RefusalsJustified ==
  [][ step = "pvoutput" /\ fate' = "refused"
        => /\ uploaded[serial] # Never
           /\ now - uploaded[serial] <= conf.interval * Second ]_vars
=============================================================================
