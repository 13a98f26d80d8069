--------------------------- MODULE TelemetryProofs ---------------------------
(***************************************************************************)
(* Proofs about Telemetry, for every set of layouts, records and           *)
(* configurations.                                                         *)
(***************************************************************************)
EXTENDS Telemetry, TLAPS

(* Whatever decides on the layout, it is a defined one, and under
   layout_strict of the configured family. *)
LEMMA LookupDefined ==
  ASSUME NEW c \in Confs, NEW r \in Records, Lookup(c, r) # NoLayout
  PROVE  /\ Lookup(c, r) \in DOMAIN Loaded
         /\ (c.layout_strict /\ c.invtype # "DEFAULT" /\ ~Meter(r))
              => Lookup(c, r).family = c.invtype
  BY DEF Lookup, ExactName, Generic, WithFamily, Base

LEMMA StrictCandidates ==
  ASSUME NEW c \in Confs, NEW r \in Records,
         c.layout_strict, c.invtype # "DEFAULT", ~Meter(r),
         NEW i \in DOMAIN BuildCandidateLayouts(c, r)
  PROVE  BuildCandidateLayouts(c, r)[i].layout.family = c.invtype
<1>1. BuildCandidateLayouts(c, r) = InFamily(r, c.invtype)
  <2>1. ConfiguredFirst(c, r) = InFamily(r, c.invtype)
    BY DEF ConfiguredFirst
  <2>2. InFamily(r, c.invtype) # <<>>
    BY DEF InFamily
  <2>. QED BY <2>1, <2>2 DEF BuildCandidateLayouts
<1>2. i = 1 \/ i = 2
  BY <1>1 DEF InFamily
<1>3. BuildCandidateLayouts(c, r)[i].layout
        \in {WithFamily(Base(r), c.invtype), WithFamily(Generic(r, Base(r)), c.invtype)}
  <2>1. CASE i = 1
    BY <1>1, <2>1 DEF InFamily, Candidate
  <2>2. CASE i = 2
    BY <1>1, <2>2 DEF InFamily, Candidate
  <2>. QED BY <1>2, <2>1, <2>2
<1>. QED BY <1>3 DEF WithFamily, Generic, Base

LEMMA SelectionDefined ==
  ASSUME NEW c \in Confs, NEW r \in Records, NEW sp,
         Lookup(c, r) # NoLayout,
         NEW s \in SelectLayout(c, sp, r, Lookup(c, r))
  PROVE  /\ s.layout \in DOMAIN Loaded
         /\ (c.layout_strict /\ c.invtype # "DEFAULT" /\ ~Meter(r))
              => s.layout.family = c.invtype
<1>1. s.layout = Lookup(c, r)
        \/ \E i \in Tried(BuildCandidateLayouts(c, r)) :
             s.layout = BuildCandidateLayouts(c, r)[i].layout
  BY DEF SelectLayout
<1>2. CASE s.layout = Lookup(c, r)
  BY <1>2, LookupDefined
<1>3. CASE \E i \in Tried(BuildCandidateLayouts(c, r)) :
             s.layout = BuildCandidateLayouts(c, r)[i].layout
  BY <1>3, StrictCandidates DEF Tried
<1>. QED BY <1>1, <1>2, <1>3

LEMMA SelectedDefined ==
  ASSUME conf \in Confs, NEW r \in Records, NEW s \in Selected(r)
  PROVE  /\ s.layout \in DOMAIN Loaded
         /\ Lookup(conf, r) \in DOMAIN Loaded
         /\ (conf.layout_strict /\ conf.invtype # "DEFAULT" /\ ~Meter(r))
              => s.layout.family = conf.invtype
  BY SelectionDefined, LookupDefined DEF Selected
-----------------------------------------------------------------------------
LEMMA InvertersOf ==
  /\ \A r \in Records : r.serial \in Inverters
  /\ \A c \in Confs : c.inverterid \in Inverters
  BY DEF Inverters

(* What a stamp in whole seconds says of the tick it was taken at. *)
LEMMA Division ==
  ASSUME NEW n \in Nat, NEW d \in Nat, d > 0
  PROVE  /\ n \div d \in Nat
         /\ (n \div d) * d <= n
         /\ n < (n \div d) * d + d
  BY Z3

LEMMA StampOf ==
  ASSUME TypeOK
  PROVE  /\ now \in Nat
         /\ Stamp \in Nat
         /\ Stamp * Second <= now
         /\ now < Stamp * Second + Second
<1>1. Second \in Nat /\ Second > 0 /\ MaxTime \in Nat
  BY TelemetryAssumption
<1>2. now \in 0..MaxTime
  BY DEF TypeOK
<1>3. now \in Nat
  BY <1>1, <1>2
<1>. QED BY <1>1, <1>3, Division DEF Stamp

LEMMA TickBounded ==
  ASSUME NEW m \in Nat, NEW n \in 0..m, n < m
  PROVE  n + 1 \in 0..m
  OBVIOUS

LEMMA TypeStep ==
  ASSUME TypeOK, [Next]_vars
  PROVE  TypeOK'
<1>. USE TelemetryAssumption DEF TypeOK
<1>1. ASSUME NEW r \in Records, Unrecognised(r) PROVE TypeOK'
  BY <1>1 DEF Unrecognised, Receiving, Ignore, Leave
<1>2. ASSUME NEW r \in Records, NEW s \in Selected(r), Implausible(r, s) PROVE TypeOK'
  BY <1>2, SelectedDefined DEF Implausible, Receiving, Ignore, Leave
<1>3. ASSUME NEW r \in Records, NEW s \in Selected(r), Acknowledgement(r, s) PROVE TypeOK'
  BY <1>3, SelectedDefined DEF Acknowledgement, Receiving, Ignore, Leave
<1>4. ASSUME NEW r \in Records, NEW s \in Selected(r), Decode(r, s) PROVE TypeOK'
  <2>1. s.layout \in DOMAIN Loaded
    BY SelectedDefined
  <2>2. SerialUsed(r, s.layout) \in Inverters \cup {NoSerial}
    BY InvertersOf DEF SerialUsed, SerialRead
  <2>3. Spoil(r, s.layout) \subseteq DOMAIN Loaded
    BY <2>1 DEF Spoil
  <2>4. /\ record' \in Records \cup {NoRecord} /\ step' \in Sinks \cup {"idle"}
        /\ fate' \in {"none", "ignored"} /\ serial' \in Inverters \cup {NoSerial}
    BY <1>4, <2>2 DEF Decode, Leave, Sinks
  <2>5. spoiled' \subseteq DOMAIN Loaded
    BY <1>4, <2>1, <2>3 DEF Decode
  <2>. QED BY <1>4, <2>1, <2>4, <2>5 DEF Decode, Receiving
<1>5. ASSUME NEW sink \in Sinks, Skip(sink) PROVE TypeOK'
  BY <1>5 DEF Skip, At, GoOn, Leave, Sinks
<1>6. CASE PublishMqtt
  BY <1>6 DEF PublishMqtt, Offer, At, GoOn, Sinks
<1>7. CASE NoSystem
  BY <1>7 DEF NoSystem, Refuse, At, Leave
<1>8. CASE LimiterRefuses
  BY <1>8 DEF LimiterRefuses, Refuse, At, Leave
<1>9. CASE Upload
  <2>1. Stamp \in Nat /\ now \in Nat
    BY StampOf
  <2>2. register' \in [Inverters -> Nat] /\ uploaded' \in [Inverters -> Nat \cup {Never}]
    BY <1>9, <2>1 DEF Upload, Admitted
  <2>. QED BY <1>9, <2>2 DEF Upload, Offer, At, GoOn, Leave, Sinks
<1>10. CASE NoPoint
  BY <1>10 DEF NoPoint, Refuse, At, Leave
<1>11. CASE WriteInflux
  BY <1>11 DEF WriteInflux, Offer, At, GoOn, Sinks
<1>12. CASE NoModule
  BY <1>12 DEF NoModule, Refuse, At, Leave
<1>13. CASE RunExtension
  BY <1>13 DEF RunExtension, Offer, At, Leave
<1>14. CASE Tick
  <2>1. now \in 0..MaxTime /\ MaxTime \in Nat
    BY TelemetryAssumption
  <2>2. now < MaxTime /\ now' = now + 1
    BY <1>14 DEF Tick
  <2>3. now' \in 0..MaxTime
    BY <2>1, <2>2, TickBounded
  <2>. QED BY <1>14, <2>3 DEF Tick
<1>15. CASE UNCHANGED vars
  BY <1>15 DEF vars
<1>. QED BY <1>1, <1>2, <1>3, <1>4, <1>5, <1>6, <1>7, <1>8, <1>9, <1>10, <1>11,
            <1>12, <1>13, <1>14, <1>15 DEF Next

LEMMA TypeInit == Init => TypeOK
  BY TelemetryAssumption DEF Init, TypeOK, Never

(* Every variable keeps its type. *)
THEOREM TypeCorrect == Spec => []TypeOK
  BY TypeInit, TypeStep, PTL DEF Spec
-----------------------------------------------------------------------------
(* What happens to the record in hand once it is decoded: nothing, until
   procdata is left. *)
Holds ==
  /\ UNCHANGED <<conf, layout, spoiled>>
  /\ \/ step' = "idle"
     \/ step # "idle" /\ UNCHANGED <<record, serial>>

LEMMA SinksHold ==
  ASSUME [Next]_vars,
         ~ \E r \in Records : Unrecognised(r),
         ~ \E r \in Records : \E s \in Selected(r) :
             Implausible(r, s) \/ Acknowledgement(r, s) \/ Decode(r, s)
  PROVE  Holds
<1>1. ASSUME NEW sink \in Sinks, Skip(sink) PROVE Holds
  BY <1>1 DEF Skip, At, GoOn, Leave, Sinks, Holds
<1>2. CASE PublishMqtt
  BY <1>2 DEF PublishMqtt, Offer, At, GoOn, Holds
<1>3. CASE NoSystem \/ LimiterRefuses
  BY <1>3 DEF NoSystem, LimiterRefuses, Refuse, At, Leave, Holds
<1>4. CASE Upload
  BY <1>4 DEF Upload, Offer, At, GoOn, Leave, Holds
<1>5. CASE NoPoint \/ NoModule
  BY <1>5 DEF NoPoint, NoModule, Refuse, At, Leave, Holds
<1>6. CASE WriteInflux
  BY <1>6 DEF WriteInflux, Offer, At, GoOn, Holds
<1>7. CASE RunExtension
  BY <1>7 DEF RunExtension, Offer, At, Leave, Holds
<1>8. CASE Tick
  BY <1>8 DEF Tick, Holds
<1>9. CASE UNCHANGED vars
  BY <1>9 DEF vars, Holds
<1>. QED BY <1>1, <1>2, <1>3, <1>4, <1>5, <1>6, <1>7, <1>8, <1>9 DEF Next

LEMMA FamilyStep ==
  ASSUME TypeOK, StrictFamily, [Next]_vars
  PROVE  StrictFamily'
<1>1. CASE Holds
  BY <1>1 DEF Holds, StrictFamily, Meter
<1>2. ASSUME NEW r \in Records, Unrecognised(r) PROVE StrictFamily'
  BY <1>2 DEF Unrecognised, Ignore, Leave, StrictFamily
<1>3. ASSUME NEW r \in Records, NEW s \in Selected(r),
             Implausible(r, s) \/ Acknowledgement(r, s)
      PROVE  StrictFamily'
  BY <1>3 DEF Implausible, Acknowledgement, Ignore, Leave, StrictFamily
<1>4. ASSUME NEW r \in Records, NEW s \in Selected(r), Decode(r, s)
      PROVE  StrictFamily'
  <2>1. (conf.layout_strict /\ conf.invtype # "DEFAULT" /\ ~Meter(r))
          => s.layout.family = conf.invtype
    BY SelectedDefined DEF TypeOK
  <2>2. layout' = s.layout /\ conf' = conf /\ (step' = "idle" \/ record' = r)
    BY <1>4 DEF Decode, Receiving, Leave
  <2>. QED BY <2>1, <2>2 DEF StrictFamily, Meter
<1>. QED BY <1>1, <1>2, <1>3, <1>4, SinksHold

(* layout_strict keeps every record of an inverter in the configured family. *)
THEOREM FamilyIsForced == Spec => []StrictFamily
<1>1. Init => StrictFamily
  BY DEF Init, StrictFamily
<1>2. TypeOK /\ StrictFamily /\ [Next]_vars => StrictFamily'
  BY FamilyStep
<1>. QED BY <1>1, <1>2, TypeCorrect, PTL DEF Spec
-----------------------------------------------------------------------------
(* Only a layout without a serial number is ever spoiled. *)
SpoiledHaveNone == \A name \in spoiled : "pvserial" \notin Loaded[name].keys

SerialInv == SpoiledHaveNone /\ SerialKept

LEMMA SerialStep ==
  ASSUME TypeOK, SerialInv, [Next]_vars
  PROVE  SerialInv'
<1>. USE DEF SerialInv
<1>1. CASE Holds
  BY <1>1 DEF Holds, SpoiledHaveNone, SerialKept
<1>2. ASSUME NEW r \in Records, Unrecognised(r) PROVE SerialInv'
  BY <1>2 DEF Unrecognised, Ignore, Leave, SpoiledHaveNone, SerialKept
<1>3. ASSUME NEW r \in Records, NEW s \in Selected(r),
             Implausible(r, s) \/ Acknowledgement(r, s)
      PROVE  SerialInv'
  BY <1>3 DEF Implausible, Acknowledgement, Ignore, Leave, SpoiledHaveNone, SerialKept
<1>4. ASSUME NEW r \in Records, NEW s \in Selected(r), Decode(r, s)
      PROVE  SerialInv'
  <2>. DEFINE name == s.layout
  <2>1. /\ spoiled' = Spoil(r, name)
        /\ layout' = name
        /\ conf' = conf
        /\ step' = "idle" \/ (record' = r /\ serial' = SerialUsed(r, name))
    BY <1>4 DEF Decode, Leave, Receiving
  <2>2. Defines(r, name, "pvserial") <=> "pvserial" \in Loaded[name].keys
    BY DEF Defines, Keys, SerialKeys, SpoiledHaveNone
  <2>3. SpoiledHaveNone'
    BY <2>1, <2>2 DEF SpoiledHaveNone, Spoil, Defaults
  <2>4. SerialKept'
    BY <2>1, <2>2 DEF SerialKept, SerialUsed, SerialRead, Defaults
  <2>. QED BY <2>3, <2>4
<1>. QED BY <1>1, <1>2, <1>3, <1>4, SinksHold

(* A record is published under its own serial number, if its layout defines one. *)
THEOREM SerialIsKept == Spec => []SerialKept
<1>1. Init => SerialInv
  BY DEF Init, SerialInv, SpoiledHaveNone, SerialKept
<1>2. TypeOK /\ SerialInv /\ [Next]_vars => SerialInv'
  BY SerialStep
<1>3. SerialInv => SerialKept
  BY DEF SerialInv
<1>. QED BY <1>1, <1>2, <1>3, TypeCorrect, PTL DEF Spec
-----------------------------------------------------------------------------
(* The register of the limiter is the second of the last admission. *)
LimiterInv ==
  \A i \in Inverters :
    \/ uploaded[i] = Never /\ register[i] = 0
    \/ /\ uploaded[i] \in 0..now
       /\ register[i] * Second <= uploaded[i]
       /\ uploaded[i] < register[i] * Second + Second

LEMMA LimiterStep ==
  ASSUME TypeOK, LimiterInv, [Next]_vars
  PROVE  LimiterInv'
<1>1. CASE Upload
  <2>1. /\ now' = now
        /\ serial \in Inverters
        /\ register' = [register EXCEPT ![serial] = Stamp]
        /\ uploaded' = [uploaded EXCEPT ![serial] = now]
    BY <1>1 DEF Upload, Offer, At, Admitted, TypeOK
  <2>2. ASSUME NEW i \in Inverters, i # serial
        PROVE  register'[i] = register[i] /\ uploaded'[i] = uploaded[i]
    BY <2>1, <2>2 DEF TypeOK
  <2>3. register'[serial] = Stamp /\ uploaded'[serial] = now
    BY <2>1 DEF TypeOK
  <2>4. now \in 0..now
    BY StampOf
  <2>. QED BY <2>1, <2>2, <2>3, <2>4, StampOf DEF LimiterInv
<1>2. CASE Tick
  <2>1. now \in Nat /\ now' = now + 1 /\ UNCHANGED <<register, uploaded>>
    BY <1>2, StampOf DEF Tick
  <2>2. \A u \in 0..now : u \in 0..(now + 1)
    BY <2>1
  <2>. QED BY <2>1, <2>2 DEF LimiterInv
<1>3. ASSUME ~Upload, ~Tick PROVE UNCHANGED <<register, uploaded, now>>
  <2>1. ASSUME NEW r \in Records, NEW s \in Selected(r),
               Implausible(r, s) \/ Acknowledgement(r, s) \/ Decode(r, s)
        PROVE  UNCHANGED <<register, uploaded, now>>
    BY <2>1 DEF Implausible, Acknowledgement, Decode, Receiving
  <2>2. ASSUME NEW r \in Records, Unrecognised(r)
        PROVE  UNCHANGED <<register, uploaded, now>>
    BY <2>2 DEF Unrecognised, Receiving
  <2>3. ASSUME NEW sink \in Sinks, Skip(sink)
        PROVE  UNCHANGED <<register, uploaded, now>>
    BY <2>3 DEF Skip, At
  <2>4. CASE NoSystem \/ LimiterRefuses \/ NoPoint \/ NoModule
    BY <2>4 DEF NoSystem, LimiterRefuses, NoPoint, NoModule, Refuse, At
  <2>5. CASE PublishMqtt \/ WriteInflux \/ RunExtension
    BY <2>5 DEF PublishMqtt, WriteInflux, RunExtension, Offer, At
  <2>6. CASE UNCHANGED vars
    BY <2>6 DEF vars
  <2>. QED BY <1>3, <2>1, <2>2, <2>3, <2>4, <2>5, <2>6 DEF Next
<1>. QED BY <1>1, <1>2, <1>3 DEF LimiterInv

LEMMA LimiterAlways == Spec => [](TypeOK /\ LimiterInv)
<1>1. Init => LimiterInv
  BY DEF Init, LimiterInv
<1>2. TypeOK /\ LimiterInv /\ [Next]_vars => LimiterInv'
  BY LimiterStep
<1>. QED BY <1>1, <1>2, TypeCorrect, PTL DEF Spec

(* The arithmetic of the limiter: an upload admitted at n, stamped with the
   second q, against the next request at m. *)
LEMMA Spacing ==
  ASSUME NEW n \in Nat, NEW m \in Nat, NEW q \in Nat, NEW k \in Nat, NEW d \in Nat,
         q * d <= n, n < q * d + d
  PROVE  /\ (q + k) * d < m => m - n > (k - 1) * d
         /\ ~((q + k) * d < m) => m - n <= k * d
<1>1. (q + k) * d = q * d + k * d /\ (k - 1) * d = k * d - d
  BY Z3
<1>2. q * d \in Nat /\ k * d \in Nat
  BY Z3
<1>. QED BY <1>1, <1>2, Z3

LEMMA SpacingOf ==
  ASSUME NEW n \in Nat, NEW m \in Nat, NEW q \in Nat, NEW k \in Nat, NEW d \in Nat,
         q * d <= n, n < q * d + d
  PROVE  /\ q = 0 => n < d
         /\ (q = 0 \/ (q + k) * d < m) => (m - n > (k - 1) * d \/ n < d)
         /\ ~(q = 0 \/ (q + k) * d < m) => m - n <= k * d
<1>1. q = 0 => q * d = 0
  BY Z3
<1>2. q = 0 => n < d
  BY <1>1, Z3
<1>. QED BY <1>2, Spacing

(* The limiter's verdict, in terms of the last upload it admitted. *)
LEMMA Verdict ==
  ASSUME TypeOK, LimiterInv, NEW i \in Inverters
  PROVE  /\ OkSend(i) /\ uploaded[i] # Never
              => \/ now - uploaded[i] > (conf.interval - 1) * Second
                 \/ uploaded[i] < Second
         /\ ~OkSend(i)
              => /\ uploaded[i] # Never
                 /\ now - uploaded[i] <= conf.interval * Second
<1>1. Second \in Nat /\ conf.interval \in Nat /\ now \in Nat /\ register[i] \in Nat
  BY TelemetryAssumption, StampOf DEF TypeOK
<1>2. CASE uploaded[i] = Never /\ register[i] = 0
  BY <1>2 DEF OkSend
<1>3. CASE /\ uploaded[i] \in 0..now
           /\ register[i] * Second <= uploaded[i]
           /\ uploaded[i] < register[i] * Second + Second
  <2>1. uploaded[i] \in Nat
    BY <1>1, <1>3
  <2>2. uploaded[i] # Never
    BY <2>1 DEF Never
  <2>. QED BY <1>1, <1>3, <2>1, <2>2, SpacingOf DEF OkSend
<1>. QED BY <1>2, <1>3 DEF LimiterInv

(* Within a record its fate is open. *)
FateOpen == step # "idle" => fate = "none"

LEMMA FateStep ==
  ASSUME FateOpen, [Next]_vars
  PROVE  FateOpen'
<1>. USE DEF FateOpen
<1>1. ASSUME NEW r \in Records, Unrecognised(r) PROVE FateOpen'
  BY <1>1 DEF Unrecognised, Ignore, Leave
<1>2. ASSUME NEW r \in Records, NEW s \in Selected(r),
             Implausible(r, s) \/ Acknowledgement(r, s)
      PROVE  FateOpen'
  BY <1>2 DEF Implausible, Acknowledgement, Ignore, Leave
<1>3. ASSUME NEW r \in Records, NEW s \in Selected(r), Decode(r, s) PROVE FateOpen'
  BY <1>3 DEF Decode, Leave
<1>4. ASSUME NEW sink \in Sinks, Skip(sink) PROVE FateOpen'
  BY <1>4 DEF Skip, At, GoOn, Leave, Sinks
<1>5. CASE PublishMqtt \/ WriteInflux \/ RunExtension
  BY <1>5 DEF PublishMqtt, WriteInflux, RunExtension, Offer, At, GoOn, Leave
<1>6. CASE NoSystem \/ LimiterRefuses \/ NoPoint \/ NoModule
  BY <1>6 DEF NoSystem, LimiterRefuses, NoPoint, NoModule, Leave
<1>7. CASE Upload
  BY <1>7 DEF Upload, Offer, At, GoOn, Leave
<1>8. CASE Tick \/ UNCHANGED vars
  BY <1>8 DEF Tick, vars
<1>. QED BY <1>1, <1>2, <1>3, <1>4, <1>5, <1>6, <1>7, <1>8 DEF Next

(* Behind PVOutput's step the record went on, failed or was refused: which of
   them says what the limiter decided. *)
Decision ==
  /\ (conf.pvoutput /\ (step' = "influx" \/ fate' = "post failed"))
        => (serial \in Inverters /\ OkSend(serial))
  /\ fate' = "refused" => (serial \in Inverters /\ ~OkSend(serial))

LEMMA AtPvoutput ==
  ASSUME TypeOK, FateOpen, [Next]_vars, step = "pvoutput"
  PROVE  Decision
<1>1. CASE Upload \/ LimiterRefuses
  BY <1>1 DEF Upload, LimiterRefuses, Offer, Refuse, GoOn, Leave, Decision, FateOpen, TypeOK
<1>2. CASE NoSystem
  BY <1>2 DEF NoSystem, Leave, Decision
<1>3. ASSUME NEW sink \in Sinks, Skip(sink) PROVE Decision
  <2>1. sink = "pvoutput"
    BY <1>3 DEF Skip, At
  <2>2. ~conf.pvoutput /\ fate' = fate
    BY <1>3, <2>1 DEF Skip, GoOn, Enabled
  <2>. QED BY <2>2 DEF Decision, FateOpen
<1>4. CASE Tick \/ UNCHANGED vars
  BY <1>4 DEF Tick, vars, Decision, FateOpen
<1>5. ASSUME NEW r \in Records, Unrecognised(r) PROVE FALSE
  BY <1>5 DEF Unrecognised, Receiving
<1>6. ASSUME NEW r \in Records, NEW s \in Selected(r) PROVE FALSE
  BY <1>6 DEF Selected
<1>7. CASE PublishMqtt \/ NoPoint \/ WriteInflux \/ NoModule \/ RunExtension
  BY <1>7 DEF PublishMqtt, NoPoint, WriteInflux, NoModule, RunExtension, Offer, Refuse, At
<1>. QED BY <1>1, <1>2, <1>3, <1>4, <1>5, <1>6, <1>7 DEF Next

LEMMA DecisionAlways == Spec => [](TypeOK /\ LimiterInv /\ FateOpen)
<1>1. Init => FateOpen
  BY DEF Init, FateOpen
<1>2. FateOpen /\ [Next]_vars => FateOpen'
  BY FateStep
<1>. QED BY <1>1, <1>2, LimiterAlways, PTL DEF Spec

(* The limiter spaces the uploads of every inverter. *)
THEOREM UploadsAreSpaced == Spec => UploadsSpaced
<1>. DEFINE Spaced ==
       (/\ step = "pvoutput" /\ conf.pvoutput
        /\ step' = "influx" \/ fate' = "post failed"
        /\ uploaded[serial] # Never)
       => \/ now - uploaded[serial] > (conf.interval - 1) * Second
          \/ uploaded[serial] < Second
<1>1. TypeOK /\ LimiterInv /\ FateOpen /\ [Next]_vars => [Spaced]_vars
  <2>. SUFFICES ASSUME TypeOK, LimiterInv, FateOpen, [Next]_vars PROVE Spaced
    OBVIOUS
  <2>. QED BY AtPvoutput, Verdict DEF Decision
<1>. QED BY <1>1, DecisionAlways, PTL DEF Spec, UploadsSpaced

(* It refuses no inverter for longer than the limit. *)
THEOREM RefusalsAreJustified == Spec => RefusalsJustified
<1>. DEFINE Justified ==
       step = "pvoutput" /\ fate' = "refused"
         => /\ uploaded[serial] # Never
            /\ now - uploaded[serial] <= conf.interval * Second
<1>1. TypeOK /\ LimiterInv /\ FateOpen /\ [Next]_vars => [Justified]_vars
  <2>. SUFFICES ASSUME TypeOK, LimiterInv, FateOpen, [Next]_vars PROVE Justified
    OBVIOUS
  <2>. QED BY AtPvoutput, Verdict DEF Decision
<1>. QED BY <1>1, DecisionAlways, PTL DEF Spec, RefusalsJustified
=============================================================================
