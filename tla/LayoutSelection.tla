--------------------------- MODULE LayoutSelection ---------------------------
(***************************************************************************)
(* grottlayout.py, and the lookup at the head of grottdata.procdata: the   *)
(* layout a record is decoded with.  A layout is named                     *)
(*   [class, token, family]   for   "T" + protocol [+ "X"], the device and *)
(* record type or "NNNN", and the inverter family ("" if none).            *)
(*                                                                         *)
(* The bytes of a record matter through what each layout reads in them:    *)
(*   "none"  the field cannot be read                                      *)
(*   "zero"  0; for pvpowerout anything up to 100 W                        *)
(*   "in"    a plausible value, or a printable serial number               *)
(*   "out"   an implausible value (above the range), an unprintable serial *)
(***************************************************************************)
EXTENDS Integers, Sequences, FiniteSets

CONSTANTS
  Loaded,       \* conf.recorddict as set_reclayouts built it: for each name its
                \* keys, those that are excluded left out, and what it defines
  Families,     \* KNOWN_FAMILIES, a sequence
  Reads,        \* what each layout reads in the data of a record, key by key
  GenericTypes, \* GENERIC_FALLBACK_RECORDS
  MeterTypes,   \* the record types of smart meters
  NoLayout,     \* "none", for a record no layout is defined for
  NoSerial      \* the serial number of a layout for a device

SerialKeys  == {"datalogserial", "pvserial"}
PowerKeys   == {"pvpowerin", "pvpowerout", "pv1watt", "pv2watt", "pvgridpower"}
VoltageKeys == {"pvgridvoltage", "pvgridvoltage2", "pvgridvoltage3",
                "pv1voltage", "pv2voltage", "pvfrequentie"}
EnergyKeys  == {"pvenergytoday", "pvenergytotal", "epvtotal", "epv1today",
                "epv2today"}
BatteryKeys == {"SOC", "vbat", "batterytype", "bmsbatteryvolt", "bmsbatterycurr"}

Meter(r) == r.type \in MeterTypes

-----------------------------------------------------------------------------
(* The names a record is tried under. *)
Base(r) == [class |-> r.class, token |-> r.token, family |-> ""]

Generic(r, name) ==
  IF r.type \in GenericTypes THEN [name EXCEPT !.token = "NNNN"] ELSE name

WithFamily(name, family) ==
  IF family = "DEFAULT" THEN name ELSE [name EXCEPT !.family = family]

Candidate(name, preferred) == [layout |-> name, preferred |-> preferred]

InFamily(r, family) ==
  << Candidate(WithFamily(Generic(r, Base(r)), family), TRUE),
     Candidate(WithFamily(Base(r), family), TRUE) >>

ConfiguredFirst(conf, r) ==
  IF conf.invtype # "DEFAULT" /\ ~Meter(r) THEN InFamily(r, conf.invtype) ELSE <<>>

Mapped(conf, r) ==
  IF r.extracted \in DOMAIN conf.invtypemap /\ ~Meter(r)
    THEN InFamily(r, conf.invtypemap[r.extracted])
    ELSE <<>>

Automatic(conf, r) ==
  IF conf.layout_auto_family /\ ~conf.layout_strict /\ ~Meter(r)
    THEN [i \in DOMAIN Families |->
            Candidate(WithFamily(Generic(r, Base(r)), Families[i]), FALSE)]
    ELSE <<>>

(* Mutant: the strict return is forgotten. *)
BuildCandidateLayouts_NotStrict(conf, r) ==
  ConfiguredFirst(conf, r) \o Mapped(conf, r)
    \o << Candidate(Base(r), FALSE), Candidate(Generic(r, Base(r)), FALSE) >>
    \o Automatic(conf, r)

(* build_candidate_layouts, before _append_unique drops a name that is there. *)
BuildCandidateLayouts(conf, r) ==
  IF conf.layout_strict /\ ConfiguredFirst(conf, r) # <<>>
    THEN ConfiguredFirst(conf, r)
    ELSE ConfiguredFirst(conf, r) \o Mapped(conf, r)
           \o << Candidate(Base(r), FALSE), Candidate(Generic(r, Base(r)), FALSE) >>
           \o Automatic(conf, r)

(* procdata's own lookup: the exact name, else the generic one. *)
ExactName(conf, r) ==
  IF conf.layout_strict /\ ~Meter(r) THEN WithFamily(Base(r), conf.invtype) ELSE Base(r)

Lookup(conf, r) ==
  LET exact == ExactName(conf, r)
  IN  IF exact \in DOMAIN Loaded THEN exact
      ELSE IF Generic(r, exact) \in DOMAIN Loaded THEN Generic(r, exact)
      ELSE NoLayout
-----------------------------------------------------------------------------
(* "spoiled" is the set of layouts to which procdata has added an entry for
   pvserial without a length: the field is defined there, and cannot be read. *)
Keys(spoiled, name) ==
  Loaded[name].keys \cup (IF name \in spoiled THEN {"pvserial"} ELSE {})

(* parse_layout_values, for one key. *)
Reading(spoiled, r, name, key) ==
  IF key = "pvserial" /\ name \in spoiled THEN "none" ELSE Reads[r.data][name][key]

Count(spoiled, r, name, keys, readings) ==
  Cardinality({k \in Keys(spoiled, name) \cap keys :
                 Reading(spoiled, r, name, k) \in readings})

AtMost(n, limit) == IF n < limit THEN n ELSE limit

(* score_layout.  An empty battery counts when the inverter delivers power. *)
Score(spoiled, r, candidate) ==
  LET name == candidate.layout
      count(keys, readings) == Count(spoiled, r, name, keys, readings)
  IN  15 * count(SerialKeys, {"in"}) - 35 * count(SerialKeys, {"zero", "out", "none"})
        + 5 * count(PowerKeys, {"zero", "in"}) - 20 * count(PowerKeys, {"out"})
        + 4 * count(VoltageKeys, {"zero", "in"}) - 18 * count(VoltageKeys, {"out"})
        + 3 * count(EnergyKeys, {"zero", "in"}) - 20 * count(EnergyKeys, {"out"})
        + 8 * count({"SOC"}, {"in"}) - 20 * count({"SOC"}, {"zero", "out"})
        - (IF count({"pvpowerout"}, {"in", "out"}) = 1 /\ count(BatteryKeys, {"zero"}) >= 2
             THEN 25 ELSE 0)
        + (IF name.token = "NNNN" \/ (r.extended /\ name.family = "") THEN 3 ELSE 0)
        + (IF candidate.preferred THEN 4 ELSE 0)
        - AtMost(3 * count(Keys(spoiled, name), {"none"}), 30)

(* The candidates that are defined, each where it first appears. *)
Tried(cs) ==
  {i \in DOMAIN cs : /\ cs[i].layout \in DOMAIN Loaded
                     /\ \A j \in 1..(i - 1) : cs[j].layout # cs[i].layout}

(* select_layout: the first of the best candidates if it scores enough or is
   the layout of the lookup, otherwise the layout of the lookup with the score
   of the best. *)
SelectLayout(conf, spoiled, r, current) ==
  LET cs == BuildCandidateLayouts(conf, r)
      scored == {[score |-> Score(spoiled, r, cs[i]), at |-> i] : i \in Tried(cs)}
      best == {a \in scored : \A b \in scored :
                 b.score < a.score \/ (b.score = a.score /\ a.at <= b.at)}
      enough(a) == a.score >= conf.layout_min_score \/ cs[a.at].layout = current
  IN  IF best = {} THEN {[layout |-> current, score |-> 0]}
      ELSE {[layout |-> IF enough(a) THEN cs[a.at].layout ELSE current,
             score |-> a.score] : a \in best}

(* layout_selection_is_usable *)
Usable(conf, r, selection) ==
  \/ Meter(r)
  \/ conf.layout_min_score <= 0
  \/ selection.score >= conf.layout_min_score
=============================================================================
