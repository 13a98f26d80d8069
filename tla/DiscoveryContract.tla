------------------------- MODULE DiscoveryContract -------------------------
(***************************************************************************)
(* What the Home Assistant extension promises about the retained discovery *)
(* topics of each device, with layouts, profiles, batches and retries left *)
(* out: the topics of a device's current entity set are all retained before *)
(* the set is taken as current, and as long as it is, none of them is       *)
(* removed.  Forgetting which sets are current (a restart) removes nothing. *)
(***************************************************************************)
CONSTANTS
  Device,   \* device serials
  Key       \* attribute names, one discovery topic each

VARIABLES
  wanted,   \* the current entity set of each device, {} when there is none
  kept      \* the attributes whose discovery topic the broker retains

Init ==
  /\ wanted = [d \in Device |-> {}]
  /\ kept \in [Device -> SUBSET Key]

Untouched(others) == \A e \in others : wanted'[e] = wanted[e] /\ kept'[e] = kept[e]

(* More topics of one device are published. *)
Announce(d) ==
  /\ wanted'[d] = wanted[d]
  /\ kept[d] \subseteq kept'[d]

(* Another entity set becomes current, once its topics are all retained. *)
Adopt(d) ==
  /\ kept[d] \subseteq kept'[d]
  /\ wanted'[d] \subseteq kept'[d]

(* Topics nobody wants are removed. *)
Remove(d) ==
  /\ wanted'[d] = wanted[d]
  /\ kept'[d] \subseteq kept[d]
  /\ wanted[d] \cap kept[d] \subseteq kept'[d]

Forget ==
  /\ wanted' = [d \in Device |-> {}]
  /\ UNCHANGED kept

Next ==
  /\ wanted' \in [Device -> SUBSET Key] /\ kept' \in [Device -> SUBSET Key]
  /\ \/ Forget
     \/ \E d \in Device :
          /\ Untouched(Device \ {d})
          /\ Announce(d) \/ Adopt(d) \/ Remove(d)

Spec == Init /\ [][Next]_<<wanted, kept>>

(* Every topic of a current entity set is retained. *)
WantedKept == \A d \in Device : wanted[d] \subseteq kept[d]
=============================================================================
