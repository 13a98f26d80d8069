--------------------------- MODULE MCHaDiscovery ---------------------------
(***************************************************************************)
(* HaDiscovery for TLC: the generic and the MOD layout, a battery layout   *)
(* without a profile that shares attributes with MOD, and one device.    *)
(*                                                                         *)
(*   pvpowerout   standard, read from pac on MOD                           *)
(*   pac          a MOD value shown as pvpowerout                          *)
(*   raw          what MOD's own pvpowerout is shown as                    *)
(*   epv          a MOD value outside the standard set                     *)
(*   extra        a generic value with incl = "no"                         *)
(***************************************************************************)
EXTENDS HaDiscovery

MCKey            == {"pvpowerout", "pac", "raw", "epv", "extra"}
MCStandardSource == [k \in {"pvpowerout"} |-> "pac"]
MCDefined        == [X |-> {"pvpowerout", "extra"}, MOD |-> {"pvpowerout", "pac", "epv"}]
MCIncluded       == [X |-> {"pvpowerout"}, MOD |-> {"pvpowerout", "pac", "epv"}]
MCIdentity ==
  [X   |-> [k \in MCKey |-> k],
   MOD |-> [k \in MCKey |-> CASE k = "pac"        -> "pvpowerout"
                              [] k = "pvpowerout" -> "raw"
                              [] OTHER            -> k]]
MCValues  == [SPH |-> {{"epv"}, {"pvpowerout", "epv"}}]
MCOptions == {[profile |-> "standard", includeall |-> FALSE],
              [profile |-> "all", includeall |-> FALSE],
              [profile |-> "all", includeall |-> TRUE],
              [profile |-> "invalid", includeall |-> FALSE]}
=============================================================================
