------------------------- MODULE MCProxyConnections -------------------------
(***************************************************************************)
(* ProxyConnections for TLC.  The connections are model values, not        *)
(* exchanged by a symmetry, which would be unsound for the liveness        *)
(* properties.                                                             *)
(***************************************************************************)
EXTENDS ProxyConnections
=============================================================================
