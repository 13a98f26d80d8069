------------------------ MODULE ConnectionLifecycle ------------------------
(***************************************************************************)
(* What the proxy promises each data logger that connects to it, with the  *)
(* sockets, futures and registries left out: the connection is either      *)
(* refused at once or waits while the upstream connection is being made,   *)
(* it is then relayed, and it ends; it never becomes usable again after it *)
(* ended, and it is never relayed before it waited.  Several connections   *)
(* may advance in one pass of the event loop.                              *)
(***************************************************************************)
CONSTANT Conn     \* the connections data loggers make

VARIABLE status   \* the stage each connection has reached

Stage == {"new", "connecting", "relayed", "ended"}

(* The stages a connection may be in after one step. *)
Successors(stage) ==
  CASE stage = "new"        -> {"new", "connecting", "ended"}
    [] stage = "connecting" -> {"connecting", "relayed", "ended"}
    [] stage = "relayed"    -> {"relayed", "ended"}
    [] stage = "ended"      -> {"ended"}

Init == status = [c \in Conn |-> "new"]

Next ==
  /\ status' \in [Conn -> Stage]
  /\ \A c \in Conn : status'[c] \in Successors(status[c])

Spec == Init /\ [][Next]_status
=============================================================================
