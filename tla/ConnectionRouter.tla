-------------------------- MODULE ConnectionRouter --------------------------
(***************************************************************************)
(* What the device server promises about its registries, with addresses,   *)
(* ports and socket events left out: every connection in service has one   *)
(* mailbox of its own, which ends with it; a reply to a record goes to the *)
(* mailbox of the connection the record came on, in order; and the         *)
(* directory leads from a data logger to the connection it enrolled on     *)
(* last, for exactly as long as that connection is in service.             *)
(***************************************************************************)
EXTENDS Sequences

CONSTANTS
  Connection,   \* the connections data loggers make
  Name,         \* the data loggers
  Client        \* the origin of a command of an HTTP client

VARIABLES
  enrolled,     \* connection in service -> the data logger at its other end
  mailbox,      \* connection in service -> the origins of its messages
  directory     \* data logger -> the connection it enrolled on last

routerVars == <<enrolled, mailbox, directory>>

InService == DOMAIN enrolled

Init == InService = {} /\ DOMAIN mailbox = {} /\ DOMAIN directory = {}

(* The connections of gone leave service, with what was theirs. *)
Kept(gone) == {l \in DOMAIN directory : directory[l] \notin gone}

Serve(c, l, gone) ==
  /\ c \notin InService
  /\ enrolled' = [d \in (InService \ gone) \cup {c} |-> IF d = c THEN l ELSE enrolled[d]]
  /\ mailbox' = [d \in (InService \ gone) \cup {c} |-> IF d = c THEN <<>> ELSE mailbox[d]]
  /\ directory' = [k \in Kept(gone) |-> directory[k]]

Close(c) ==
  /\ enrolled' = [d \in InService \ {c} |-> enrolled[d]]
  /\ mailbox' = [d \in InService \ {c} |-> mailbox[d]]
  /\ directory' = [k \in Kept({c}) |-> directory[k]]

(* A record is answered, and perhaps announces its data logger. *)
Reply(c) ==
  /\ mailbox' = [mailbox EXCEPT ![c] = Append(@, c)]
  /\ \/ directory' = [k \in DOMAIN directory \cup {enrolled[c]} |->
                        IF k = enrolled[c] THEN c ELSE directory[k]]
     \/ UNCHANGED directory
  /\ UNCHANGED enrolled

(* A client's command is posted to a connection in service. *)
Post(c) ==
  /\ mailbox' = [mailbox EXCEPT ![c] = Append(@, Client)]
  /\ UNCHANGED <<enrolled, directory>>

(* The oldest message leaves. *)
Deliver(c) ==
  /\ mailbox[c] # <<>>
  /\ mailbox' = [mailbox EXCEPT ![c] = Tail(@)]
  /\ UNCHANGED <<enrolled, directory>>

Next ==
  \/ \E c \in Connection, l \in Name, gone \in SUBSET InService : Serve(c, l, gone)
  \/ \E c \in InService : Close(c) \/ Reply(c) \/ Post(c) \/ Deliver(c)

Spec == Init /\ [][Next]_routerVars
=============================================================================
