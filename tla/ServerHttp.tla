----------------------------- MODULE ServerHttp -----------------------------
(***************************************************************************)
(* grottserver.GrottHttpRequestHandler, composed with the device thread of *)
(* GrottServer.  HTTPServer serves one request at a time on a thread of    *)
(* its own: a command is looked up, addressed, queued, and its answer      *)
(* waited for in commandresponse.  No lock orders the two threads, so each *)
(* access to a shared registry that can go wrong is a step.                *)
(*                                                                         *)
(* GET reads: 05 from an inverter, 19 from a data logger.  PUT writes: 06  *)
(* or 10 (several registers) to an inverter, 18 to a data logger.  A       *)
(* request refused for its own text (no command, no register, a value out  *)
(* of range) leaves the registries alone and is not modelled, nor are the  *)
(* pages and the dumps of the registries.  An exception in the handler     *)
(* ends the request without a response: "dropped".                         *)
(***************************************************************************)
EXTENDS GrottServer

CONSTANTS
  Requests,         \* [command, id, register]: what clients may ask for
  DataloggerPolls,  \* MaxDataloggerResponseWait / ResponseWaitInterval
  InverterPolls,    \* MaxInverterResponseWait / ResponseWaitInterval
  MaxCommands       \* bound: commands in a send queue when a request arrives

ASSUME HttpAssumption ==
  /\ DataloggerPolls \in Nat \ {0}
  /\ InverterPolls \in Nat \ {0}
  /\ MaxCommands \in Nat
  /\ None \notin Requests
  /\ \A r \in Requests :
       /\ r = [command |-> r.command, id |-> r.id, register |-> r.register]
       /\ r.command \in Command
       /\ r.id \in IF r.command \in {"18", "19"} THEN Name ELSE Inverter

VARIABLES
  step,       \* "idle", "lookup", "address", "queue", "delete", "wait"
  request,    \* the request being served, or None
  target,     \* dataloggerid, or None
  qname,      \* the peer the queue name was built from, or None
  polls,      \* iterations of the wait loop that are over
  comresp,    \* whether the local variable is bound
  reply       \* history: the outcome of the last request; None during one

httpVars == <<step, request, target, qname, polls, comresp, reply>>
vars     == <<serverVars, httpVars>>

HttpInit ==
  /\ step = "idle"
  /\ request = None /\ target = None /\ qname = None
  /\ polls = 0 /\ comresp = FALSE
  /\ reply = None

\* regkey, with the command whose answers it is filed under.
Regkey == <<request.command, request.register>>

\* A request to the data logger itself is known by its name, one to an
\* inverter by an inverter registered with a data logger.
Candidates ==
  {l \in DOMAIN loggerreg :
     \/ request.command \in {"18", "19"} /\ l = request.id
     \/ request.command \notin {"18", "19"} /\ request.id \in loggerreg[l].inverters}

\* The request ends, and with it the local variables of its handler.
EndWith(r) ==
  /\ step' = "idle"
  /\ reply' = r
  /\ request' = None /\ target' = None /\ qname' = None
  /\ polls' = 0 /\ comresp' = FALSE

Unsent(p) == {i \in DOMAIN send_queuereg[p] : send_queuereg[p][i] = Http}

Receive ==
  /\ step = "idle"
  /\ \A p \in DOMAIN send_queuereg : Cardinality(Unsent(p)) <= MaxCommands
  /\ \E r \in Requests : request' = r
  /\ step' = "lookup"
  /\ reply' = None
  /\ UNCHANGED <<serverVars, target, qname, polls, comresp>>

\* Which data logger?  Among several, the last one in the dictionary.
Lookup ==
  /\ step = "lookup"
  /\ IF Candidates = {}
     THEN EndWith("refused")
     ELSE /\ target' \in Candidates
          /\ step' = "address"
          /\ UNCHANGED <<request, qname, polls, comresp, reply>>
  /\ UNCHANGED serverVars

\* The command is built and the queue name made up, from what loggerreg has
\* by now: if the entry or its inverter went, KeyError.
Address ==
  /\ step = "address"
  /\ IF target \in Candidates
     THEN /\ qname' = loggerreg[target].peer
          /\ step' = "queue"
          /\ UNCHANGED <<request, target, polls, comresp, reply>>
     ELSE EndWith("dropped")
  /\ UNCHANGED serverVars

\* send_queuereg[qname].put(body): if the queue went, KeyError.
QueueCommand ==
  /\ step = "queue"
  /\ IF qname \in DOMAIN send_queuereg
     THEN /\ send_queuereg' = [send_queuereg EXCEPT ![qname] = Append(@, Http)]
          /\ stored' = {}
          /\ step' = "delete"
          /\ UNCHANGED <<request, target, qname, polls, comresp, reply>>
     ELSE /\ EndWith("dropped")
          /\ UNCHANGED <<send_queuereg, stored>>
  /\ UNCHANGED <<world, sockets, batch, loggerreg, commandresponse>>

\* Mutant: a write deletes the answer of the read, as an answer "18" is
\* called "19" elsewhere.
DeleteOld_Reads ==
  /\ step = "delete"
  /\ commandresponse' = Without(commandresponse,
       {<<IF request.command = "18" THEN "19" ELSE "05", request.register>>})
  /\ step' = "wait"
  /\ UNCHANGED <<world, sockets, batch, send_queuereg, loggerreg, stored, request,
                 target, qname, polls, comresp, reply>>

\* Only now is the answer of an earlier request deleted, if there is one.
DeleteOld ==
  /\ step = "delete"
  /\ commandresponse' = Without(commandresponse, {Regkey})
  /\ step' = "wait"
  /\ UNCHANGED <<world, sockets, batch, send_queuereg, loggerreg, stored, request,
                 target, qname, polls, comresp, reply>>

Wait == IF request.command \in {"05", "06"} THEN InverterPolls ELSE DataloggerPolls

Answered == Regkey \in DOMAIN commandresponse

\* What ends the wait loop before its time: GET replies with a value it can
\* decode.  PUT leaves the loop, unless several registers were written: the
\* message printed for them names a variable that is not bound.
Satisfied ==
  /\ Answered
  /\ CASE request.command = "05" -> commandresponse[Regkey].clean
       [] request.command = "10" -> FALSE
       [] OTHER -> TRUE

\* Mutant: an answer that cannot be used is read again at once.
Poll_Again ==
  /\ step = "wait"
  /\ polls < Wait
  /\ IF Satisfied
     THEN EndWith("ok")
     ELSE /\ polls' = IF Answered THEN polls ELSE polls + 1
          /\ comresp' = (comresp \/ Answered)
          /\ UNCHANGED <<step, request, target, qname, reply>>
  /\ UNCHANGED serverVars

\* One iteration of the wait loop, with its sleep.
Poll ==
  /\ step = "wait"
  /\ polls < Wait
  /\ IF Satisfied
     THEN EndWith("ok")
     ELSE /\ polls' = polls + 1
          /\ comresp' = (comresp \/ Answered)
          /\ UNCHANGED <<step, request, target, qname, reply>>
  /\ UNCHANGED serverVars

\* Mutant: whatever was or was not seen, the reply is OK.
GiveUp_Ok ==
  /\ step = "wait"
  /\ polls = Wait
  /\ EndWith("ok")
  /\ UNCHANGED serverVars

\* Behind the loop: an answer that was seen is passed on as it is.
GiveUp ==
  /\ step = "wait"
  /\ polls = Wait
  /\ EndWith(IF comresp THEN "ok" ELSE "noresponse")
  /\ UNCHANGED serverVars

HttpThread ==
  Receive \/ Lookup \/ Address \/ QueueCommand \/ DeleteOld \/ Poll \/ GiveUp

\* A step of a request under way; whether a client asks again is its choice.
Serve == Lookup \/ Address \/ QueueCommand \/ DeleteOld \/ Poll \/ GiveUp

Next ==
  \/ HttpThread
  \/ ServerNext /\ UNCHANGED httpVars

\* Both threads run for ever, and neither waits for the other.
Spec ==
  /\ Init /\ HttpInit
  /\ [][Next]_vars
  /\ WF_vars(Serve)
  /\ WF_vars(DeviceThread /\ UNCHANGED httpVars)

-----------------------------------------------------------------------------
(* Properties *)

\* Types, with what is known at each step of a request.
HttpTypeOK ==
  /\ step \in {"idle", "lookup", "address", "queue", "delete", "wait"}
  /\ request \in Requests \cup {None} /\ (step = "idle" <=> request = None)
  /\ target \in Name \cup {None}
  /\ step \notin {"idle", "lookup"} => target # None
  /\ qname \in Peer \cup {None}
  /\ step \in {"queue", "delete", "wait"} => qname # None
  /\ polls \in Nat /\ comresp \in BOOLEAN
  /\ step = "wait" => polls <= Wait
  /\ reply \in {None, "ok", "refused", "dropped", "noresponse"}

\* A request that waits never takes the answer an earlier request left behind
\* for its own: what it sees was stored after its command was queued.
AnswerIsFresh ==
  step = "wait" /\ (comresp \/ Answered) => Regkey \in stored

\* The client is told OK only if an answer for its command and register was
\* stored after its command was queued.
OkIsAnswered ==
  [][step = "wait" /\ step' = "idle" /\ reply' = "ok" => Regkey \in stored]_vars

\* Every request ends, answered or not, whatever the data loggers do and
\* whichever connection goes away in the meantime.
RequestEnds == step # "idle" ~> step = "idle"
=============================================================================
