----------------------------- MODULE GrottServer -----------------------------
(***************************************************************************)
(* grottserver.sendrecvserver: the thread that stands in for the Growatt   *)
(* cloud.  It accepts data loggers, acknowledges their records, sends what *)
(* is queued for them, and keeps which data logger is behind which peer.   *)
(* The registries it shares with the HTTP thread (module ServerHttp) are   *)
(* send_queuereg, loggerreg and commandresponse.                           *)
(*                                                                         *)
(* One action per handler call.  Handlers run to the end one at a time; an *)
(* announcement is two actions, because process_data sleeps a second       *)
(* between its acknowledgement and the time command.                       *)
(*                                                                         *)
(* A peer is the (address, port) pair and stands for the queue name built  *)
(* from it.  A socket is a socket object: an accepted connection is a new  *)
(* object, also when its peer was seen before.  process_data takes what    *)
(* one recv() returned for one record: a record behind the first one of a  *)
(* chunk is not seen, and a chunk that is cut, or begins within a record,  *)
(* is taken for what its bytes 7 to 17 happen to hold.                     *)
(***************************************************************************)
EXTENDS Naturals, Sequences, FiniteSets

CONSTANTS
  Socket,        \* the socket objects accept() returns
  Peer,          \* the (address, port) pairs data loggers connect from
  Logger,        \* data logger names
  Inverter,      \* inverter names, with those read from such chunks
  None,          \* "not assigned"
  Http,          \* the origin of a message the HTTP thread queued
  Answers,       \* the <<command, register>> pairs data loggers answer
  TimeRegister,  \* register 31
  Garbled,       \* the names process_data reads from chunks that are cut or
                 \* begin within a record; none if there are no such chunks
  MaxQueue,      \* bound: messages in one send queue
  MaxEvents      \* bound: events one select() reports, besides dead sockets

Command == {"05", "06", "10", "18", "19"}

\* What loggerreg may have for a key.
Name == Logger \cup Garbled

\* Every chunk recv() returns begins with a record and holds its name.
WholeRecords == Garbled = {}

ASSUME ServerAssumption ==
  /\ IsFiniteSet(Socket)
  /\ None \notin Socket \cup Peer \cup Name
  /\ Http \notin Socket
  /\ \A k \in Answers : k[1] \in Command /\ k = <<k[1], k[2]>>
  /\ MaxQueue \in Nat
  /\ MaxEvents \in Nat

VARIABLES
  \* the world
  net,              \* "new", "open", "fin" or "reset" by the peer, "closed"
  addr,             \* the remote address of a socket, or None
  owner,            \* the data logger at the other end, or None
  backlog,          \* connections accept() has not returned yet
  \* the sendrecvserver object
  inputs,           \* the sockets select() watches for reading
  outputs,          \* the sockets select() watches for writing
  peers,            \* socket -> peer, for the accepted sockets
  \* the registries shared with the HTTP thread
  send_queuereg,    \* peer -> messages to send, each known by its origin
  loggerreg,        \* data logger -> its peer and its inverters
  commandresponse,  \* <<command, register>> -> answer
  \* what run() still has to handle of the last select()
  accepting, readable, writable, exceptional,
  announcing,       \* the socket whose announcement is being processed
  \* history
  stored            \* keys stored since the last HTTP command was queued

world      == <<net, addr, owner, backlog>>
sockets    == <<inputs, outputs, peers>>
registries == <<send_queuereg, loggerreg, commandresponse, stored>>
batch      == <<accepting, readable, writable, exceptional, announcing>>
serverVars == <<world, sockets, registries, batch>>

ExtendedBy(f, k, v) == [x \in DOMAIN f \cup {k} |-> IF x = k THEN v ELSE f[x]]
Without(f, S)       == [x \in DOMAIN f \ S |-> f[x]]
EmptyDict           == [x \in {} |-> None]

Init ==
  /\ net = [s \in Socket |-> "new"]
  /\ addr = [s \in Socket |-> None]
  /\ owner = [s \in Socket |-> None]
  /\ backlog = <<>>
  /\ inputs = {} /\ outputs = {} /\ peers = EmptyDict
  /\ send_queuereg = EmptyDict /\ loggerreg = EmptyDict
  /\ commandresponse = EmptyDict
  /\ accepting = FALSE
  /\ readable = {} /\ writable = {} /\ exceptional = {}
  /\ announcing = None
  /\ stored = {}

-----------------------------------------------------------------------------
(* The data loggers and the network. *)

\* A data logger connects.  The kernel lets the address pair be used again
\* as soon as no connection that may still carry data has it.
Dial(s, p, l) ==
  /\ net[s] = "new"
  /\ \A t \in Socket : addr[t] = p => net[t] \notin {"open", "fin"}
  /\ net' = [net EXCEPT ![s] = "open"]
  /\ addr' = [addr EXCEPT ![s] = p]
  /\ owner' = [owner EXCEPT ![s] = l]
  /\ backlog' = Append(backlog, s)
  /\ UNCHANGED <<sockets, registries, batch>>

\* The data logger closes in order, and all it sent before was read.
Fin(s) ==
  /\ net[s] = "open"
  /\ net' = [net EXCEPT ![s] = "fin"]
  /\ UNCHANGED <<addr, owner, backlog, sockets, registries, batch>>

\* The connection is reset, by the peer or by TCP keepalive.
Reset(s) ==
  /\ net[s] \in {"open", "fin"}
  /\ net' = [net EXCEPT ![s] = "reset"]
  /\ UNCHANGED <<addr, owner, backlog, sockets, registries, batch>>

-----------------------------------------------------------------------------
(* close_connection *)

\* Mutant: compares "ip" alone, and all data loggers are behind one address.
Registered_ByHost(p) == DOMAIN loggerreg

Registered(p) == {l \in DOMAIN loggerreg : loggerreg[l].peer = p}

\* Mutant: the registrations of a closed connection stay.
ForgetLoggers_Never(p, n) == loggerreg' = loggerreg

\* The loop over loggerreg leaves at the first entry of the peer: closing n
\* sockets of p deletes at most n of its entries.
ForgetLoggers(p, n) ==
  \E gone \in SUBSET Registered(p) :
    /\ Cardinality(gone) <= n
    /\ \/ Cardinality(gone) = n
       \/ gone = Registered(p)
    /\ loggerreg' = Without(loggerreg, gone)

Close(s) ==
  /\ net' = [net EXCEPT ![s] = "closed"]
  /\ inputs' = inputs \ {s}
  /\ outputs' = outputs \ {s}
  /\ peers' = Without(peers, {s})
  /\ IF s \in DOMAIN peers
     THEN /\ send_queuereg' = Without(send_queuereg, {peers[s]})
          /\ ForgetLoggers(peers[s], 1)
     ELSE UNCHANGED <<send_queuereg, loggerreg>>
  /\ UNCHANGED <<commandresponse, stored>>

-----------------------------------------------------------------------------
(* run: one select(), then its readable, writable and exceptional sockets *)

Idle ==
  /\ ~accepting /\ announcing = None
  /\ readable = {} /\ writable = {} /\ exceptional = {}

Dead(S) == {s \in S : net[s] \in {"fin", "reset"}}

\* select() always reports a socket whose peer is gone; the listening
\* socket is the first of inputs and so the first it returns.
Select ==
  /\ Idle
  /\ accepting' = (backlog # <<>>)
  /\ \E chunks \in SUBSET (inputs \ Dead(inputs)), room \in SUBSET outputs,
        urgent \in SUBSET inputs :
       /\ Cardinality(chunks) + Cardinality(room) + Cardinality(urgent) <= MaxEvents
       /\ readable' = Dead(inputs) \cup chunks
       /\ writable' = room
       /\ exceptional' = urgent
  /\ UNCHANGED <<world, sockets, registries, announcing>>

\* Mutant: publishes the new connection without retiring the old one.
Accept_NoRetire ==
  /\ accepting
  /\ accepting' = FALSE
  /\ LET s == Head(backlog) IN
     /\ inputs' = inputs \cup {s}
     /\ outputs' = outputs \cup {s}
     /\ peers' = ExtendedBy(peers, s, addr[s])
     /\ send_queuereg' = ExtendedBy(send_queuereg, addr[s], <<>>)
  /\ backlog' = Tail(backlog)
  /\ UNCHANGED <<net, addr, owner, loggerreg, commandresponse, stored, readable,
                 writable, exceptional, announcing>>

\* Mutant: retires every connection from the address, whatever its port.
Accept_RetiresAll ==
  /\ accepting
  /\ accepting' = FALSE
  /\ LET s == Head(backlog) IN
     /\ net' = [t \in Socket |-> IF t \in DOMAIN peers THEN "closed" ELSE net[t]]
     /\ inputs' = {s}
     /\ outputs' = {s}
     /\ peers' = [t \in {s} |-> addr[s]]
     /\ send_queuereg' = [p \in {addr[s]} |-> <<>>]
     /\ loggerreg' = EmptyDict
  /\ backlog' = Tail(backlog)
  /\ UNCHANGED <<addr, owner, commandresponse, stored, readable, writable,
                 exceptional, announcing>>

\* handle_new_connection: retires what is registered under the same peer,
\* then publishes the new connection with an empty queue.
Accept ==
  /\ accepting
  /\ accepting' = FALSE
  /\ LET s       == Head(backlog)
         retired == {t \in DOMAIN peers : peers[t] = addr[s]}
     IN
     /\ net' = [t \in Socket |-> IF t \in retired THEN "closed" ELSE net[t]]
     /\ inputs' = (inputs \ retired) \cup {s}
     /\ outputs' = (outputs \ retired) \cup {s}
     /\ peers' = ExtendedBy(Without(peers, retired), s, addr[s])
     /\ send_queuereg' = ExtendedBy(send_queuereg, addr[s], <<>>)
     /\ ForgetLoggers(addr[s], Cardinality(retired))
  /\ backlog' = Tail(backlog)
  /\ UNCHANGED <<addr, owner, commandresponse, stored, readable, writable,
                 exceptional, announcing>>

-----------------------------------------------------------------------------
(* handle_readable_socket and process_data *)

Reading(s) ==
  /\ ~accepting /\ announcing = None
  /\ s \in readable
  /\ readable' = readable \ {s}
  /\ UNCHANGED <<accepting, writable, exceptional>>

\* Mutant: an exception in recv() is logged, and the socket kept.
PeerGone_OnlyEof(s) ==
  /\ Reading(s)
  /\ net[s] # "open"
  /\ IF net[s] = "fin"
     THEN Close(s)
     ELSE UNCHANGED <<net, sockets, registries>>
  /\ UNCHANGED <<addr, owner, backlog, announcing>>

\* recv() returns nothing or raises: the peer is gone, or the socket was
\* closed earlier in this pass.
PeerGone(s) ==
  /\ Reading(s)
  /\ net[s] # "open"
  /\ Close(s)
  /\ UNCHANGED <<addr, owner, backlog, announcing>>

\* recv() returns a chunk.
Received(s) ==
  /\ Reading(s)
  /\ net[s] = "open"
  /\ UNCHANGED <<world, sockets>>

QueueFull(s, n) == Len(send_queuereg[addr[s]]) + n > MaxQueue

\* Mutant: answers go to the peer the data logger is enrolled with.
Put_ByLogger(s, m) ==
  LET p == IF owner[s] \in DOMAIN loggerreg THEN loggerreg[owner[s]].peer ELSE addr[s]
  IN send_queuereg' = [send_queuereg EXCEPT ![p] = Append(@, m)]

\* The queue is named after the peer that getpeername() reports.
Put(s, m) == send_queuereg' = [send_queuereg EXCEPT ![addr[s]] = Append(@, m)]

\* loggerid is what bytes 8 to 17 of the chunk hold.  That is the name of the
\* data logger, unless the chunk is cut (in its name: the name's beginning, in
\* its header: nothing, and the missing type counts as a ping) or begins within
\* a record (whatever is there, if byte 7 says ping or announcement).
LoggerNames(s) == {owner[s]} \cup Garbled

\* loggerreg[l].update(...), or a new entry; then the inverters found.
Enrol(l, p, found) ==
  loggerreg' = ExtendedBy(loggerreg, l,
    [peer |-> p,
     inverters |-> found \cup
       (IF l \in DOMAIN loggerreg THEN loggerreg[l].inverters ELSE {})])

\* Record type 16, or no type at all: echoed, and the data logger enrolled.
Ping(s) ==
  /\ Received(s)
  /\ ~QueueFull(s, 1)
  /\ \E l \in LoggerNames(s) : Enrol(l, addr[s], {})
  /\ Put(s, s)
  /\ UNCHANGED <<commandresponse, stored, announcing>>

\* Record types 04, 50, 1b and 20: acknowledged.
Data(s) ==
  /\ Received(s)
  /\ ~QueueFull(s, 1)
  /\ Put(s, s)
  /\ UNCHANGED <<loggerreg, commandresponse, stored, announcing>>

\* Record type 03: data logger and inverter are enrolled, the record is
\* acknowledged, and the thread sleeps.
Announce(s) ==
  /\ Received(s)
  /\ ~QueueFull(s, 2)
  /\ \E l \in LoggerNames(s), i \in Inverter : Enrol(l, addr[s], {i})
  /\ Put(s, s)
  /\ announcing' = s
  /\ UNCHANGED <<commandresponse, stored>>

\* createtimecommand, which deletes an answer, and the last put.
SendTime ==
  /\ announcing # None
  /\ Put(announcing, announcing)
  /\ commandresponse' = Without(commandresponse, {<<"18", TimeRegister>>})
  /\ announcing' = None
  /\ UNCHANGED <<world, sockets, loggerreg, stored, accepting, readable,
                 writable, exceptional>>

\* The entry a record of type c leaves under its own command.  Only the value
\* of a read, 05, is decoded, and that may fail.  The write commands 06 carry result
\* and value, but the branch for 05 and 19 runs for them as well and stores
\* the value alone.
Entry(c, clean) ==
  [fields |-> IF c = "18" THEN {"result"} ELSE {"value"}, clean |-> clean \/ c # "05"]

\* Record types 05, 06, 10, 18 and 19: the answer to a command.
Answer(s) ==
  /\ Received(s)
  /\ \E k \in Answers, clean \in BOOLEAN :
       LET own  == ExtendedBy(commandresponse, k, Entry(k[1], clean))
           read == <<"05", k[2]>>
       IN IF k[1] = "06"
          THEN /\ commandresponse' = ExtendedBy(own, read, Entry("05", clean))
               /\ stored' = stored \cup {k, read}
          ELSE /\ commandresponse' = own
               /\ stored' = stored \cup {k}
  /\ UNCHANGED <<send_queuereg, loggerreg, announcing>>

\* Type 29, an unknown type, a chunk that raises in process_data.
Ignored(s) ==
  /\ Received(s)
  /\ UNCHANGED <<registries, announcing>>

-----------------------------------------------------------------------------
(* handle_writable_socket and handle_exceptional_socket *)

\* A closed socket is passed over.  Otherwise the oldest message leaves the
\* queue; whether send() takes it is not looked at.
Write(s) ==
  /\ ~accepting /\ announcing = None /\ readable = {}
  /\ s \in writable
  /\ writable' = writable \ {s}
  /\ IF s \in DOMAIN peers /\ send_queuereg[peers[s]] # <<>>
     THEN send_queuereg' = [send_queuereg EXCEPT ![peers[s]] = Tail(@)]
     ELSE UNCHANGED send_queuereg
  /\ UNCHANGED <<world, sockets, loggerreg, commandresponse, stored, accepting,
                 readable, exceptional, announcing>>

Exceptional(s) ==
  /\ ~accepting /\ announcing = None /\ readable = {} /\ writable = {}
  /\ s \in exceptional
  /\ exceptional' = exceptional \ {s}
  /\ Close(s)
  /\ UNCHANGED <<addr, owner, backlog, accepting, readable, writable, announcing>>

-----------------------------------------------------------------------------

Handle(s) ==
  \/ PeerGone(s) \/ Ping(s) \/ Data(s) \/ Announce(s) \/ Answer(s) \/ Ignored(s)
  \/ Write(s) \/ Exceptional(s)

DeviceThread == Select \/ Accept \/ SendTime \/ \E s \in Socket : Handle(s)

Network ==
  \E s \in Socket :
    \/ Fin(s)
    \/ Reset(s)
    \/ \E p \in Peer, l \in Logger : Dial(s, p, l)

ServerNext == DeviceThread \/ Network

\* The device thread never stops by itself: run() loops for ever, and no
\* handler blocks.
ServerSpec == Init /\ [][ServerNext]_serverVars /\ WF_serverVars(DeviceThread)

-----------------------------------------------------------------------------
(* Properties *)

Waiting == {backlog[i] : i \in DOMAIN backlog}

\* Types, with the three views select() and the handlers have of the accepted
\* sockets: a socket is in inputs, in outputs and in peers, or in none.
TypeOK ==
  /\ net \in [Socket -> {"new", "open", "fin", "reset", "closed"}]
  /\ addr \in [Socket -> Peer \cup {None}]
  /\ owner \in [Socket -> Logger \cup {None}]
  /\ backlog \in Seq(Socket)
  /\ inputs \subseteq Socket /\ outputs = inputs
  /\ peers \in [inputs -> Peer]
  /\ DOMAIN send_queuereg \subseteq Peer
  /\ \A p \in DOMAIN send_queuereg : send_queuereg[p] \in Seq(Socket \cup {Http})
  /\ DOMAIN loggerreg \subseteq Name
  /\ \A l \in DOMAIN loggerreg :
       loggerreg[l] \in [peer : Peer, inverters : SUBSET Inverter]
  /\ \A k \in DOMAIN commandresponse :
       commandresponse[k] \in [fields : SUBSET {"value", "result"}, clean : BOOLEAN]
  /\ accepting \in BOOLEAN
  /\ readable \subseteq Socket /\ writable \subseteq Socket
  /\ exceptional \subseteq Socket
  /\ announcing \in Socket \cup {None}

\* No descriptor leaks and none is watched after it was closed: the sockets
\* in inputs are the accepted ones that close_connection has not closed.
SocketsTracked ==
  inputs = {s \in Socket : net[s] \notin {"new", "closed"}} \ Waiting

\* Every accepted connection has a send queue of its own, and there are no
\* others, also after a peer came back before its old socket was reaped:
\* a message for a data logger cannot go to a dead socket.
QueuePerPeer ==
  /\ \A s, t \in DOMAIN peers : peers[s] = peers[t] => s = t
  /\ DOMAIN send_queuereg = {peers[s] : s \in DOMAIN peers}

\* What process_data queues leaves on the connection whose record it answers,
\* also when the data logger has a newer connection or its peer was reused.
RepliesStayHome ==
  \A p \in DOMAIN send_queuereg : \A i \in DOMAIN send_queuereg[p] :
    LET origin == send_queuereg[p][i] IN
    origin # Http => origin \in DOMAIN peers /\ peers[origin] = p

\* handle_new_connection never closes a connection that may still carry data.
RetiresOnlyDead ==
  [][Accept => \A s \in inputs : net'[s] = "closed" => net[s] = "reset"]_serverVars

\* A registration is deleted only by closing the connection it names: "Late
\* select events for the old socket must not remove the new queue or logger
\* registration" (docs/development/grottserver-cleanup.md).
OwnershipKept ==
  [][\A l \in DOMAIN loggerreg : l \notin DOMAIN loggerreg' =>
       \E s \in DOMAIN peers :
         /\ peers[s] = loggerreg[l].peer
         /\ net[s] # "closed" /\ net'[s] = "closed"]_serverVars

\* As long as every chunk begins with a record and holds its name, the HTTP
\* thread finds behind loggerreg a connection to that very data logger.
OwnersLive ==
  WholeRecords =>
    \A l \in DOMAIN loggerreg :
      \E s \in DOMAIN peers : peers[s] = loggerreg[l].peer /\ owner[s] = l

\* The connection behind a peer, or None.
Behind(p) ==
  IF \E s \in inputs : peers[s] = p THEN CHOOSE s \in inputs : peers[s] = p ELSE None

Router == INSTANCE ConnectionRouter WITH
  Connection <- Socket,
  Name       <- Logger,
  Client     <- Http,
  enrolled   <- [s \in inputs |-> owner[s]],
  mailbox    <- [s \in inputs |-> send_queuereg[peers[s]]],
  directory  <- [l \in DOMAIN loggerreg |-> Behind(loggerreg[l].peer)]

\* As long as every chunk begins with a record and holds its name, the
\* registries kept by address and port route as if each connection had a mailbox
\* and an entry of its own: reused ports, retired sockets and late events do not
\* show.
ImplementsRouter == Router!Spec

\* Cleaning up a connection removes its "own send queue and matching logger
\* registration" (docs/development/grottserver-cleanup.md): no registration
\* outlives the connection it names.
NoStaleOwner == \A l \in DOMAIN loggerreg : loggerreg[l].peer \in DOMAIN send_queuereg

\* A connection whose peer is gone is closed in the end, and its port,
\* descriptor and queue are given back.
DeadReaped ==
  \A s \in Socket : net[s] \in {"fin", "reset"} ~> net[s] = "closed"

\* "command 06 response has ack (result) + value. We will create a 06 response
\* and a 05 response" (grottserver.py:1176): the entry of a write to an
\* inverter keeps the result.
WriteResultKept ==
  \A k \in DOMAIN commandresponse :
    k[1] = "06" => "result" \in commandresponse[k].fields

-----------------------------------------------------------------------------
(* The inductive invariant behind the safety properties. *)

\* What a socket is, once dialled.
Dialled ==
  \A s \in Socket :
    IF net[s] = "new" THEN addr[s] = None
                      ELSE addr[s] \in Peer /\ owner[s] \in Logger

\* Every connection is accepted once.
BacklogSound ==
  /\ \A i, j \in DOMAIN backlog : backlog[i] = backlog[j] => i = j
  /\ \A s \in Waiting : net[s] \notin {"new", "closed"}
  /\ accepting => backlog # <<>>

\* What one pass still has to handle was accepted before it.
BatchSound ==
  /\ \A s \in readable \cup writable \cup exceptional :
       net[s] # "new" /\ s \notin Waiting
  /\ announcing # None => ~accepting /\ announcing \in inputs

\* Of the connections with one address pair only the youngest can be alive,
\* and they are accepted in the order of their age.
AddressOrder ==
  /\ \A s, t \in Socket :
       s # t /\ addr[s] = addr[t] /\ net[s] \in {"open", "fin"}
         => net[t] \notin {"open", "fin"}
  /\ \A s \in Waiting, t \in inputs :
       addr[s] = addr[t] => net[t] = "reset"
  /\ \A i, j \in DOMAIN backlog :
       i < j /\ addr[backlog[i]] = addr[backlog[j]] => net[backlog[i]] = "reset"

PeersRemembered == \A s \in inputs : peers[s] = addr[s]

Inv ==
  /\ TypeOK /\ SocketsTracked /\ QueuePerPeer /\ RepliesStayHome /\ OwnersLive
  /\ IsFiniteSet(DOMAIN loggerreg)
  /\ Dialled /\ BacklogSound /\ BatchSound /\ AddressOrder /\ PeersRemembered
=============================================================================
