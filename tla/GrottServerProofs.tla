-------------------------- MODULE GrottServerProofs --------------------------
(***************************************************************************)
(* Proofs about GrottServer and ServerHttp, for any set of sockets, peers  *)
(* and data loggers, any requests and any numbers of polls.                *)
(*                                                                         *)
(* Inv is inductive: that every peer has one queue needs, when a peer      *)
(* comes back, that its old socket is found in peers; that only dead       *)
(* sockets are retired needs the order in which connections with one       *)
(* address pair are made and accepted.  The HTTP thread keeps it as well,  *)
(* and from it follows, last, that the registries implement                *)
(* ConnectionRouter.                                                       *)
(***************************************************************************)
EXTENDS ServerHttp, FiniteSetTheorems, TLAPS

(* The initial state. *)
LEMMA InitInv == Init => Inv
<1> SUFFICES ASSUME Init PROVE Inv
  OBVIOUS
<1> USE DEF Init, EmptyDict
<1>1. Waiting = {}
  BY DEF Waiting
<1>2. TypeOK
  <2>1. backlog \in Seq(Socket) /\ peers \in [inputs -> Peer]
    OBVIOUS
  <2> QED
    BY <2>1 DEF TypeOK
<1>3. SocketsTracked /\ QueuePerPeer /\ RepliesStayHome /\ OwnersLive
  BY <1>1 DEF SocketsTracked, QueuePerPeer, RepliesStayHome, OwnersLive
<1>4. IsFiniteSet(DOMAIN loggerreg)
  BY FS_EmptySet
<1>5. Dialled /\ BacklogSound /\ BatchSound /\ AddressOrder /\ PeersRemembered
  BY <1>1 DEF Dialled, BacklogSound, BatchSound, AddressOrder, PeersRemembered
<1> QED
  BY <1>2, <1>3, <1>4, <1>5 DEF Inv

-----------------------------------------------------------------------------
(* The network. *)

(* A connection is made: it is the youngest with its address pair. *)
LEMMA DialInv ==
  ASSUME Inv, NEW s \in Socket, NEW p \in Peer, NEW l \in Logger, Dial(s, p, l)
  PROVE  Inv'
<1> USE DEF Inv
<1>1. backlog \in Seq(Socket) /\ backlog' = Append(backlog, s)
  BY DEF Dial, TypeOK
<1>2. /\ DOMAIN backlog' = 1..(Len(backlog) + 1)
      /\ DOMAIN backlog = 1..Len(backlog) /\ Len(backlog) \in Nat
      /\ \A i \in DOMAIN backlog : backlog'[i] = backlog[i] /\ backlog[i] \in Socket
      /\ backlog'[Len(backlog) + 1] = s
  BY <1>1
<1>3. Waiting' = Waiting \cup {s} /\ s \notin Waiting /\ s \notin inputs
  BY <1>2 DEF Waiting, Dial, BacklogSound, SocketsTracked
<1>4. TypeOK'
  BY <1>1 DEF TypeOK, Dial, sockets, registries, batch
<1>5. SocketsTracked'
  BY <1>3 DEF SocketsTracked, Dial, sockets, TypeOK
<1>6. QueuePerPeer' /\ RepliesStayHome' /\ IsFiniteSet(DOMAIN loggerreg)'
  BY DEF QueuePerPeer, RepliesStayHome, Dial, sockets, registries
<1>7. OwnersLive'
  BY <1>3 DEF OwnersLive, Dial, sockets, registries, TypeOK
<1>8. Dialled'
  BY DEF Dialled, Dial, TypeOK
<1>9. BacklogSound'
  <2>1. \A i, j \in DOMAIN backlog' : backlog'[i] = backlog'[j] => i = j
    BY <1>2, <1>3 DEF BacklogSound, Waiting
  <2>2. \A t \in Waiting' : net'[t] \notin {"new", "closed"}
    BY <1>3, <1>2 DEF BacklogSound, Dial, TypeOK, Waiting
  <2>3. accepting' => backlog' # <<>>
    BY <1>2 DEF Dial, batch
  <2> QED
    BY <2>1, <2>2, <2>3 DEF BacklogSound
<1>10. BatchSound'
  BY <1>3 DEF BatchSound, Dial, batch, sockets, TypeOK
<1>11. AddressOrder'
  <2>1. \A t \in Socket : addr[t] = p => net[t] \notin {"open", "fin"}
    BY DEF Dial
  <2>2. \A t \in Socket \ {s} : net'[t] = net[t] /\ addr'[t] = addr[t]
    BY DEF Dial, TypeOK
  <2>3. net'[s] = "open" /\ addr'[s] = p
    BY DEF Dial, TypeOK
  <2>4. \A t, u \in Socket :
          t # u /\ addr'[t] = addr'[u] /\ net'[t] \in {"open", "fin"}
            => net'[u] \notin {"open", "fin"}
    BY <2>1, <2>2, <2>3 DEF AddressOrder
  <2>5. \A t \in inputs : t \in Socket /\ t # s /\ net[t] \notin {"new", "closed"}
    BY <1>3 DEF SocketsTracked
  <2>6. \A t \in Waiting' : t \in Socket
    BY <1>2, <1>3 DEF Waiting
  <2>7. \A t \in Waiting', u \in inputs' : addr'[t] = addr'[u] => net'[u] = "reset"
    BY <1>3, <2>1, <2>2, <2>3, <2>5, <2>6 DEF AddressOrder, Dial, sockets, TypeOK
  <2>8. \A i \in DOMAIN backlog : backlog[i] # s /\ net[backlog[i]] \notin {"new", "closed"}
    BY <1>3 DEF Waiting, BacklogSound
  <2>9. \A i, j \in DOMAIN backlog' :
          i < j /\ addr'[backlog'[i]] = addr'[backlog'[j]] => net'[backlog'[i]] = "reset"
    BY <1>2, <2>1, <2>2, <2>3, <2>8 DEF AddressOrder, TypeOK
  <2> QED
    BY <2>4, <2>7, <2>9 DEF AddressOrder
<1>12. PeersRemembered'
  BY <1>3 DEF PeersRemembered, Dial, sockets, TypeOK
<1> QED
  BY <1>4, <1>5, <1>6, <1>7, <1>8, <1>9, <1>10, <1>11, <1>12 DEF Inv

(* A connection loses its peer: it stays what it was, but for being alive. *)
LEMMA LosePeerInv ==
  ASSUME Inv, NEW s \in Socket, Fin(s) \/ Reset(s)
  PROVE  Inv'
<1>1. /\ net[s] \in {"open", "fin"}
      /\ net' = [net EXCEPT ![s] = "fin"] \/ net' = [net EXCEPT ![s] = "reset"]
      /\ net[s] = "fin" => net' = [net EXCEPT ![s] = "reset"]
      /\ UNCHANGED <<addr, owner, backlog, sockets, registries, batch>>
  BY DEF Fin, Reset
<1>2. Waiting' = Waiting
  BY <1>1 DEF Waiting
<1>3. \A t \in Socket : /\ net'[t] \in {"fin", "reset"} \/ net'[t] = net[t]
                        /\ net'[t] = "new" <=> net[t] = "new"
                        /\ net'[t] = "closed" <=> net[t] = "closed"
                        /\ net[t] = "reset" => net'[t] = "reset"
                        /\ net'[t] \in {"open", "fin"} => net[t] \in {"open", "fin"}
  BY <1>1 DEF Inv, TypeOK
<1>4. TypeOK'
  BY <1>1 DEF Inv, TypeOK, sockets, registries, batch
<1>5. SocketsTracked'
  BY <1>1, <1>2, <1>3 DEF Inv, SocketsTracked, sockets
<1>6. /\ QueuePerPeer' /\ RepliesStayHome' /\ OwnersLive'
      /\ IsFiniteSet(DOMAIN loggerreg)' /\ PeersRemembered'
  BY <1>1 DEF Inv, QueuePerPeer, RepliesStayHome, OwnersLive, PeersRemembered,
              sockets, registries
<1>7. Dialled'
  BY <1>1, <1>3 DEF Inv, Dialled
<1>8. \A t \in Waiting \cup readable \cup writable \cup exceptional \cup inputs : t \in Socket
  BY DEF Inv, TypeOK, Waiting
<1>9. BacklogSound' /\ BatchSound'
  BY <1>1, <1>2, <1>3, <1>8 DEF Inv, BacklogSound, BatchSound, sockets, batch
<1>10. AddressOrder'
  <2>1. \A i \in DOMAIN backlog : backlog[i] \in Socket
    BY DEF Inv, TypeOK
  <2> QED
    BY <1>1, <1>2, <1>3, <1>8, <2>1 DEF Inv, AddressOrder, sockets
<1> QED
  BY <1>4, <1>5, <1>6, <1>7, <1>9, <1>10 DEF Inv

-----------------------------------------------------------------------------
(* Closing a connection. *)

(* When chunks hold whole names, at most the data logger at its other end is behind a
   connection, and nobody behind a peer without one. *)
LEMMA OwnersOfPeer ==
  ASSUME Inv, WholeRecords
  PROVE  /\ \A s \in DOMAIN peers : Registered(peers[s]) \subseteq {owner[s]}
         /\ \A p : p \notin DOMAIN send_queuereg => Registered(p) = {}
BY DEF Inv, OwnersLive, QueuePerPeer, Registered

(* What the loop over loggerreg does. *)
LEMMA ForgetFacts ==
  ASSUME Inv, NEW p, NEW n \in Nat, ForgetLoggers(p, n)
  PROVE  /\ DOMAIN loggerreg' \subseteq DOMAIN loggerreg
         /\ \A l \in DOMAIN loggerreg' : loggerreg'[l] = loggerreg[l]
         /\ \A l \in DOMAIN loggerreg : l \notin DOMAIN loggerreg' => loggerreg[l].peer = p
         /\ n = 0 => loggerreg' = Without(loggerreg, {})
         /\ n > 0 /\ (\E l : Registered(p) \subseteq {l})
              => \A l \in DOMAIN loggerreg' : loggerreg'[l].peer # p
         /\ IsFiniteSet(DOMAIN loggerreg')
<1>1. PICK gone \in SUBSET Registered(p) :
        /\ Cardinality(gone) <= n
        /\ Cardinality(gone) = n \/ gone = Registered(p)
        /\ loggerreg' = Without(loggerreg, gone)
  BY DEF ForgetLoggers
<1>2. IsFiniteSet(DOMAIN loggerreg) /\ gone \subseteq DOMAIN loggerreg
  BY DEF Inv, Registered
<1>3. IsFiniteSet(gone)
  BY <1>2, FS_Subset
<1>4. /\ DOMAIN loggerreg' = DOMAIN loggerreg \ gone
      /\ \A l \in DOMAIN loggerreg' : loggerreg'[l] = loggerreg[l]
  BY <1>1 DEF Without
<1>5. IsFiniteSet(DOMAIN loggerreg')
  BY <1>2, <1>4, FS_Subset
<1>6. Cardinality(gone) = 0 <=> gone = {}
  BY <1>3, FS_EmptySet
<1>7. n = 0 => gone = {}
  BY <1>1, <1>3, <1>6, FS_CardinalityType
<1>8. n > 0 /\ (\E l : Registered(p) \subseteq {l}) => gone = Registered(p)
  <2>1. CASE gone = {}
    BY <1>1, <1>6, <2>1
  <2>2. CASE gone # {}
    BY <2>2
  <2> QED
    BY <2>1, <2>2
<1> QED
  BY <1>1, <1>4, <1>5, <1>7, <1>8 DEF Registered

(* Closing keeps the invariant, whether or not the socket was closed before. *)
LEMMA CloseInv ==
  ASSUME Inv, NEW s \in Socket, Close(s), net[s] # "new", s \notin Waiting,
         announcing = None, ~accepting,
         UNCHANGED <<addr, owner, backlog, accepting, announcing>>,
         readable' \subseteq readable, writable' \subseteq writable,
         exceptional' \subseteq exceptional
  PROVE  Inv'
<1>1. /\ net' = [net EXCEPT ![s] = "closed"]
      /\ inputs' = inputs \ {s} /\ outputs' = outputs \ {s}
      /\ peers' = Without(peers, {s})
      /\ UNCHANGED <<commandresponse, stored>>
  BY DEF Close
<1>2. /\ DOMAIN peers = inputs /\ outputs = inputs /\ inputs \subseteq Socket
      /\ peers \in [inputs -> Peer]
      /\ DOMAIN peers' = inputs' /\ peers' \in [inputs' -> Peer]
      /\ \A t \in inputs' : peers'[t] = peers[t] /\ t \in inputs /\ t # s
  BY <1>1 DEF Inv, TypeOK, Without
<1>3. \A t \in Socket : net'[t] = IF t = s THEN "closed" ELSE net[t]
  BY <1>1 DEF Inv, TypeOK
<1>4. Waiting' = Waiting /\ Waiting \subseteq Socket /\ backlog \in Seq(Socket)
  BY DEF Waiting, Inv, TypeOK
<1>5. ASSUME s \in inputs
      PROVE  TypeOK' /\ QueuePerPeer' /\ RepliesStayHome' /\ OwnersLive'
             /\ IsFiniteSet(DOMAIN loggerreg)'
  <2>1. /\ send_queuereg' = Without(send_queuereg, {peers[s]})
        /\ ForgetLoggers(peers[s], 1)
    BY <1>2, <1>5 DEF Close
  <2>2. /\ DOMAIN send_queuereg' = DOMAIN send_queuereg \ {peers[s]}
        /\ \A p \in DOMAIN send_queuereg' : send_queuereg'[p] = send_queuereg[p]
    BY <2>1 DEF Without
  <2>3. /\ DOMAIN loggerreg' \subseteq DOMAIN loggerreg
        /\ \A l \in DOMAIN loggerreg' : loggerreg'[l] = loggerreg[l]
        /\ (\E l : Registered(peers[s]) \subseteq {l})
             => \A l \in DOMAIN loggerreg' : loggerreg'[l].peer # peers[s]
        /\ IsFiniteSet(DOMAIN loggerreg')
    BY <2>1, ForgetFacts
  <2>4. QueuePerPeer'
    <3>1. /\ \A t, u \in inputs : peers[t] = peers[u] => t = u
          /\ DOMAIN send_queuereg = {peers[t] : t \in inputs}
      BY <1>2 DEF Inv, QueuePerPeer
    <3>2. \A t, u \in inputs' : peers'[t] = peers'[u] => t = u
      BY <3>1, <1>2
    <3>3. DOMAIN send_queuereg' = {peers'[t] : t \in inputs'}
      <4>1. ASSUME NEW p \in DOMAIN send_queuereg'
            PROVE  \E t \in inputs' : peers'[t] = p
        <5>1. PICK t \in inputs : peers[t] = p
          BY <3>1, <2>2
        <5>2. t # s
          BY <5>1, <2>2
        <5> QED
          BY <5>1, <5>2, <1>1, <1>2
      <4>2. ASSUME NEW t \in inputs'
            PROVE  peers'[t] \in DOMAIN send_queuereg'
        <5>1. t \in inputs /\ t # s /\ peers'[t] = peers[t]
          BY <1>2
        <5>2. peers[t] \in DOMAIN send_queuereg /\ peers[t] # peers[s]
          BY <5>1, <3>1, <1>5
        <5> QED
          BY <5>1, <5>2, <2>2
      <4> QED
        BY <4>1, <4>2
    <3> QED
      BY <3>2, <3>3, <1>2 DEF QueuePerPeer
  <2>5. RepliesStayHome'
    <3>1. \A p \in DOMAIN send_queuereg : \A i \in DOMAIN send_queuereg[p] :
            LET origin == send_queuereg[p][i] IN
            origin # Http => origin \in inputs /\ peers[origin] = p
      BY <1>2 DEF Inv, RepliesStayHome
    <3>2. \A p \in DOMAIN send_queuereg' : \A i \in DOMAIN send_queuereg'[p] :
            LET origin == send_queuereg'[p][i] IN
            origin # Http => origin \in inputs' /\ peers'[origin] = p
      <4>1. SUFFICES ASSUME NEW p \in DOMAIN send_queuereg',
                            NEW i \in DOMAIN send_queuereg[p],
                            send_queuereg[p][i] # Http
                     PROVE  LET origin == send_queuereg[p][i] IN
                            origin \in inputs' /\ peers'[origin] = p
        BY <2>2
      <4>2. /\ send_queuereg[p][i] \in inputs
            /\ peers[send_queuereg[p][i]] = p /\ p # peers[s]
        BY <4>1, <3>1, <2>2
      <4> QED
        BY <4>2, <1>1, <1>2
    <3> QED
      BY <3>2, <1>2 DEF RepliesStayHome
  <2>6. OwnersLive'
    <3>1. SUFFICES ASSUME WholeRecords, NEW l \in DOMAIN loggerreg'
                   PROVE  \E t \in DOMAIN peers' :
                            peers'[t] = loggerreg'[l].peer /\ owner'[t] = l
      BY DEF OwnersLive
    <3>2. loggerreg[l].peer # peers[s]
      BY <3>1, <2>3, <1>2, <1>5, OwnersOfPeer
    <3>3. PICK t \in DOMAIN peers : peers[t] = loggerreg[l].peer /\ owner[t] = l
      BY <3>1, <2>3 DEF Inv, OwnersLive
    <3> QED
      BY <3>2, <3>3, <2>3, <1>1, <1>2
  <2>7. TypeOK'
    <3>1. net' \in [Socket -> {"new", "open", "fin", "reset", "closed"}]
      BY <1>1 DEF Inv, TypeOK
    <3>2. /\ DOMAIN send_queuereg' \subseteq Peer
          /\ \A p \in DOMAIN send_queuereg' : send_queuereg'[p] \in Seq(Socket \cup {Http})
      BY <2>2 DEF Inv, TypeOK
    <3>3. /\ DOMAIN loggerreg' \subseteq Name
          /\ \A l \in DOMAIN loggerreg' :
               loggerreg'[l] \in [peer : Peer, inverters : SUBSET Inverter]
      BY <2>3 DEF Inv, TypeOK
    <3>4. /\ inputs' \subseteq Socket /\ outputs' = inputs'
          /\ readable' \subseteq Socket /\ writable' \subseteq Socket
          /\ exceptional' \subseteq Socket
      BY <1>1, <1>2 DEF Inv, TypeOK
    <3> QED
      BY <1>1, <1>2, <3>1, <3>2, <3>3, <3>4 DEF Inv, TypeOK
  <2> QED
    BY <2>3, <2>4, <2>5, <2>6, <2>7
<1>6. ASSUME s \notin inputs
      PROVE  TypeOK' /\ QueuePerPeer' /\ RepliesStayHome' /\ OwnersLive'
             /\ IsFiniteSet(DOMAIN loggerreg)'
  <2>1. UNCHANGED <<send_queuereg, loggerreg>> /\ inputs' = inputs
    BY <1>1, <1>2, <1>6 DEF Close
  <2>2. peers' = peers
    <3>1. peers = [t \in inputs |-> peers[t]] /\ inputs \ {s} = inputs
      BY <1>2, <1>6
    <3>2. peers' = [t \in inputs \ {s} |-> peers[t]]
      BY <1>1, <1>2 DEF Without
    <3> QED
      BY <3>1, <3>2
  <2>3. TypeOK'
    <3>1. net' \in [Socket -> {"new", "open", "fin", "reset", "closed"}]
      BY <1>1 DEF Inv, TypeOK
    <3>2. readable' \subseteq Socket /\ writable' \subseteq Socket
          /\ exceptional' \subseteq Socket /\ outputs' = inputs'
      BY <1>1, <1>2 DEF Inv, TypeOK
    <3> QED
      BY <1>1, <2>1, <2>2, <3>1, <3>2 DEF Inv, TypeOK
  <2> QED
    BY <2>1, <2>2, <2>3
       DEF Inv, QueuePerPeer, RepliesStayHome, OwnersLive
<1>7. TypeOK' /\ QueuePerPeer' /\ RepliesStayHome' /\ OwnersLive'
      /\ IsFiniteSet(DOMAIN loggerreg)'
  BY <1>5, <1>6
<1>8. SocketsTracked'
  BY <1>1, <1>2, <1>3, <1>4 DEF Inv, SocketsTracked
<1>9. Dialled'
  BY <1>3 DEF Inv, Dialled
<1>10. BacklogSound' /\ BatchSound'
  <2>1. \A t \in readable \cup writable \cup exceptional : t \in Socket
    BY DEF Inv, TypeOK
  <2> QED
    BY <1>1, <1>3, <1>4, <2>1 DEF Inv, BacklogSound, BatchSound
<1>11. AddressOrder'
  <2>1. \A i \in DOMAIN backlog : backlog[i] \in Socket /\ backlog[i] # s
    BY <1>4 DEF Waiting
  <2> QED
    BY <1>2, <1>3, <1>4, <2>1 DEF Inv, AddressOrder
<1>12. PeersRemembered'
  BY <1>2 DEF Inv, PeersRemembered
<1> QED
  BY <1>7, <1>8, <1>9, <1>10, <1>11, <1>12 DEF Inv

-----------------------------------------------------------------------------
(* One select(): what it reports was accepted. *)
LEMMA SelectInv == Inv /\ Select => Inv'
<1> SUFFICES ASSUME Inv, Select PROVE Inv'
  OBVIOUS
<1>1. /\ accepting' = (backlog # <<>>) /\ announcing = None
      /\ readable' \subseteq inputs /\ writable' \subseteq inputs
      /\ exceptional' \subseteq inputs
      /\ UNCHANGED <<world, sockets, registries, announcing>>
  BY DEF Select, Idle, Dead, Inv, TypeOK
<1>2. Waiting' = Waiting
  BY <1>1 DEF Waiting, world
<1>3. TypeOK'
  BY <1>1 DEF Inv, TypeOK, world, sockets, registries
<1>4. SocketsTracked' /\ QueuePerPeer' /\ RepliesStayHome' /\ OwnersLive'
      /\ IsFiniteSet(DOMAIN loggerreg)' /\ Dialled' /\ AddressOrder' /\ PeersRemembered'
  BY <1>1, <1>2
     DEF Inv, SocketsTracked, QueuePerPeer, RepliesStayHome, OwnersLive, Dialled,
         AddressOrder, PeersRemembered, world, sockets, registries
<1>5. BacklogSound'
  BY <1>1, <1>2 DEF Inv, BacklogSound, world
<1>6. BatchSound'
  <2>1. \A s \in inputs : net[s] # "new" /\ s \notin Waiting
    BY DEF Inv, SocketsTracked
  <2> QED
    BY <1>1, <1>2, <2>1 DEF BatchSound, world
<1> QED
  BY <1>3, <1>4, <1>5, <1>6 DEF Inv

-----------------------------------------------------------------------------
(* A handler that leaves the connections alone. *)

(* What a registry may become: each queue keeps its messages and gets some for
   its own connection. *)
HandlerSound ==
  /\ UNCHANGED <<world, sockets>>
  /\ DOMAIN send_queuereg' = DOMAIN send_queuereg
  /\ \A p \in DOMAIN send_queuereg' : send_queuereg'[p] \in Seq(Socket \cup {Http})
  /\ RepliesStayHome'
  /\ DOMAIN loggerreg' \subseteq Name
  /\ \A l \in DOMAIN loggerreg' :
       loggerreg'[l] \in [peer : Peer, inverters : SUBSET Inverter]
  /\ IsFiniteSet(DOMAIN loggerreg')
  /\ OwnersLive'
  /\ \A k \in DOMAIN commandresponse' :
       commandresponse'[k] \in [fields : SUBSET {"value", "result"}, clean : BOOLEAN]
  /\ accepting' = FALSE /\ (announcing' = None \/ announcing' \in inputs)
  /\ readable' \subseteq readable /\ writable' \subseteq writable
  /\ exceptional' \subseteq exceptional

(* A handler that only does that keeps the invariant. *)
LEMMA HandlerInv == Inv /\ HandlerSound => Inv'
<1> SUFFICES ASSUME Inv, HandlerSound PROVE Inv'
  OBVIOUS
<1> USE DEF HandlerSound
<1>1. Waiting' = Waiting
  BY DEF Waiting, world
<1>2. TypeOK'
  <2>1. /\ accepting' \in BOOLEAN /\ announcing' \in Socket \cup {None}
        /\ readable' \subseteq Socket /\ writable' \subseteq Socket
        /\ exceptional' \subseteq Socket
    BY DEF Inv, TypeOK
  <2>2. UNCHANGED <<net, addr, owner, backlog, inputs, outputs, peers>>
    BY DEF world, sockets
  <2>3. DOMAIN send_queuereg' \subseteq Peer
    BY DEF Inv, TypeOK
  <2>4. /\ \A p \in DOMAIN send_queuereg' : send_queuereg'[p] \in Seq(Socket \cup {Http})
        /\ DOMAIN loggerreg' \subseteq Name
        /\ \A l \in DOMAIN loggerreg' :
             loggerreg'[l] \in [peer : Peer, inverters : SUBSET Inverter]
        /\ \A k \in DOMAIN commandresponse' :
             commandresponse'[k] \in [fields : SUBSET {"value", "result"}, clean : BOOLEAN]
    OBVIOUS
  <2> HIDE DEF HandlerSound
  <2>5. /\ net' \in [Socket -> {"new", "open", "fin", "reset", "closed"}]
        /\ addr' \in [Socket -> Peer \cup {None}]
        /\ owner' \in [Socket -> Logger \cup {None}]
        /\ backlog' \in Seq(Socket)
        /\ inputs' \subseteq Socket /\ outputs' = inputs'
        /\ peers' \in [inputs' -> Peer]
    BY <2>2 DEF Inv, TypeOK
  <2> QED
    BY <2>1, <2>3, <2>4, <2>5 DEF TypeOK
<1>3. SocketsTracked' /\ Dialled' /\ AddressOrder' /\ PeersRemembered'
  BY <1>1 DEF Inv, SocketsTracked, Dialled, AddressOrder, PeersRemembered,
              world, sockets
<1>4. QueuePerPeer'
  BY DEF Inv, QueuePerPeer, sockets
<1>5. BacklogSound' /\ BatchSound'
  BY <1>1 DEF Inv, BacklogSound, BatchSound, world, sockets
<1> QED
  BY <1>2, <1>3, <1>4, <1>5 DEF Inv

(* A message for the connection whose record it answers. *)
LEMMA PutFacts ==
  ASSUME Inv, NEW s \in inputs, Put(s, s), UNCHANGED <<world, sockets>>
  PROVE  /\ DOMAIN send_queuereg' = DOMAIN send_queuereg
         /\ \A p \in DOMAIN send_queuereg' : send_queuereg'[p] \in Seq(Socket \cup {Http})
         /\ RepliesStayHome'
<1>1. s \in Socket /\ s \in DOMAIN peers /\ peers[s] = addr[s]
  BY DEF Inv, TypeOK, PeersRemembered
<1>2. addr[s] \in DOMAIN send_queuereg
  BY <1>1 DEF Inv, QueuePerPeer
<1>3. \A p \in DOMAIN send_queuereg : send_queuereg[p] \in Seq(Socket \cup {Http})
  BY DEF Inv, TypeOK
<1>4. /\ DOMAIN send_queuereg' = DOMAIN send_queuereg
      /\ send_queuereg'[addr[s]] = Append(send_queuereg[addr[s]], s)
      /\ \A p \in DOMAIN send_queuereg \ {addr[s]} : send_queuereg'[p] = send_queuereg[p]
  BY <1>2 DEF Put
<1> DEFINE q == send_queuereg[addr[s]]
<1>q. /\ q \in Seq(Socket \cup {Http})
      /\ Append(q, s) \in Seq(Socket \cup {Http})
      /\ \A i \in DOMAIN Append(q, s) :
           (i \in DOMAIN q /\ Append(q, s)[i] = q[i]) \/ Append(q, s)[i] = s
  <2>1. q \in Seq(Socket \cup {Http}) /\ s \in Socket \cup {Http}
    BY <1>1, <1>2, <1>3
  <2> HIDE DEF q
  <2> QED
    BY <2>1
<1>5. \A p \in DOMAIN send_queuereg' : send_queuereg'[p] \in Seq(Socket \cup {Http})
  BY <1>3, <1>4, <1>q
<1>6. ASSUME NEW p \in DOMAIN send_queuereg, NEW i \in DOMAIN send_queuereg'[p],
             send_queuereg'[p][i] # Http
      PROVE  send_queuereg'[p][i] \in DOMAIN peers /\ peers[send_queuereg'[p][i]] = p
  <2>1. CASE p # addr[s]
    BY <1>4, <1>6, <2>1 DEF Inv, RepliesStayHome
  <2>2. CASE p = addr[s]
    <3>1. \/ i \in DOMAIN send_queuereg[p] /\ send_queuereg'[p][i] = send_queuereg[p][i]
          \/ send_queuereg'[p][i] = s
      BY <1>4, <1>6, <1>q, <2>2
    <3> QED
      BY <1>1, <1>6, <2>2, <3>1 DEF Inv, RepliesStayHome
  <2> QED
    BY <2>1, <2>2
<1>7. RepliesStayHome'
  BY <1>4, <1>6 DEF RepliesStayHome, sockets
<1> QED
  BY <1>4, <1>5, <1>7

(* The data logger at the other end is enrolled, or a name misread. *)
LEMMA EnrolFacts ==
  ASSUME Inv, NEW s \in inputs, NEW l \in LoggerNames(s),
         NEW found \in SUBSET Inverter, Enrol(l, addr[s], found),
         UNCHANGED <<world, sockets>>
  PROVE  /\ DOMAIN loggerreg' \subseteq Name
         /\ \A k \in DOMAIN loggerreg' :
              loggerreg'[k] \in [peer : Peer, inverters : SUBSET Inverter]
         /\ IsFiniteSet(DOMAIN loggerreg')
         /\ OwnersLive'
<1>1. /\ s \in Socket /\ s \in DOMAIN peers /\ peers[s] = addr[s]
      /\ addr[s] \in Peer /\ owner[s] \in Logger
  BY DEF Inv, TypeOK, PeersRemembered, SocketsTracked, Dialled
<1>2. /\ DOMAIN loggerreg' = DOMAIN loggerreg \cup {l}
      /\ \A k \in DOMAIN loggerreg \ {l} : loggerreg'[k] = loggerreg[k]
      /\ loggerreg'[l] =
           [peer |-> addr[s],
            inverters |-> found \cup
              (IF l \in DOMAIN loggerreg THEN loggerreg[l].inverters ELSE {})]
  BY DEF Enrol, ExtendedBy
<1>3. l \in Name /\ (WholeRecords => l = owner[s])
  BY <1>1 DEF LoggerNames, Name, WholeRecords
<1>4. DOMAIN loggerreg' \subseteq Name
  BY <1>2, <1>3 DEF Inv, TypeOK
<1>5. loggerreg'[l] \in [peer : Peer, inverters : SUBSET Inverter]
  <2>1. CASE l \in DOMAIN loggerreg
    <3>1. loggerreg[l].inverters \subseteq Inverter
      BY <2>1 DEF Inv, TypeOK
    <3> QED
      BY <1>1, <1>2, <2>1, <3>1
  <2>2. CASE l \notin DOMAIN loggerreg
    BY <1>1, <1>2, <2>2
  <2> QED
    BY <2>1, <2>2
<1>6. \A k \in DOMAIN loggerreg' :
        loggerreg'[k] \in [peer : Peer, inverters : SUBSET Inverter]
  BY <1>2, <1>5 DEF Inv, TypeOK
<1>7. IsFiniteSet(DOMAIN loggerreg')
  BY <1>2, FS_AddElement DEF Inv
<1>8. OwnersLive'
  <2>1. SUFFICES ASSUME WholeRecords, NEW k \in DOMAIN loggerreg'
                 PROVE  \E t \in DOMAIN peers : peers[t] = loggerreg'[k].peer /\ owner[t] = k
    BY DEF OwnersLive, world, sockets
  <2>2. CASE k = l
    BY <1>1, <1>2, <1>3, <2>1, <2>2
  <2>3. CASE k # l
    BY <1>2, <2>1, <2>3 DEF Inv, OwnersLive
  <2> QED
    BY <2>2, <2>3
<1> QED
  BY <1>4, <1>6, <1>7, <1>8

(* process_data on a chunk. *)
LEMMA ReceivedInv ==
  ASSUME Inv, NEW s \in Socket,
         Ping(s) \/ Data(s) \/ Announce(s) \/ Answer(s) \/ Ignored(s)
  PROVE  Inv'
<1>1. /\ s \in inputs /\ accepting = FALSE /\ announcing = None
      /\ UNCHANGED <<world, sockets>> /\ accepting' = FALSE
      /\ readable' \subseteq readable /\ UNCHANGED <<writable, exceptional>>
  <2>1. Received(s)
    BY DEF Ping, Data, Announce, Answer, Ignored
  <2>2. s \in readable /\ net[s] = "open" /\ s \notin Waiting
    BY <2>1 DEF Received, Reading, Inv, BatchSound
  <2>3. s \in inputs
    BY <2>2 DEF Inv, SocketsTracked
  <2> QED
    BY <2>1, <2>3 DEF Received, Reading, Inv, TypeOK
<1>2. HandlerSound
  <2>1. CASE Ping(s)
    <3>1. PICK l \in LoggerNames(s) : Enrol(l, addr[s], {})
      BY <2>1 DEF Ping
    <3>2. Put(s, s) /\ UNCHANGED <<commandresponse, announcing>>
      BY <2>1 DEF Ping
    <3>3. {} \in SUBSET Inverter
      OBVIOUS
    <3> QED
      BY <1>1, <3>1, <3>2, <3>3, PutFacts, EnrolFacts DEF HandlerSound, Inv, TypeOK
  <2>2. CASE Data(s)
    BY <1>1, <2>2, PutFacts DEF Data, HandlerSound, Inv, TypeOK, OwnersLive, world, sockets
  <2>3. CASE Announce(s)
    <3>1. PICK l \in LoggerNames(s), i \in Inverter : Enrol(l, addr[s], {i})
      BY <2>3 DEF Announce
    <3>2. Put(s, s) /\ announcing' = s /\ UNCHANGED commandresponse
      BY <2>3 DEF Announce
    <3>3. {i} \in SUBSET Inverter
      OBVIOUS
    <3> QED
      BY <1>1, <3>1, <3>2, <3>3, PutFacts, EnrolFacts DEF HandlerSound, Inv, TypeOK
  <2>4. CASE Answer(s)
    <3>1. PICK k \in Answers, clean \in BOOLEAN :
            \/ commandresponse' = ExtendedBy(commandresponse, k, Entry(k[1], clean))
            \/ commandresponse' =
                 ExtendedBy(ExtendedBy(commandresponse, k, Entry(k[1], clean)),
                            <<"05", k[2]>>, Entry("05", clean))
      BY <2>4 DEF Answer
    <3>2. \A c : Entry(c, clean) \in [fields : SUBSET {"value", "result"}, clean : BOOLEAN]
      BY DEF Entry
    <3>3. \A j \in DOMAIN commandresponse' :
            commandresponse'[j] \in [fields : SUBSET {"value", "result"}, clean : BOOLEAN]
      <4> DEFINE A == [fields : SUBSET {"value", "result"}, clean : BOOLEAN]
                 Typed(f) == \A j \in DOMAIN f : f[j] \in A
      <4>1. \A f, j, v : Typed(f) /\ v \in A => Typed(ExtendedBy(f, j, v))
        BY DEF ExtendedBy
      <4>2. Typed(commandresponse)
        BY DEF Inv, TypeOK
      <4>3. Entry(k[1], clean) \in A /\ Entry("05", clean) \in A
        BY <3>2
      <4> HIDE DEF Typed, A
      <4>4. Typed(commandresponse')
        BY <3>1, <4>1, <4>2, <4>3
      <4> QED
        BY <4>4 DEF Typed, A
    <3>4. UNCHANGED <<send_queuereg, loggerreg, announcing>>
      BY <2>4 DEF Answer
    <3> QED
      BY <1>1, <3>3, <3>4
         DEF HandlerSound, Inv, TypeOK, RepliesStayHome, OwnersLive, world, sockets
  <2>5. CASE Ignored(s)
    BY <1>1, <2>5
       DEF Ignored, registries, HandlerSound, Inv, TypeOK, RepliesStayHome,
           OwnersLive, world, sockets
  <2> QED
    BY <2>1, <2>2, <2>3, <2>4, <2>5
<1> QED
  BY <1>2, HandlerInv

(* The end of an announcement. *)
LEMMA SendTimeInv == Inv /\ SendTime => Inv'
<1> SUFFICES ASSUME Inv, SendTime PROVE Inv'
  OBVIOUS
<1>1. announcing \in inputs /\ accepting = FALSE
  BY DEF SendTime, Inv, BatchSound, TypeOK
<1>2. /\ Put(announcing, announcing) /\ announcing' = None
      /\ UNCHANGED <<world, sockets, loggerreg, accepting, readable, writable, exceptional>>
      /\ DOMAIN commandresponse' \subseteq DOMAIN commandresponse
      /\ \A k \in DOMAIN commandresponse' : commandresponse'[k] = commandresponse[k]
  BY DEF SendTime, Without
<1>3. HandlerSound
  BY <1>1, <1>2, PutFacts DEF HandlerSound, Inv, TypeOK, OwnersLive, world, sockets
<1> QED
  BY <1>3, HandlerInv

(* A message leaves a queue. *)
LEMMA WriteInv ==
  ASSUME Inv, NEW s \in Socket, Write(s)
  PROVE  Inv'
<1>1. /\ accepting = FALSE /\ announcing = None
      /\ writable' \subseteq writable
      /\ UNCHANGED <<world, sockets, loggerreg, commandresponse, accepting, readable,
                     exceptional, announcing>>
  BY DEF Write, Inv, TypeOK
<1>2. CASE s \in DOMAIN peers /\ send_queuereg[peers[s]] # <<>>
  <2> DEFINE q == send_queuereg[peers[s]]
  <2>1. /\ peers[s] \in DOMAIN send_queuereg
        /\ send_queuereg' = [send_queuereg EXCEPT ![peers[s]] = Tail(@)]
        /\ q \in Seq(Socket \cup {Http}) /\ q # <<>>
    BY <1>2 DEF Write, Inv, TypeOK, QueuePerPeer
  <2>2. /\ DOMAIN send_queuereg' = DOMAIN send_queuereg
        /\ send_queuereg'[peers[s]] = Tail(q)
        /\ \A p \in DOMAIN send_queuereg \ {peers[s]} : send_queuereg'[p] = send_queuereg[p]
    BY <2>1
  <2>3. /\ Tail(q) \in Seq(Socket \cup {Http})
        /\ \A i \in DOMAIN Tail(q) : i + 1 \in DOMAIN q /\ Tail(q)[i] = q[i + 1]
    <3> HIDE DEF q
    <3> QED
      BY <2>1
  <2>4. \A p \in DOMAIN send_queuereg' : send_queuereg'[p] \in Seq(Socket \cup {Http})
    BY <2>2, <2>3 DEF Inv, TypeOK
  <2>5. ASSUME NEW p \in DOMAIN send_queuereg, NEW i \in DOMAIN send_queuereg'[p],
               send_queuereg'[p][i] # Http
        PROVE  send_queuereg'[p][i] \in DOMAIN peers /\ peers[send_queuereg'[p][i]] = p
    <3>1. CASE p # peers[s]
      BY <2>2, <2>5, <3>1 DEF Inv, RepliesStayHome
    <3>2. CASE p = peers[s]
      <4>1. i + 1 \in DOMAIN q /\ send_queuereg'[p][i] = q[i + 1]
        BY <2>2, <2>3, <2>5, <3>2
      <4> QED
        BY <2>1, <2>5, <3>2, <4>1 DEF Inv, RepliesStayHome
    <3> QED
      BY <3>1, <3>2
  <2>6. RepliesStayHome'
    BY <1>1, <2>2, <2>5 DEF RepliesStayHome, sockets
  <2>7. HandlerSound
    BY <1>1, <2>2, <2>4, <2>6 DEF HandlerSound, Inv, TypeOK, OwnersLive, world, sockets
  <2> QED
    BY <2>7, HandlerInv
<1>3. CASE ~(s \in DOMAIN peers /\ send_queuereg[peers[s]] # <<>>)
  <2>1. UNCHANGED send_queuereg
    BY <1>3 DEF Write
  <2>2. HandlerSound
    BY <1>1, <2>1
       DEF HandlerSound, Inv, TypeOK, RepliesStayHome, OwnersLive, world, sockets
  <2> QED
    BY <2>2, HandlerInv
<1> QED
  BY <1>2, <1>3

-----------------------------------------------------------------------------
(* A new connection takes the place of what was known under its peer. *)
LEMMA AcceptInv == Inv /\ Accept => Inv'
<1> SUFFICES ASSUME Inv, Accept PROVE Inv'
  OBVIOUS
<1> DEFINE s       == Head(backlog)
           retired == {t \in DOMAIN peers : peers[t] = addr[s]}
<1>1. /\ accepting /\ accepting' = FALSE /\ announcing = None /\ announcing' = None
      /\ net' = [t \in Socket |-> IF t \in retired THEN "closed" ELSE net[t]]
      /\ inputs' = (inputs \ retired) \cup {s}
      /\ outputs' = (outputs \ retired) \cup {s}
      /\ peers' = ExtendedBy(Without(peers, retired), s, addr[s])
      /\ send_queuereg' = ExtendedBy(send_queuereg, addr[s], <<>>)
      /\ ForgetLoggers(addr[s], Cardinality(retired))
      /\ backlog' = Tail(backlog)
      /\ UNCHANGED <<addr, owner, commandresponse, stored, readable, writable, exceptional>>
  BY DEF Accept, Inv, BatchSound
<1>2. /\ backlog \in Seq(Socket) /\ backlog # <<>>
      /\ DOMAIN backlog = 1..Len(backlog) /\ Len(backlog) \in Nat
      /\ 1 \in DOMAIN backlog /\ s = backlog[1]
      /\ backlog' \in Seq(Socket)
      /\ \A i \in DOMAIN backlog' : i \in Nat /\ i + 1 \in DOMAIN backlog
                                    /\ i + 1 # 1 /\ backlog'[i] = backlog[i + 1]
      /\ \A i \in DOMAIN backlog : i # 1 => i - 1 \in DOMAIN backlog' /\ i - 1 + 1 = i
  <2>1. backlog \in Seq(Socket) /\ backlog # <<>>
    BY <1>1 DEF Inv, TypeOK, BacklogSound
  <2> QED
    BY <2>1, <1>1
<1>3. s \in Socket /\ s \in Waiting /\ s \notin inputs /\ net[s] \notin {"new", "closed"}
  BY <1>2 DEF Waiting, Inv, BacklogSound, SocketsTracked
<1>4. Waiting' = Waiting \ {s} /\ Waiting \subseteq Socket
  <2>1. \A i, j \in DOMAIN backlog : backlog[i] = backlog[j] => i = j
    BY DEF Inv, BacklogSound
  <2>2. Waiting \subseteq Socket
    BY <1>2 DEF Waiting
  <2>3. ASSUME NEW t \in Waiting' PROVE t \in Waiting \ {s}
    BY <1>2, <2>1, <2>3 DEF Waiting
  <2>4. ASSUME NEW t \in Waiting \ {s} PROVE t \in Waiting'
    <3>1. PICK i \in DOMAIN backlog : backlog[i] = t /\ i # 1
      BY <1>2, <2>4 DEF Waiting
    <3>2. i - 1 \in DOMAIN backlog' /\ backlog'[i - 1] = t
      BY <1>2, <3>1
    <3> QED
      BY <3>2 DEF Waiting
  <2> QED
    BY <2>2, <2>3, <2>4
<1>5. addr[s] \in Peer
  BY <1>3 DEF Inv, Dialled
<1>6. /\ DOMAIN peers = inputs /\ outputs = inputs /\ inputs \subseteq Socket
      /\ peers \in [inputs -> Peer]
      /\ \A t \in inputs : peers[t] = addr[t] /\ net[t] \notin {"new", "closed"} /\ t \notin Waiting
      /\ retired \subseteq inputs /\ s \notin retired
  BY <1>3 DEF Inv, TypeOK, PeersRemembered, SocketsTracked
<1>7. \A t \in retired : net[t] = "reset"
  BY <1>3, <1>6 DEF Inv, AddressOrder
<1> HIDE DEF s
<1>8. /\ DOMAIN peers' = inputs'
      /\ peers'[s] = addr[s] /\ s \in inputs'
      /\ \A t \in inputs' \ {s} : t \in inputs /\ t \notin retired /\ peers'[t] = peers[t]
                                 /\ peers'[t] # addr[s]
  BY <1>1, <1>6 DEF ExtendedBy, Without
<1>9. peers' \in [inputs' -> Peer]
  <2>1. \A t \in inputs' : peers'[t] \in Peer
    BY <1>5, <1>6, <1>8
  <2>2. peers' = [t \in inputs' |-> peers'[t]]
    <3>1. peers' = [t \in DOMAIN peers' |-> peers'[t]]
      BY <1>1 DEF ExtendedBy
    <3> QED
      BY <3>1, <1>8
  <2> QED
    BY <2>1, <2>2
<1>10. /\ DOMAIN send_queuereg' = DOMAIN send_queuereg \cup {addr[s]}
       /\ send_queuereg'[addr[s]] = <<>>
       /\ \A p \in DOMAIN send_queuereg \ {addr[s]} : send_queuereg'[p] = send_queuereg[p]
  BY <1>1 DEF ExtendedBy
<1>11. \A t, u \in inputs : peers[t] = peers[u] => t = u
  BY <1>6 DEF Inv, QueuePerPeer
<1>12. /\ Cardinality(retired) \in Nat
       /\ retired = {} => Cardinality(retired) = 0
       /\ retired # {} => Cardinality(retired) > 0
  <2>1. CASE retired = {}
    BY <2>1, FS_EmptySet
  <2>2. CASE retired # {}
    <3>1. PICK t : t \in retired
      BY <2>2
    <3>2. retired = {t}
      BY <3>1, <1>11, <1>6
    <3>3. Cardinality({t}) = 1
      BY FS_Singleton
    <3> QED
      BY <3>2, <3>3, <2>2
  <2> QED
    BY <2>1, <2>2
<1> HIDE DEF retired
<1>13. /\ DOMAIN loggerreg' \subseteq DOMAIN loggerreg
       /\ \A l \in DOMAIN loggerreg' : loggerreg'[l] = loggerreg[l]
       /\ Cardinality(retired) > 0 /\ (\E l : Registered(addr[s]) \subseteq {l})
            => \A l \in DOMAIN loggerreg' : loggerreg'[l].peer # addr[s]
       /\ IsFiniteSet(DOMAIN loggerreg')
  BY <1>1, <1>12, ForgetFacts
<1>14. TypeOK'
  <2>1. net' \in [Socket -> {"new", "open", "fin", "reset", "closed"}]
    BY <1>1 DEF Inv, TypeOK
  <2>2. inputs' \subseteq Socket /\ outputs' = inputs'
    BY <1>1, <1>3, <1>6
  <2>3. /\ DOMAIN send_queuereg' \subseteq Peer
        /\ \A p \in DOMAIN send_queuereg' : send_queuereg'[p] \in Seq(Socket \cup {Http})
    <3>1. <<>> \in Seq(Socket \cup {Http})
      OBVIOUS
    <3> QED
      BY <1>5, <1>10, <3>1 DEF Inv, TypeOK
  <2>4. /\ DOMAIN loggerreg' \subseteq Name
        /\ \A l \in DOMAIN loggerreg' :
             loggerreg'[l] \in [peer : Peer, inverters : SUBSET Inverter]
    BY <1>13 DEF Inv, TypeOK
  <2> QED
    BY <1>1, <1>2, <1>9, <2>1, <2>2, <2>3, <2>4 DEF Inv, TypeOK
<1>15. SocketsTracked'
  BY <1>1, <1>3, <1>4, <1>6 DEF Inv, SocketsTracked
<1>16. QueuePerPeer'
  <2>1. \A t, u \in inputs' : peers'[t] = peers'[u] => t = u
    BY <1>8, <1>11
  <2>2. DOMAIN send_queuereg = {peers[t] : t \in inputs}
    BY <1>6 DEF Inv, QueuePerPeer
  <2>3. ASSUME NEW p \in DOMAIN send_queuereg' PROVE \E t \in inputs' : peers'[t] = p
    <3>1. CASE p = addr[s]
      BY <1>8, <3>1
    <3>2. CASE p # addr[s]
      <4>1. PICK t \in inputs : peers[t] = p
        BY <1>10, <2>2, <3>2
      <4>2. t \notin retired /\ t # s
        BY <4>1, <3>2, <1>6, <1>3 DEF retired
      <4> QED
        BY <4>1, <4>2, <1>1, <1>8
    <3> QED
      BY <3>1, <3>2
  <2>4. ASSUME NEW t \in inputs' PROVE peers'[t] \in DOMAIN send_queuereg'
    BY <1>8, <1>10, <2>2
  <2> QED
    BY <1>8, <2>1, <2>3, <2>4 DEF QueuePerPeer
<1>17. RepliesStayHome'
  <2>1. SUFFICES ASSUME NEW p \in DOMAIN send_queuereg',
                        NEW i \in DOMAIN send_queuereg'[p],
                        send_queuereg'[p][i] # Http
                 PROVE  /\ send_queuereg'[p][i] \in inputs'
                        /\ peers'[send_queuereg'[p][i]] = p
    BY <1>8 DEF RepliesStayHome
  <2>2. p # addr[s] /\ p \in DOMAIN send_queuereg
    BY <1>10
  <2>3. send_queuereg[p][i] \in inputs /\ peers[send_queuereg[p][i]] = p
    BY <1>6, <1>10, <2>1, <2>2 DEF Inv, RepliesStayHome
  <2>4. send_queuereg[p][i] \notin retired /\ send_queuereg[p][i] # s
    BY <2>2, <2>3, <1>3 DEF retired
  <2> QED
    BY <1>1, <1>8, <1>10, <2>2, <2>3, <2>4
<1>18. OwnersLive'
  <2>1. SUFFICES ASSUME WholeRecords, NEW l \in DOMAIN loggerreg'
                 PROVE  \E t \in inputs' : peers'[t] = loggerreg[l].peer /\ owner[t] = l
    BY <1>1, <1>8, <1>13 DEF OwnersLive
  <2>2. PICK t \in inputs : peers[t] = loggerreg[l].peer /\ owner[t] = l
    BY <1>6, <1>13, <2>1 DEF Inv, OwnersLive
  <2>3. t \notin retired
    <3>1. SUFFICES ASSUME t \in retired PROVE FALSE
      OBVIOUS
    <3>2. peers[t] = addr[s]
      BY <3>1 DEF retired
    <3>3. Registered(addr[s]) \subseteq {owner[t]}
      BY <3>2, <2>1, <1>6, OwnersOfPeer
    <3>4. Cardinality(retired) > 0
      BY <3>1, <1>12
    <3> QED
      BY <3>2, <3>3, <3>4, <1>13, <2>1, <2>2
  <2> QED
    BY <1>1, <1>3, <1>8, <2>2, <2>3
<1>19. \A t \in Socket : net'[t] = IF t \in retired THEN "closed" ELSE net[t]
  BY <1>1
<1>20. Dialled'
  BY <1>1, <1>6, <1>19 DEF Inv, Dialled
<1>21. BacklogSound'
  <2>1. \A i, j \in DOMAIN backlog' : backlog'[i] = backlog'[j] => i = j
    BY <1>2 DEF Inv, BacklogSound
  <2>2. \A t \in Waiting' : net'[t] \notin {"new", "closed"}
    BY <1>4, <1>6, <1>19 DEF Inv, BacklogSound
  <2> QED
    BY <1>1, <2>1, <2>2 DEF BacklogSound
<1>22. BatchSound'
  <2>1. \A t \in readable \cup writable \cup exceptional : t \in Socket
    BY DEF Inv, TypeOK
  <2> QED
    BY <1>1, <1>4, <1>19, <2>1 DEF Inv, BatchSound
<1>23. AddressOrder'
  <2>1. \A t, u \in Socket :
          t # u /\ addr[t] = addr[u] /\ net'[t] \in {"open", "fin"}
            => net'[u] \notin {"open", "fin"}
    BY <1>19 DEF Inv, AddressOrder
  <2>2. ASSUME NEW t \in Waiting', NEW u \in inputs', addr[t] = addr[u]
        PROVE  net'[u] = "reset"
    <3>1. t \in Waiting /\ t # s /\ t \in Socket
      BY <1>4
    <3>2. CASE u = s
      <4>1. PICK i \in DOMAIN backlog : backlog[i] = t /\ i # 1
        BY <1>2, <3>1 DEF Waiting
      <4>2. 1 < i
        BY <1>2, <4>1
      <4>3. net[s] = "reset"
        BY <1>2, <2>2, <3>2, <4>1, <4>2 DEF Inv, AddressOrder
      <4> QED
        BY <1>3, <1>6, <1>19, <3>2, <4>3
    <3>3. CASE u # s
      BY <1>6, <1>8, <1>19, <2>2, <3>1, <3>3 DEF Inv, AddressOrder
    <3> QED
      BY <3>2, <3>3
  <2>3. ASSUME NEW i \in DOMAIN backlog', NEW j \in DOMAIN backlog', i < j,
               addr[backlog'[i]] = addr[backlog'[j]]
        PROVE  net'[backlog'[i]] = "reset"
    <3>1. i + 1 \in DOMAIN backlog /\ j + 1 \in DOMAIN backlog /\ i + 1 < j + 1
      BY <1>2, <2>3
    <3>2. net[backlog[i + 1]] = "reset"
      BY <1>2, <2>3, <3>1 DEF Inv, AddressOrder
    <3>3. backlog[i + 1] \in Socket /\ backlog[i + 1] \notin retired
      BY <1>2, <1>6, <3>1 DEF Waiting
    <3> QED
      BY <1>2, <1>19, <3>2, <3>3
  <2> QED
    BY <1>1, <2>1, <2>2, <2>3 DEF AddressOrder
<1>24. PeersRemembered'
  BY <1>1, <1>6, <1>8 DEF PeersRemembered
<1> QED
  BY <1>13, <1>14, <1>15, <1>16, <1>17, <1>18, <1>20, <1>21, <1>22, <1>23, <1>24 DEF Inv

-----------------------------------------------------------------------------
(* A handler closes the socket it is given. *)
LEMMA CloseHandlerInv ==
  ASSUME Inv, NEW s \in Socket, PeerGone(s) \/ Exceptional(s)
  PROVE  Inv'
<1>1. /\ Close(s) /\ net[s] # "new" /\ s \notin Waiting
      /\ announcing = None /\ ~accepting
      /\ UNCHANGED <<addr, owner, backlog, accepting, announcing>>
      /\ readable' \subseteq readable /\ writable' \subseteq writable
      /\ exceptional' \subseteq exceptional
  BY DEF PeerGone, Reading, Exceptional, Inv, BatchSound
<1> QED
  BY <1>1, CloseInv

(* Every step of the device thread and the network keeps it. *)
LEMMA NextInv == Inv /\ [ServerNext]_serverVars => Inv'
<1> SUFFICES ASSUME Inv, [ServerNext]_serverVars PROVE Inv'
  OBVIOUS
<1>1. CASE Select
  BY <1>1, SelectInv
<1>2. CASE Accept
  BY <1>2, AcceptInv
<1>3. CASE SendTime
  BY <1>3, SendTimeInv
<1>4. ASSUME NEW s \in Socket, Handle(s) PROVE Inv'
  BY <1>4, CloseHandlerInv, ReceivedInv, WriteInv DEF Handle
<1>5. CASE Network
  BY <1>5, DialInv, LosePeerInv DEF Network
<1>6. CASE UNCHANGED serverVars
  <2>1. /\ Waiting' = Waiting /\ TypeOK' = TypeOK /\ SocketsTracked' = SocketsTracked
        /\ QueuePerPeer' = QueuePerPeer /\ RepliesStayHome' = RepliesStayHome
        /\ OwnersLive' = OwnersLive /\ loggerreg' = loggerreg
    BY <1>6 DEF serverVars, world, sockets, registries, batch, Waiting, TypeOK,
                SocketsTracked, QueuePerPeer, RepliesStayHome, OwnersLive
  <2>2. /\ Dialled' = Dialled /\ BacklogSound' = BacklogSound /\ BatchSound' = BatchSound
        /\ AddressOrder' = AddressOrder /\ PeersRemembered' = PeersRemembered
    BY <1>6, <2>1 DEF serverVars, world, sockets, registries, batch, Dialled,
                      BacklogSound, BatchSound, AddressOrder, PeersRemembered
  <2> QED
    BY <2>1, <2>2 DEF Inv
<1> QED
  BY <1>1, <1>2, <1>3, <1>4, <1>5, <1>6 DEF ServerNext, DeviceThread

(* The invariant holds in every state of the device thread. *)
THEOREM ServerInvariant == ServerSpec => []Inv
<1>1. Init => Inv
  BY InitInv
<1>2. Inv /\ [ServerNext]_serverVars => Inv'
  BY NextInv
<1> QED
  BY <1>1, <1>2, PTL DEF ServerSpec

(* Types, and the three views of the accepted sockets agree: inputs and
   outputs of select(), and peers. *)
THEOREM ServerTypes == ServerSpec => []TypeOK
<1>1. Inv => TypeOK
  BY DEF Inv
<1> QED
  BY <1>1, ServerInvariant, PTL

(* select() watches exactly the accepted sockets that are not closed, so no
   descriptor leaks and none is watched too long. *)
THEOREM SocketsAreTracked == ServerSpec => []SocketsTracked
<1>1. Inv => SocketsTracked
  BY DEF Inv
<1> QED
  BY <1>1, ServerInvariant, PTL

(* Every accepted connection has a send queue of its own, and there are no
   others, however peers come back. *)
THEOREM QueuesMatchPeers == ServerSpec => []QueuePerPeer
<1>1. Inv => QueuePerPeer
  BY DEF Inv
<1> QED
  BY <1>1, ServerInvariant, PTL

(* What process_data queues leaves on the connection it answers. *)
THEOREM RepliesAlwaysHome == ServerSpec => []RepliesStayHome
<1>1. Inv => RepliesStayHome
  BY DEF Inv
<1> QED
  BY <1>1, ServerInvariant, PTL

(* As long as every chunk begins with a record and holds its name, loggerreg
   leads to a connection of that very data logger. *)
THEOREM OwnersAlwaysLive == ServerSpec => []OwnersLive
<1>1. Inv => OwnersLive
  BY DEF Inv
<1> QED
  BY <1>1, ServerInvariant, PTL

(* Whoever is retired was reset: a connection that waits to be accepted is
   younger than the one it retires. *)
LEMMA AcceptRetiresDead ==
  Inv /\ Accept => \A s \in inputs : net'[s] = "closed" => net[s] = "reset"
<1> SUFFICES ASSUME Inv, Accept, NEW s \in inputs, net'[s] = "closed"
             PROVE  net[s] = "reset"
  OBVIOUS
<1>1. /\ accepting /\ backlog # <<>> /\ backlog \in Seq(Socket)
      /\ net' = [t \in Socket |->
                  IF t \in {u \in DOMAIN peers : peers[u] = addr[Head(backlog)]}
                  THEN "closed" ELSE net[t]]
  BY DEF Accept, Inv, TypeOK, BacklogSound
<1>2. Head(backlog) \in Waiting
  <2>1. 1 \in DOMAIN backlog /\ Head(backlog) = backlog[1]
    BY <1>1
  <2> QED
    BY <2>1 DEF Waiting
<1>3. s \in Socket /\ net[s] # "closed" /\ peers[s] = addr[s]
  BY DEF Inv, TypeOK, SocketsTracked, PeersRemembered
<1>4. addr[s] = addr[Head(backlog)]
  BY <1>1, <1>3
<1> QED
  BY <1>2, <1>4 DEF Inv, AddressOrder

(* handle_new_connection closes dead connections only. *)
THEOREM OnlyDeadRetired == ServerSpec => RetiresOnlyDead
BY AcceptRetiresDead, ServerInvariant, PTL DEF RetiresOnlyDead

(* The registrations of a step that closes nothing stay. *)
LEMMA HandlersKeepLoggers ==
  ASSUME NEW s \in Socket,
         Ping(s) \/ Data(s) \/ Announce(s) \/ Answer(s) \/ Ignored(s) \/ Write(s)
  PROVE  DOMAIN loggerreg \subseteq DOMAIN loggerreg'
<1>1. CASE \E l, p, found : Enrol(l, p, found)
  BY <1>1 DEF Enrol, ExtendedBy
<1>2. CASE UNCHANGED loggerreg
  BY <1>2
<1> QED
  BY <1>1, <1>2 DEF Ping, Data, Announce, Answer, Ignored, Write, registries

(* Closing a socket deletes registrations of its own peer only. *)
LEMMA CloseForgetsItsOwn ==
  ASSUME Inv, NEW s \in Socket, Close(s),
         NEW l \in DOMAIN loggerreg, l \notin DOMAIN loggerreg'
  PROVE  \E t \in DOMAIN peers : /\ peers[t] = loggerreg[l].peer
                                 /\ net[t] # "closed" /\ net'[t] = "closed"
<1>1. s \in DOMAIN peers /\ ForgetLoggers(peers[s], 1)
  BY DEF Close
<1>2. loggerreg[l].peer = peers[s]
  BY <1>1, ForgetFacts
<1>3. net[s] # "closed" /\ net'[s] = "closed"
  BY <1>1 DEF Close, Inv, TypeOK, SocketsTracked
<1> QED
  BY <1>1, <1>2, <1>3

(* At most one connection has an address pair, so their number says which. *)
LEMMA RetiredCount ==
  ASSUME Inv, NEW p, NEW retired, retired = {t \in DOMAIN peers : peers[t] = p}
  PROVE  Cardinality(retired) \in Nat /\ (Cardinality(retired) = 0 <=> retired = {})
<1>1. IsFiniteSet(retired)
  <2>1. \A t, u \in retired : t = u
    BY DEF Inv, QueuePerPeer
  <2>2. CASE retired = {}
    BY <2>2, FS_EmptySet
  <2>3. CASE retired # {}
    <3>1. PICK t : retired = {t}
      BY <2>1, <2>3
    <3> QED
      BY <3>1, FS_Singleton
  <2> QED
    BY <2>2, <2>3
<1> QED
  BY <1>1, FS_CardinalityType, FS_EmptySet

(* Accepting a connection deletes registrations of the one it retires. *)
LEMMA AcceptForgetsRetired ==
  ASSUME Inv, Accept, NEW l \in DOMAIN loggerreg, l \notin DOMAIN loggerreg'
  PROVE  \E t \in DOMAIN peers : /\ peers[t] = loggerreg[l].peer
                                 /\ net[t] # "closed" /\ net'[t] = "closed"
<1> DEFINE p       == addr[Head(backlog)]
           retired == {t \in DOMAIN peers : peers[t] = p}
<1>1. /\ net' = [t \in Socket |-> IF t \in retired THEN "closed" ELSE net[t]]
      /\ ForgetLoggers(p, Cardinality(retired))
  BY DEF Accept
<1>2. \A t \in DOMAIN peers : t \in Socket /\ net[t] # "closed"
  BY DEF Inv, TypeOK, SocketsTracked
<1>4. Cardinality(retired) \in Nat /\ (Cardinality(retired) = 0 <=> retired = {})
  BY RetiredCount
<1>5. loggerreg[l].peer = p
  <2> HIDE DEF p, retired
  <2> QED
    BY <1>1, <1>4, ForgetFacts
<1>6. retired # {}
  <2>1. SUFFICES ASSUME retired = {} PROVE FALSE
    OBVIOUS
  <2>2. Cardinality(retired) = 0
    BY <2>1, FS_EmptySet
  <2>3. loggerreg' = Without(loggerreg, {})
    <3> HIDE DEF p, retired
    <3> QED
      BY <1>1, <2>2, ForgetFacts
  <2> QED
    BY <2>3 DEF Without
<1> QED
  BY <1>1, <1>2, <1>5, <1>6

(* A step of the device thread deletes a registration with its connection. *)
LEMMA DeviceKeepsOwnership ==
  Inv /\ [ServerNext]_serverVars =>
  \A l \in DOMAIN loggerreg : l \notin DOMAIN loggerreg' =>
    \E s \in DOMAIN peers :
      /\ peers[s] = loggerreg[l].peer
      /\ net[s] # "closed" /\ net'[s] = "closed"
<1> SUFFICES ASSUME Inv, [ServerNext]_serverVars,
                    NEW l \in DOMAIN loggerreg, l \notin DOMAIN loggerreg'
             PROVE  \E s \in DOMAIN peers :
                      /\ peers[s] = loggerreg[l].peer
                      /\ net[s] # "closed" /\ net'[s] = "closed"
  OBVIOUS
<1>1. CASE Select \/ SendTime \/ Network \/ UNCHANGED serverVars
  BY <1>1 DEF Select, SendTime, Network, Dial, Fin, Reset, serverVars, registries
<1>2. CASE Accept
  BY <1>2, AcceptForgetsRetired
<1>3. ASSUME NEW s \in Socket, Handle(s)
      PROVE  \E t \in DOMAIN peers :
               /\ peers[t] = loggerreg[l].peer
               /\ net[t] # "closed" /\ net'[t] = "closed"
  <2>1. CASE PeerGone(s) \/ Exceptional(s)
    BY <2>1, CloseForgetsItsOwn DEF PeerGone, Exceptional
  <2>2. CASE ~(PeerGone(s) \/ Exceptional(s))
    BY <1>3, <2>2, HandlersKeepLoggers DEF Handle
  <2> QED
    BY <2>1, <2>2
<1> QED
  BY <1>1, <1>2, <1>3 DEF ServerNext, DeviceThread

(* A registration is deleted only by closing the connection it names, never
   by a late event of a socket that was closed before. *)
THEOREM OwnershipAlwaysKept == ServerSpec => OwnershipKept
BY DeviceKeepsOwnership, ServerInvariant, PTL DEF ServerSpec, OwnershipKept

-----------------------------------------------------------------------------
(* The HTTP thread, interleaved with the device thread. *)

\* comresp is a local variable of the wait loop, and what it was bound to was
\* fresh.
HttpInv == AnswerIsFresh /\ (comresp => step = "wait")

(* The device thread files an answer and records it in one step. *)
LEMMA DeviceStores ==
  ASSUME ServerNext
  PROVE  /\ stored \subseteq stored'
         /\ \A k \in DOMAIN commandresponse' : k \in DOMAIN commandresponse \/ k \in stored'
<1>1. CASE UNCHANGED <<commandresponse, stored>>
  BY <1>1
<1>2. CASE SendTime
  BY <1>2 DEF SendTime, Without
<1>3. CASE \E s \in Socket : Answer(s)
  BY <1>3 DEF Answer, ExtendedBy
<1>4. CASE Network \/ Select \/ Accept
  BY <1>1, <1>4
     DEF Network, Dial, Fin, Reset, Select, Accept, registries
<1>5. ASSUME NEW s \in Socket, Handle(s), ~Answer(s)
      PROVE  UNCHANGED <<commandresponse, stored>>
  BY <1>5 DEF Handle, PeerGone, Close, Ping, Data, Announce, Ignored, Write,
              Exceptional, registries
<1> QED
  BY <1>1, <1>2, <1>3, <1>4, <1>5 DEF ServerNext, DeviceThread

(* No request is under way at first. *)
LEMMA HttpInitInv == Init /\ HttpInit => HttpInv
BY DEF HttpInit, HttpInv, AnswerIsFresh

(* Only the device thread files answers, and it records what it files. *)
LEMMA HttpNextInv == HttpInv /\ [Next]_vars => HttpInv'
<1> SUFFICES ASSUME HttpInv, [Next]_vars PROVE HttpInv'
  OBVIOUS
<1> USE DEF HttpInv, AnswerIsFresh
<1>1. CASE ServerNext /\ UNCHANGED httpVars
  <2>1. step' = step /\ comresp' = comresp /\ Regkey' = Regkey
    BY <1>1 DEF httpVars, Regkey
  <2>2. Answered' => Answered \/ Regkey \in stored'
    BY <1>1, <2>1, DeviceStores DEF Answered
  <2> QED
    BY <1>1, <2>1, <2>2, DeviceStores
<1>2. CASE Receive \/ Lookup \/ Address \/ QueueCommand
  BY <1>2 DEF Receive, Lookup, Address, QueueCommand, EndWith
<1>3. CASE DeleteOld
  <2>1. ~comresp /\ comresp' = comresp /\ Regkey' = Regkey
    BY <1>3 DEF DeleteOld, Regkey
  <2>2. ~Answered'
    BY <1>3, <2>1 DEF DeleteOld, Without, Answered
  <2> QED
    BY <1>3, <2>1, <2>2
<1>4. CASE Poll
  <2>1. CASE Satisfied
    BY <1>4, <2>1 DEF Poll, EndWith
  <2>2. CASE ~Satisfied
    <3>1. /\ step' = step /\ step = "wait" /\ UNCHANGED <<request, serverVars>>
          /\ comresp' = (comresp \/ Answered)
      BY <1>4, <2>2 DEF Poll
    <3>2. Regkey' = Regkey /\ (Answered' <=> Answered) /\ stored' = stored
      BY <3>1 DEF Regkey, Answered, serverVars, registries
    <3> QED
      BY <3>1, <3>2
  <2> QED
    BY <2>1, <2>2
<1>5. CASE GiveUp
  BY <1>5 DEF GiveUp, EndWith
<1>6. CASE UNCHANGED vars
  BY <1>6 DEF vars, serverVars, registries, httpVars, Regkey, Answered
<1> QED
  BY <1>1, <1>2, <1>3, <1>4, <1>5, <1>6 DEF Next, HttpThread

(* What a waiting request takes for its answer was stored after its command
   was queued. *)
THEOREM AnswersAreFresh == Spec => []AnswerIsFresh
<1>1. Init /\ HttpInit => HttpInv
  BY HttpInitInv
<1>2. HttpInv /\ [Next]_vars => HttpInv'
  BY HttpNextInv
<1>3. HttpInv => AnswerIsFresh
  BY DEF HttpInv
<1> QED
  BY <1>1, <1>2, <1>3, PTL DEF Spec

(* No client is told OK for an answer from before its command. *)
THEOREM OkIsAlwaysAnswered == Spec => OkIsAnswered
<1>1. AnswerIsFresh /\ [Next]_vars =>
        (step = "wait" /\ step' = "idle" /\ reply' = "ok" => Regkey \in stored)
  <2> SUFFICES ASSUME AnswerIsFresh, [Next]_vars,
                      step = "wait", step' = "idle", reply' = "ok"
               PROVE  Regkey \in stored
    OBVIOUS
  <2>1. Poll \/ GiveUp
    BY DEF Next, HttpThread, vars, httpVars, Receive, Lookup, Address,
           QueueCommand, DeleteOld
  <2>2. comresp \/ Answered
    BY <2>1 DEF Poll, GiveUp, EndWith, Satisfied
  <2> QED
    BY <2>2 DEF AnswerIsFresh
<1> QED
  BY <1>1, AnswersAreFresh, PTL DEF Spec, OkIsAnswered

-----------------------------------------------------------------------------
(* The device thread's invariant, with the HTTP thread interleaved. *)

(* A command of a client goes to the end of a queue that is there. *)
LEMMA QueueCommandInv == Inv /\ QueueCommand => Inv'
<1> SUFFICES ASSUME Inv, QueueCommand PROVE Inv'
  OBVIOUS
<1>1. UNCHANGED <<world, sockets, batch, loggerreg, commandresponse>>
  BY DEF QueueCommand
<1>2. CASE qname \in DOMAIN send_queuereg
  <2>1. send_queuereg' = [send_queuereg EXCEPT ![qname] = Append(@, Http)]
    BY <1>2 DEF QueueCommand
  <2>2. \A p \in DOMAIN send_queuereg : send_queuereg[p] \in Seq(Socket \cup {Http})
    BY DEF Inv, TypeOK
  <2>3. /\ DOMAIN send_queuereg' = DOMAIN send_queuereg
        /\ \A p \in DOMAIN send_queuereg :
             send_queuereg'[p] = IF p = qname THEN Append(send_queuereg[p], Http)
                                              ELSE send_queuereg[p]
    BY <1>2, <2>1
  <2>4. \A p \in DOMAIN send_queuereg' : send_queuereg'[p] \in Seq(Socket \cup {Http})
    BY <2>2, <2>3
  <2>5. ASSUME NEW p \in DOMAIN send_queuereg', NEW i \in DOMAIN send_queuereg'[p],
               send_queuereg'[p][i] # Http
        PROVE  i \in DOMAIN send_queuereg[p] /\ send_queuereg'[p][i] = send_queuereg[p][i]
    BY <2>2, <2>3, <2>5
  <2>6. TypeOK'
    BY <1>1, <2>3, <2>4 DEF Inv, TypeOK, world, sockets, batch
  <2>7. QueuePerPeer'
    BY <1>1, <2>3 DEF Inv, QueuePerPeer, sockets
  <2>8. RepliesStayHome'
    BY <1>1, <2>3, <2>5 DEF Inv, RepliesStayHome, sockets
  <2> QED
    BY <1>1, <2>6, <2>7, <2>8 DEF Inv, SocketsTracked, OwnersLive, Dialled,
       BacklogSound, BatchSound, AddressOrder, PeersRemembered, Waiting,
       world, sockets, batch
<1>3. CASE qname \notin DOMAIN send_queuereg
  <2>1. UNCHANGED serverVars
    BY <1>1, <1>3 DEF QueueCommand, serverVars, registries
  <2> QED
    BY <2>1, NextInv
<1> QED
  BY <1>2, <1>3

(* Deleting an answer touches nothing the invariant speaks of but its type. *)
LEMMA DeleteOldInv == Inv /\ DeleteOld => Inv'
<1> SUFFICES ASSUME Inv, DeleteOld PROVE Inv'
  OBVIOUS
<1>1. /\ UNCHANGED <<world, sockets, batch, send_queuereg, loggerreg, stored>>
      /\ DOMAIN commandresponse' \subseteq DOMAIN commandresponse
      /\ \A k \in DOMAIN commandresponse' : commandresponse'[k] = commandresponse[k]
  BY DEF DeleteOld, Without
<1>2. TypeOK'
  BY <1>1 DEF Inv, TypeOK, world, sockets, batch
<1> QED
  BY <1>1, <1>2 DEF Inv, SocketsTracked, QueuePerPeer, RepliesStayHome, OwnersLive,
     Dialled, BacklogSound, BatchSound, AddressOrder, PeersRemembered, Waiting,
     world, sockets, batch

(* What a step of either thread is to the device thread's state. *)
LEMMA WholeNextInv == Inv /\ [Next]_vars => Inv'
<1> SUFFICES ASSUME Inv, [Next]_vars PROVE Inv'
  OBVIOUS
<1>1. CASE QueueCommand
  BY <1>1, QueueCommandInv
<1>2. CASE DeleteOld
  BY <1>2, DeleteOldInv
<1>3. CASE Receive \/ Lookup \/ Address \/ Poll \/ GiveUp \/ UNCHANGED vars
  <2>1. UNCHANGED serverVars
    BY <1>3 DEF Receive, Lookup, Address, Poll, GiveUp, vars
  <2> QED
    BY <2>1, NextInv
<1>4. CASE ServerNext
  BY <1>4, NextInv
<1> QED
  BY <1>1, <1>2, <1>3, <1>4 DEF Next, HttpThread

(* The invariant of the device thread holds with the HTTP thread interleaved
   in any way: its writes to the shared registries disturb nothing. *)
THEOREM WholeServerInvariant == Spec => []Inv
<1>1. Init => Inv
  BY InitInv
<1>2. Inv /\ [Next]_vars => Inv'
  BY WholeNextInv
<1> QED
  BY <1>1, <1>2, PTL DEF Spec

(* Queues, replies and registrations of the whole server: however requests and
   handlers interleave, and whatever the chunks hold, every connection has the
   one queue of its peer and what process_data queued leaves on its connection;
   and loggerreg leads to the data logger it names as long as every chunk begins
   with a record and holds its name. *)
THEOREM WholeServerSafe == Spec => [](QueuePerPeer /\ RepliesStayHome /\ OwnersLive)
<1>1. Inv => QueuePerPeer /\ RepliesStayHome /\ OwnersLive
  BY DEF Inv
<1> QED
  BY <1>1, WholeServerInvariant, PTL

(* If every chunk begins with a record and holds its name, "its own send queue
   and matching logger registration" go with a connection, as
   docs/development/grottserver-cleanup.md says: no registration is left of a
   connection that is gone. *)
THEOREM WholeRecordsNeverStale == ASSUME WholeRecords PROVE Spec => []NoStaleOwner
<1>1. Inv => NoStaleOwner
  BY DEF Inv, OwnersLive, QueuePerPeer, NoStaleOwner
<1> QED
  BY <1>1, WholeServerInvariant, PTL

(* The HTTP thread deletes no registration. *)
LEMMA HttpKeepsLoggers == ASSUME HttpThread PROVE UNCHANGED <<loggerreg, net, inputs>>
BY DEF HttpThread, Receive, Lookup, Address, QueueCommand, DeleteOld, Poll, GiveUp,
       serverVars, world, sockets, registries

(* In the whole server too, a registration goes only with the connection it
   names, and only dead connections are retired. *)
THEOREM WholeServerKeeps == Spec => OwnershipKept /\ RetiresOnlyDead
<1>1. Inv /\ [Next]_vars =>
        [\A l \in DOMAIN loggerreg : l \notin DOMAIN loggerreg' =>
           \E s \in DOMAIN peers :
             /\ peers[s] = loggerreg[l].peer
             /\ net[s] # "closed" /\ net'[s] = "closed"]_serverVars
  <2> SUFFICES ASSUME Inv, [Next]_vars,
                      NEW l \in DOMAIN loggerreg, l \notin DOMAIN loggerreg'
               PROVE  \E s \in DOMAIN peers :
                        /\ peers[s] = loggerreg[l].peer
                        /\ net[s] # "closed" /\ net'[s] = "closed"
    OBVIOUS
  <2>1. CASE HttpThread
    BY <2>1, HttpKeepsLoggers
  <2>2. CASE ServerNext \/ UNCHANGED serverVars
    BY <2>2, DeviceKeepsOwnership
  <2> QED
    BY <2>1, <2>2 DEF Next, vars
<1>2. Inv /\ [Next]_vars =>
        [Accept => \A s \in inputs : net'[s] = "closed" => net[s] = "reset"]_serverVars
  BY AcceptRetiresDead
<1> QED
  BY <1>1, <1>2, WholeServerInvariant, PTL DEF Spec, OwnershipKept, RetiresOnlyDead

-----------------------------------------------------------------------------
(* What is known at each step of a request. *)

\* The wait loop starts counting at zero.
RequestInv == HttpTypeOK /\ (step # "wait" => polls = 0)

(* No request is under way at first. *)
LEMMA RequestInitInv == HttpInit => RequestInv
<1> SUFFICES ASSUME HttpInit PROVE RequestInv
  OBVIOUS
<1>1. /\ step = "idle" /\ request = None /\ target = None /\ qname = None
      /\ polls = 0 /\ comresp = FALSE /\ reply = None
  BY DEF HttpInit
<1> QED
  BY <1>1 DEF HttpTypeOK, RequestInv

(* Each step of a request leaves what the next one needs. *)
LEMMA RequestNextInv == Inv /\ RequestInv /\ [Next]_vars => RequestInv'
<1> SUFFICES ASSUME Inv, RequestInv, [Next]_vars PROVE RequestInv'
  OBVIOUS
<1> USE DEF RequestInv
<1>1. CASE UNCHANGED httpVars
  BY <1>1 DEF HttpTypeOK, httpVars, Wait
<1>2. ASSUME NEW r \in {"ok", "refused", "dropped", "noresponse"}, EndWith(r)
      PROVE  RequestInv'
  BY <1>2 DEF EndWith, HttpTypeOK
<1>3. CASE Receive
  BY <1>3, HttpAssumption DEF Receive, HttpTypeOK
<1>4. CASE Lookup
  <2>1. CASE Candidates = {}
    BY <1>2, <1>4, <2>1 DEF Lookup
  <2>2. CASE Candidates # {}
    <3>1. /\ target' \in Candidates /\ step' = "address" /\ step = "lookup"
          /\ UNCHANGED <<request, qname, polls, comresp, reply>>
      BY <1>4, <2>2 DEF Lookup
    <3>2. target' \in Name
      BY <3>1 DEF Candidates, Inv, TypeOK
    <3> QED
      BY <3>1, <3>2, ServerAssumption DEF HttpTypeOK
  <2> QED
    BY <2>1, <2>2
<1>5. CASE Address
  <2>1. CASE target \in Candidates
    <3>1. /\ qname' = loggerreg[target].peer /\ step' = "queue" /\ step = "address"
          /\ UNCHANGED <<request, target, polls, comresp, reply>>
      BY <1>5, <2>1 DEF Address
    <3>2. qname' \in Peer
      BY <2>1, <3>1 DEF Candidates, Inv, TypeOK
    <3> QED
      BY <3>1, <3>2, ServerAssumption DEF HttpTypeOK
  <2>2. CASE target \notin Candidates
    BY <1>2, <1>5, <2>2 DEF Address
  <2> QED
    BY <2>1, <2>2
<1>6. CASE QueueCommand
  <2>1. CASE qname \in DOMAIN send_queuereg
    BY <1>6, <2>1 DEF QueueCommand, HttpTypeOK
  <2>2. CASE qname \notin DOMAIN send_queuereg
    BY <1>2, <1>6, <2>2 DEF QueueCommand
  <2> QED
    BY <2>1, <2>2
<1>7. CASE DeleteOld
  <2>1. /\ step = "delete" /\ step' = "wait"
        /\ UNCHANGED <<request, target, qname, polls, comresp, reply>>
    BY <1>7 DEF DeleteOld
  <2>2. polls' = 0 /\ Wait' \in Nat
    BY <2>1, HttpAssumption DEF Wait
  <2> QED
    BY <2>1, <2>2 DEF HttpTypeOK
<1>8. CASE Poll
  <2>1. CASE Satisfied
    BY <1>2, <1>8, <2>1 DEF Poll
  <2>2. CASE ~Satisfied
    <3>1. /\ polls < Wait /\ polls' = polls + 1 /\ comresp' = (comresp \/ Answered)
          /\ UNCHANGED <<step, request, target, qname, reply>>
      BY <1>8, <2>2 DEF Poll
    <3>2. Wait' = Wait /\ Wait \in Nat
      BY <3>1, HttpAssumption DEF Wait
    <3>3. comresp' \in BOOLEAN
      BY <3>1, Zenon
    <3>4. polls' \in Nat /\ polls' <= Wait' /\ step' = step /\ step = "wait"
      BY <1>8, <3>1, <3>2 DEF HttpTypeOK, Poll
    <3> QED
      BY <3>1, <3>3, <3>4 DEF HttpTypeOK
  <2> QED
    BY <2>1, <2>2
<1>9. CASE GiveUp
  BY <1>2, <1>9 DEF GiveUp
<1> QED
  BY <1>1, <1>3, <1>4, <1>5, <1>6, <1>7, <1>8, <1>9 DEF Next, HttpThread, vars

(* Types of the whole server: a request is in progress exactly when the thread
   is not idle, it has a data logger from the address step on and a queue name
   from the next one, and it polls no longer than it may. *)
THEOREM WholeServerTypes == Spec => [](TypeOK /\ HttpTypeOK)
<1>1. Init /\ HttpInit => RequestInv
  BY RequestInitInv
<1>2. Inv /\ RequestInv /\ [Next]_vars => RequestInv'
  BY RequestNextInv
<1>3. Inv => TypeOK
  BY DEF Inv
<1>4. RequestInv => HttpTypeOK
  BY DEF RequestInv
<1> QED
  BY <1>1, <1>2, <1>3, <1>4, WholeServerInvariant, PTL DEF Spec

-----------------------------------------------------------------------------
(* The registries, kept by address and port, implement ConnectionRouter, which
   knows connections only. *)

Enrolled  == [s \in inputs |-> owner[s]]
Mailbox   == [s \in inputs |-> send_queuereg[peers[s]]]
Directory == [l \in DOMAIN loggerreg |-> Behind(loggerreg[l].peer)]

(* A choice without a choice. *)
LEMMA OnlyOneBehind ==
  ASSUME NEW I, NEW f, \A s, t \in I : f[s] = f[t] => s = t, NEW s \in I, NEW p, f[s] = p
  PROVE  (IF \E t \in I : f[t] = p THEN CHOOSE t \in I : f[t] = p ELSE None) = s
<1>1. \E t \in I : f[t] = p
  OBVIOUS
<1>2. (CHOOSE t \in I : f[t] = p) \in I /\ f[CHOOSE t \in I : f[t] = p] = p
  BY <1>1
<1>3. (CHOOSE t \in I : f[t] = p) = s
  BY <1>2
<1> QED
  BY <1>1, <1>3

(* What the invariant says in the router's terms. *)
RoutingSound ==
  /\ \A s \in inputs : Behind(peers[s]) = s
  /\ \A l \in DOMAIN loggerreg :
       \E s \in inputs : /\ Directory[l] = s /\ owner[s] = l
                         /\ peers[s] = loggerreg[l].peer

(* It says so of every state and of its successor. *)
LEMMA RoutingIsSound ==
  ASSUME WholeRecords
  PROVE  /\ Inv => RoutingSound
         /\ Inv' => RoutingSound'
<1>1. ASSUME Inv PROVE RoutingSound
  <2>1. /\ DOMAIN peers = inputs
        /\ \A s, t \in inputs : peers[s] = peers[t] => s = t
    BY <1>1 DEF Inv, TypeOK, QueuePerPeer
  <2>2. \A s \in inputs : Behind(peers[s]) = s
    BY <2>1, OnlyOneBehind DEF Behind
  <2> QED
    BY <1>1, <2>1, <2>2 DEF RoutingSound, Directory, Inv, OwnersLive
<1>2. ASSUME Inv' PROVE RoutingSound'
  <2>1. /\ DOMAIN peers' = inputs'
        /\ \A s, t \in inputs' : peers'[s] = peers'[t] => s = t
    BY <1>2 DEF Inv, TypeOK, QueuePerPeer
  <2>2. \A s \in inputs' : Behind(peers[s])' = s
    BY <2>1, OnlyOneBehind DEF Behind
  <2> QED
    BY <1>2, <2>1, <2>2 DEF RoutingSound, Directory, Inv, OwnersLive
<1> QED
  BY <1>1, <1>2

(* What leaves the connections, the queues and the registrations alone leaves
   the router alone. *)
LEMMA RouterStays ==
  ASSUME Inv, inputs' = inputs, peers' = peers, send_queuereg' = send_queuereg,
         loggerreg' = loggerreg, \A s \in inputs : owner'[s] = owner[s]
  PROVE  UNCHANGED <<Enrolled, Mailbox, Directory>>
BY DEF Enrolled, Mailbox, Directory, Behind

(* Closing a connection in service takes its mailbox and its entry along. *)
LEMMA RouterCloses ==
  ASSUME WholeRecords, Inv, Inv', NEW s \in inputs, Close(s), UNCHANGED owner
  PROVE  Router!Close(s)
<1>1. /\ RoutingSound /\ RoutingSound' /\ DOMAIN peers = inputs
      /\ \A t, u \in inputs : peers[t] = peers[u] => t = u
      /\ DOMAIN send_queuereg = {peers[t] : t \in inputs}
  BY RoutingIsSound DEF Inv, TypeOK, QueuePerPeer
<1>2. /\ inputs' = inputs \ {s} /\ peers' = Without(peers, {s})
      /\ send_queuereg' = Without(send_queuereg, {peers[s]})
      /\ ForgetLoggers(peers[s], 1)
  BY <1>1 DEF Close
<1>3. \A t \in inputs' : /\ t \in inputs /\ peers'[t] = peers[t]
                         /\ peers[t] \in DOMAIN send_queuereg
                         /\ send_queuereg'[peers[t]] = send_queuereg[peers[t]]
  BY <1>1, <1>2 DEF Without
<1>4. /\ DOMAIN loggerreg' \subseteq DOMAIN loggerreg
      /\ \A l \in DOMAIN loggerreg' : loggerreg'[l] = loggerreg[l]
      /\ \A l \in DOMAIN loggerreg : l \notin DOMAIN loggerreg' => loggerreg[l].peer = peers[s]
  BY <1>2, ForgetFacts
<1>5. Enrolled' = [d \in DOMAIN Enrolled \ {s} |-> Enrolled[d]]
  BY <1>2 DEF Enrolled
<1>6. Mailbox' = [d \in DOMAIN Enrolled \ {s} |-> Mailbox[d]]
  BY <1>2, <1>3 DEF Enrolled, Mailbox
<1>7. \A l \in DOMAIN loggerreg' : Directory'[l] = Directory[l] /\ Directory[l] # s
  <2> SUFFICES ASSUME NEW l \in DOMAIN loggerreg'
               PROVE  Directory'[l] = Directory[l] /\ Directory[l] # s
    OBVIOUS
  <2>1. PICK t \in inputs' : Directory'[l] = t /\ peers'[t] = loggerreg'[l].peer
    BY <1>1 DEF RoutingSound
  <2>2. PICK u \in inputs : Directory[l] = u /\ peers[u] = loggerreg[l].peer
    BY <1>1, <1>4 DEF RoutingSound
  <2>3. t \in inputs /\ t # s
    BY <1>2, <2>1
  <2>4. peers[t] = peers[u]
    BY <1>3, <1>4, <2>1, <2>2
  <2>5. t = u
    BY <1>1, <2>2, <2>3, <2>4
  <2> QED
    BY <2>1, <2>2, <2>3, <2>5
<1>8. \A l \in DOMAIN loggerreg : l \notin DOMAIN loggerreg' => Directory[l] = s
  BY <1>1, <1>4 DEF RoutingSound
<1>9. /\ Directory' = [l \in DOMAIN loggerreg' |-> Directory'[l]]
      /\ DOMAIN Directory = DOMAIN loggerreg
  BY DEF Directory
<1>10. DOMAIN loggerreg' = {l \in DOMAIN Directory : Directory[l] \notin {s}}
  BY <1>4, <1>7, <1>8, <1>9
<1>11. Directory' = [k \in {l \in DOMAIN Directory : Directory[l] \notin {s}} |-> Directory[k]]
  BY <1>7, <1>9, <1>10
<1> QED
  BY <1>5, <1>6, <1>11 DEF Router!Close, Router!InService, Router!Kept,
                           Enrolled, Mailbox, Directory

(* A connection that is accepted enters service with an empty mailbox, and
   what its address pair was used for before goes. *)
LEMMA RouterServes ==
  ASSUME WholeRecords, Inv, Inv', Accept
  PROVE  \E c \in Socket, l \in Logger, gone \in SUBSET inputs : Router!Serve(c, l, gone)
<1> DEFINE s       == Head(backlog)
           retired == {t \in DOMAIN peers : peers[t] = addr[s]}
<1>1. /\ inputs' = (inputs \ retired) \cup {s}
      /\ peers' = ExtendedBy(Without(peers, retired), s, addr[s])
      /\ send_queuereg' = ExtendedBy(send_queuereg, addr[s], <<>>)
      /\ ForgetLoggers(addr[s], Cardinality(retired))
      /\ UNCHANGED <<addr, owner>>
  BY DEF Accept
<1>2. s \in Socket /\ s \notin inputs /\ owner[s] \in Logger
  <2>1. 1 \in DOMAIN backlog /\ s = backlog[1] /\ backlog[1] \in Socket
    BY DEF Accept, Inv, TypeOK, BacklogSound
  <2>2. s \in Waiting
    BY <2>1 DEF Waiting
  <2> QED
    BY <2>1, <2>2 DEF Inv, BacklogSound, SocketsTracked, Dialled
<1>3. /\ RoutingSound /\ RoutingSound' /\ DOMAIN peers = inputs
      /\ \A t, u \in inputs : peers[t] = peers[u] => t = u
      /\ DOMAIN send_queuereg = {peers[t] : t \in inputs}
  BY RoutingIsSound DEF Inv, TypeOK, QueuePerPeer
<1>4. Cardinality(retired) \in Nat /\ (Cardinality(retired) = 0 <=> retired = {})
  BY RetiredCount
<1>5. \A u \in inputs : u \in retired <=> peers[u] = addr[s]
  BY <1>3
<1>6. retired \subseteq inputs
  BY <1>3
<1>7. \A u \in retired : Registered(addr[s]) \subseteq {owner[u]}
  BY <1>3, <1>5, <1>6, OwnersOfPeer
<1> HIDE DEF s, retired
<1>8. /\ DOMAIN loggerreg' \subseteq DOMAIN loggerreg
      /\ \A l \in DOMAIN loggerreg' : loggerreg'[l] = loggerreg[l]
      /\ \A l \in DOMAIN loggerreg : l \notin DOMAIN loggerreg' => loggerreg[l].peer = addr[s]
      /\ Cardinality(retired) > 0 /\ (\E l : Registered(addr[s]) \subseteq {l})
           => \A l \in DOMAIN loggerreg' : loggerreg'[l].peer # addr[s]
  BY <1>1, <1>4, ForgetFacts
<1>9. ASSUME NEW u \in retired
      PROVE  \A l \in DOMAIN loggerreg' : loggerreg[l].peer # addr[s]
  BY <1>4, <1>7, <1>8
<1>10. /\ peers'[s] = addr[s]
       /\ \A t \in inputs' \ {s} : /\ t \in inputs /\ t \notin retired
                                   /\ peers'[t] = peers[t] /\ peers[t] # addr[s]
  BY <1>1, <1>3, <1>5 DEF ExtendedBy, Without
<1>11. /\ send_queuereg'[addr[s]] = <<>>
       /\ \A t \in inputs' \ {s} : send_queuereg'[peers[t]] = send_queuereg[peers[t]]
  BY <1>1, <1>3, <1>10 DEF ExtendedBy
<1>12. Enrolled' = [d \in (DOMAIN Enrolled \ retired) \cup {s} |->
                      IF d = s THEN owner[s] ELSE Enrolled[d]]
  BY <1>1, <1>2 DEF Enrolled
<1>13. Mailbox' = [d \in (DOMAIN Enrolled \ retired) \cup {s} |->
                     IF d = s THEN <<>> ELSE Mailbox[d]]
  <2>1. \A t \in inputs' : send_queuereg'[peers'[t]] = IF t = s THEN <<>> ELSE Mailbox[t]
    BY <1>10, <1>11 DEF Mailbox
  <2> QED
    BY <1>1, <2>1 DEF Enrolled, Mailbox
<1>14. ASSUME NEW l \in DOMAIN loggerreg'
       PROVE  Directory'[l] = Directory[l] /\ Directory[l] \notin retired
  <2>1. PICK t \in inputs' : Directory'[l] = t /\ peers'[t] = loggerreg'[l].peer
    BY <1>3 DEF RoutingSound
  <2>2. PICK u \in inputs : Directory[l] = u /\ peers[u] = loggerreg[l].peer
    BY <1>3, <1>8 DEF RoutingSound
  <2>3. peers'[t] = peers[u]
    BY <1>8, <2>1, <2>2
  <2>4. u \notin retired
    BY <1>5, <1>9, <2>2
  <2>5. t # s
    BY <1>5, <1>10, <2>3, <2>4
  <2>6. t = u
    BY <1>3, <1>10, <2>3, <2>5
  <2> QED
    BY <2>1, <2>2, <2>4, <2>6
<1>15. ASSUME NEW l \in DOMAIN loggerreg, l \notin DOMAIN loggerreg'
       PROVE  Directory[l] \in retired
  <2>1. PICK u \in inputs : Directory[l] = u /\ peers[u] = loggerreg[l].peer
    BY <1>3 DEF RoutingSound
  <2> QED
    BY <1>5, <1>8, <1>15, <2>1
<1>16. /\ Directory' = [l \in DOMAIN loggerreg' |-> Directory'[l]]
       /\ DOMAIN Directory = DOMAIN loggerreg
  BY DEF Directory
<1>17. DOMAIN loggerreg' = {l \in DOMAIN Directory : Directory[l] \notin retired}
  BY <1>8, <1>14, <1>15, <1>16
<1>18. Directory' = [k \in {l \in DOMAIN Directory : Directory[l] \notin retired} |->
                       Directory[k]]
  BY <1>14, <1>16, <1>17
<1>19. PICK c \in Socket, l \in Logger, gone \in SUBSET inputs :
         c = s /\ l = owner[s] /\ gone = retired
  BY <1>2, <1>6
<1>20. Router!Serve(c, l, gone)
  BY <1>2, <1>12, <1>13, <1>18, <1>19
     DEF Router!Serve, Router!InService, Router!Kept, Enrolled, Mailbox, Directory
<1> QED
  BY <1>20

(* A message for a peer is a message for the one connection that has it. *)
LEMMA QueueIsMailbox ==
  ASSUME Inv, NEW s \in inputs, UNCHANGED <<inputs, peers>>, NEW q,
         send_queuereg' = [send_queuereg EXCEPT ![peers[s]] = q]
  PROVE  Mailbox' = [Mailbox EXCEPT ![s] = q]
<1>1. /\ DOMAIN peers = inputs
      /\ \A t, u \in inputs : peers[t] = peers[u] => t = u
      /\ DOMAIN send_queuereg = {peers[t] : t \in inputs}
  BY DEF Inv, TypeOK, QueuePerPeer
<1>2. \A t \in inputs : send_queuereg'[peers[t]] = IF t = s THEN q ELSE send_queuereg[peers[t]]
  BY <1>1
<1> QED
  BY <1>2 DEF Mailbox

(* A record is answered, and its data logger enrolled or not. *)
LEMMA RouterReplies ==
  ASSUME WholeRecords, Inv, Inv', NEW s \in inputs, Put(s, s), UNCHANGED <<world, sockets>>,
         \/ UNCHANGED loggerreg
         \/ \E l \in LoggerNames(s), found \in SUBSET Inverter : Enrol(l, addr[s], found)
  PROVE  Router!Reply(s)
<1>1. /\ RoutingSound /\ RoutingSound' /\ peers[s] = addr[s] /\ DOMAIN Mailbox = inputs
      /\ UNCHANGED <<inputs, peers, owner>>
  BY RoutingIsSound DEF Inv, PeersRemembered, world, sockets, Mailbox
<1>2. Mailbox' = [Mailbox EXCEPT ![s] = Append(Mailbox[s], s)]
  <2>1. addr[s] \in DOMAIN send_queuereg /\ Mailbox[s] = send_queuereg[addr[s]]
    BY <1>1 DEF Inv, QueuePerPeer, TypeOK, Mailbox
  <2>2. send_queuereg' = [send_queuereg EXCEPT ![peers[s]] = Append(Mailbox[s], s)]
    BY <1>1, <2>1 DEF Put
  <2> QED
    BY <1>1, <2>2, QueueIsMailbox
<1>3. Enrolled' = Enrolled /\ Enrolled[s] = owner[s]
  BY <1>1 DEF Enrolled
<1>4. CASE UNCHANGED loggerreg
  <2>1. Directory' = Directory
    BY <1>1, <1>4 DEF Directory, Behind
  <2> QED
    BY <1>2, <1>3, <2>1 DEF Router!Reply, Enrolled, Mailbox, Directory
<1>5. CASE \E l \in LoggerNames(s), found \in SUBSET Inverter : Enrol(l, addr[s], found)
  <2>1. PICK found \in SUBSET Inverter : Enrol(owner[s], addr[s], found)
    BY <1>5 DEF LoggerNames, WholeRecords
  <2>2. /\ DOMAIN loggerreg' = DOMAIN loggerreg \cup {owner[s]}
        /\ loggerreg'[owner[s]].peer = addr[s]
        /\ \A k \in DOMAIN loggerreg \ {owner[s]} : loggerreg'[k] = loggerreg[k]
    BY <2>1 DEF Enrol, ExtendedBy
  <2>3. Behind(addr[s]) = s /\ \A p : Behind(p)' = Behind(p)
    BY <1>1 DEF RoutingSound, Behind
  <2>4. \A k \in DOMAIN loggerreg' :
          Behind(loggerreg[k].peer)' = IF k = owner[s] THEN s ELSE Behind(loggerreg[k].peer)
    <3> SUFFICES ASSUME NEW k \in DOMAIN loggerreg'
                 PROVE  Behind(loggerreg[k].peer)'
                          = IF k = owner[s] THEN s ELSE Behind(loggerreg[k].peer)
      OBVIOUS
    <3>1. CASE k = owner[s]
      <4>1. Behind(loggerreg[k].peer)' = Behind(addr[s])
        BY <1>1, <2>2, <3>1 DEF Behind
      <4> QED
        BY <2>3, <3>1, <4>1
    <3>2. CASE k # owner[s]
      BY <1>1, <2>2, <3>2 DEF Behind
    <3> QED
      BY <3>1, <3>2
  <2>5. Directory' = [k \in DOMAIN Directory \cup {Enrolled[s]} |->
                        IF k = Enrolled[s] THEN s ELSE Directory[k]]
    BY <1>3, <2>2, <2>4 DEF Directory
  <2> QED
    BY <1>2, <1>3, <2>5 DEF Router!Reply, Enrolled, Mailbox, Directory
<1> QED
  BY <1>4, <1>5

(* The oldest message of a connection leaves, or there is none. *)
LEMMA RouterDelivers ==
  ASSUME Inv, NEW s \in Socket, Write(s)
  PROVE  \/ s \in inputs /\ Router!Deliver(s)
         \/ UNCHANGED <<Enrolled, Mailbox, Directory>>
<1>1. UNCHANGED <<inputs, peers, owner, loggerreg>> /\ DOMAIN peers = inputs
  BY DEF Write, world, sockets, Inv, TypeOK
<1>2. CASE s \in DOMAIN peers /\ send_queuereg[peers[s]] # <<>>
  <2>1. send_queuereg' = [send_queuereg EXCEPT ![peers[s]] = Tail(@)] /\ s \in inputs
    BY <1>1, <1>2 DEF Write
  <2>2. Mailbox[s] = send_queuereg[peers[s]]
    BY <2>1 DEF Mailbox
  <2>3. send_queuereg' = [send_queuereg EXCEPT ![peers[s]] = Tail(Mailbox[s])]
    BY <2>1, <2>2
  <2>4. Mailbox' = [Mailbox EXCEPT ![s] = Tail(Mailbox[s])]
    BY <1>1, <2>1, <2>3, QueueIsMailbox
  <2>5. Enrolled' = Enrolled /\ Directory' = Directory
    BY <1>1 DEF Enrolled, Directory, Behind
  <2> QED
    BY <1>2, <2>1, <2>2, <2>4, <2>5 DEF Router!Deliver, Enrolled, Mailbox, Directory
<1>3. CASE ~(s \in DOMAIN peers /\ send_queuereg[peers[s]] # <<>>)
  <2>1. send_queuereg' = send_queuereg
    BY <1>3 DEF Write
  <2> QED
    BY <1>1, <2>1, RouterStays
<1> QED
  BY <1>2, <1>3

(* A client's command is posted to a connection in service, or the request is
   dropped. *)
LEMMA RouterPosts ==
  ASSUME Inv, QueueCommand
  PROVE  \/ \E s \in inputs : Router!Post(s)
         \/ UNCHANGED <<Enrolled, Mailbox, Directory>>
<1>1. UNCHANGED <<inputs, peers, owner, loggerreg>>
  BY DEF QueueCommand, world, sockets
<1>2. CASE qname \in DOMAIN send_queuereg
  <2>1. PICK s \in inputs : peers[s] = qname
    BY <1>2 DEF Inv, TypeOK, QueuePerPeer
  <2>2. Mailbox[s] = send_queuereg[peers[s]]
    BY DEF Mailbox
  <2>3. send_queuereg' = [send_queuereg EXCEPT ![peers[s]] = Append(Mailbox[s], Http)]
    BY <1>2, <2>1, <2>2 DEF QueueCommand
  <2>4. Mailbox' = [Mailbox EXCEPT ![s] = Append(Mailbox[s], Http)]
    BY <1>1, <2>3, QueueIsMailbox
  <2>5. Enrolled' = Enrolled /\ Directory' = Directory
    BY <1>1 DEF Enrolled, Directory, Behind
  <2>6. Router!Post(s)
    BY <2>4, <2>5 DEF Router!Post, Enrolled, Mailbox, Directory
  <2> QED
    BY <2>6
<1>3. CASE qname \notin DOMAIN send_queuereg
  BY <1>1, <1>3, RouterStays DEF QueueCommand
<1> QED
  BY <1>2, <1>3

(* At first nothing is in service. *)
LEMMA InitRoutes == Init => Router!Init
BY DEF Init, EmptyDict, Router!Init, Router!InService

(* Each step of the device thread is one of the router's, or invisible to it. *)
LEMMA DeviceRoutes ==
  ASSUME WholeRecords, Inv, Inv', ServerNext
  PROVE  Router!Next \/ UNCHANGED <<Enrolled, Mailbox, Directory>>
<1>1. Router!InService = inputs
  BY DEF Router!InService
<1>2. CASE Select
  BY <1>2, RouterStays DEF Select, world, sockets, registries
<1>3. CASE Network
  <2>1. PICK s \in Socket : \/ Fin(s) \/ Reset(s)
                            \/ \E p \in Peer, l \in Logger : Dial(s, p, l)
    BY <1>3 DEF Network
  <2>2. UNCHANGED <<sockets, registries>>
    BY <2>1 DEF Fin, Reset, Dial
  <2>3. \A t \in inputs : owner'[t] = owner[t]
    BY <2>1 DEF Fin, Reset, Dial, Inv, TypeOK, SocketsTracked
  <2> QED
    BY <2>2, <2>3, RouterStays DEF sockets, registries
<1>4. CASE Accept
  BY <1>1, <1>4, RouterServes DEF Router!Next
<1>5. CASE SendTime
  <2>1. announcing \in inputs /\ Put(announcing, announcing)
        /\ UNCHANGED <<world, sockets, loggerreg>>
    BY <1>5 DEF SendTime, Inv, BatchSound
  <2>2. PICK s \in inputs : s = announcing
    BY <2>1
  <2>3. Put(s, s)
    BY <2>1, <2>2 DEF Put
  <2>4. Router!Reply(s)
    BY <2>1, <2>3, RouterReplies
  <2> QED
    BY <1>1, <2>4 DEF Router!Next
<1>6. ASSUME NEW s \in Socket, PeerGone(s) \/ Exceptional(s)
      PROVE  Router!Next \/ UNCHANGED <<Enrolled, Mailbox, Directory>>
  <2>1. Close(s) /\ UNCHANGED owner
    BY <1>6 DEF PeerGone, Exceptional
  <2>2. CASE s \in inputs
    <3>1. Router!Close(s)
      BY <2>1, <2>2, RouterCloses
    <3> QED
      BY <1>1, <2>2, <3>1 DEF Router!Next
  <2>3. CASE s \notin inputs
    <3>1. UNCHANGED <<send_queuereg, loggerreg>> /\ inputs' = inputs
          /\ peers' = Without(peers, {s}) /\ DOMAIN peers = inputs /\ peers \in [inputs -> Peer]
      BY <2>1, <2>3 DEF Close, Inv, TypeOK
    <3>2. peers' = peers
      BY <2>3, <3>1 DEF Without
    <3> QED
      BY <2>1, <3>1, <3>2, RouterStays
  <2> QED
    BY <2>2, <2>3
<1>7. ASSUME NEW s \in Socket, Ping(s) \/ Data(s) \/ Announce(s)
      PROVE  Router!Next
  <2>1. /\ s \in inputs
        /\ Put(s, s) /\ UNCHANGED <<world, sockets>>
    BY <1>7 DEF Ping, Data, Announce, Received, Reading, Inv, BatchSound, SocketsTracked
  <2>2. \/ UNCHANGED loggerreg
        \/ \E l \in LoggerNames(s), found \in SUBSET Inverter : Enrol(l, addr[s], found)
    <3>1. CASE Ping(s)
      BY <3>1 DEF Ping
    <3>2. CASE Data(s)
      BY <3>2 DEF Data
    <3>3. CASE Announce(s)
      <4>1. PICK l \in LoggerNames(s), i \in Inverter : Enrol(l, addr[s], {i})
        BY <3>3 DEF Announce
      <4>2. {i} \in SUBSET Inverter
        OBVIOUS
      <4> QED
        BY <4>1, <4>2
    <3> QED
      BY <1>7, <3>1, <3>2, <3>3
  <2>3. Router!Reply(s)
    BY <2>1, <2>2, RouterReplies
  <2> QED
    BY <1>1, <2>1, <2>3 DEF Router!Next
<1>8. ASSUME NEW s \in Socket, Answer(s) \/ Ignored(s)
      PROVE  UNCHANGED <<Enrolled, Mailbox, Directory>>
  BY <1>8, RouterStays DEF Answer, Ignored, Received, world, sockets, registries
<1>9. ASSUME NEW s \in Socket, Write(s)
      PROVE  Router!Next \/ UNCHANGED <<Enrolled, Mailbox, Directory>>
  BY <1>1, <1>9, RouterDelivers DEF Router!Next
<1> QED
  BY <1>2, <1>3, <1>4, <1>5, <1>6, <1>7, <1>8, <1>9 DEF ServerNext, DeviceThread, Handle

(* The device thread routes as if each connection had a mailbox and an entry
   of its own, as long as every chunk begins with a record and holds its name:
   the address pairs its registries are kept by never mix up two connections. *)
THEOREM RegistriesRoute == ASSUME WholeRecords PROVE ServerSpec => ImplementsRouter
<1>1. Init => Router!Init
  BY InitRoutes
<1>2. Inv /\ Inv' /\ [ServerNext]_serverVars => [Router!Next]_(Router!routerVars)
  <2> SUFFICES ASSUME Inv, Inv', [ServerNext]_serverVars
               PROVE  [Router!Next]_(Router!routerVars)
    OBVIOUS
  <2>1. CASE ServerNext
    BY <2>1, DeviceRoutes DEF Router!routerVars, Enrolled, Mailbox, Directory
  <2>2. CASE UNCHANGED serverVars
    <3>1. UNCHANGED <<Enrolled, Mailbox, Directory>>
      BY <2>2, RouterStays DEF serverVars, world, sockets, registries
    <3> QED
      BY <3>1 DEF Router!routerVars, Enrolled, Mailbox, Directory
  <2> QED
    BY <2>1, <2>2
<1> QED
  BY <1>1, <1>2, ServerInvariant, PTL DEF ServerSpec, ImplementsRouter, Router!Spec

(* The whole server does so too: what an HTTP client asks for is posted to one
   connection in service, or to none. *)
THEOREM WholeServerRoutes == ASSUME WholeRecords PROVE Spec => ImplementsRouter
<1>1. Init => Router!Init
  BY InitRoutes
<1>2. Inv /\ Inv' /\ [Next]_vars => [Router!Next]_(Router!routerVars)
  <2> SUFFICES ASSUME Inv, Inv', [Next]_vars
               PROVE  Router!Next \/ UNCHANGED <<Enrolled, Mailbox, Directory>>
    BY DEF Router!routerVars, Enrolled, Mailbox, Directory
  <2>1. CASE ServerNext
    BY <2>1, DeviceRoutes
  <2>2. CASE QueueCommand
    BY <2>2, RouterPosts DEF Router!Next, Router!InService
  <2>3. CASE DeleteOld
    BY <2>3, RouterStays DEF DeleteOld, world, sockets
  <2>4. CASE Receive \/ Lookup \/ Address \/ Poll \/ GiveUp \/ UNCHANGED vars
    <3>1. UNCHANGED serverVars
      BY <2>4 DEF Receive, Lookup, Address, Poll, GiveUp, vars
    <3> QED
      BY <3>1, RouterStays DEF serverVars, world, sockets, registries
  <2> QED
    BY <2>1, <2>2, <2>3, <2>4 DEF Next, HttpThread
<1> QED
  BY <1>1, <1>2, WholeServerInvariant, PTL DEF Spec, ImplementsRouter, Router!Spec
=============================================================================
