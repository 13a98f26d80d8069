----------------------- MODULE ProxyConnectionsProofs -----------------------
(***************************************************************************)
(* Proofs about ProxyConnections, for any finite set of connections and    *)
(* any MAX_PENDING_CONNECTIONS.                                            *)
(*                                                                         *)
(* Inv is inductive.  The registries alone are not: that a readable socket *)
(* which is still open has a partner needs NoOrphanSocket, that needs to   *)
(* know who holds each future (Custody), and that a socket in a select()   *)
(* snapshot is not some later connection's client needs SnapshotsKnown.    *)
(***************************************************************************)
EXTENDS ProxyConnections, FiniteSetTheorems, TLAPS

(* The sockets of one connection, and of two. *)
LEMMA SockFacts ==
  /\ None \notin Sock
  /\ \A c \in Conn : /\ Client(c) \in Sock /\ Upstream(c) \in Sock
                     /\ Owner(Client(c)) = c /\ Owner(Upstream(c)) = c
                     /\ Client(c) # Upstream(c)
                     /\ Partner(Client(c)) = Upstream(c)
                     /\ Partner(Upstream(c)) = Client(c)
  /\ \A s \in Sock : /\ Owner(s) \in Conn
                     /\ Partner(s) \in Sock
                     /\ Owner(Partner(s)) = Owner(s)
                     /\ Partner(s) # s
                     /\ Partner(Partner(s)) = s
                     /\ s = Client(Owner(s)) \/ s = Upstream(Owner(s))
BY ProxyAssumption DEF Sock, Client, Upstream, Owner, Partner

(* The initial state. *)
LEMMA InitInv == Init => Inv
<1> SUFFICES ASSUME Init PROVE Inv
  OBVIOUS
<1> USE DEF Init
<1>1. TypeOK
  BY DEF TypeOK, FutureState, LoopPoint
<1>2. RegistriesAgree /\ SelectSafe /\ PartialFrameClock
  BY DEF RegistriesAgree, SelectSafe, PartialFrameClock
<1>3. NoOrphanSocket /\ Custody
  BY ProxyAssumption DEF NoOrphanSocket, Custody, InShutdown
<1>4. PhaseAgrees /\ SnapshotsKnown
  BY DEF PhaseAgrees, SnapshotsKnown, Snapshots, LoopPoint
<1> QED
  BY <1>1, <1>2, <1>3, <1>4 DEF Inv

-----------------------------------------------------------------------------
(* In the loop nothing is being shut down. *)
LEMMA LoopHoldsAll ==
  ASSUME Inv, pc \in LoopPoint
  PROVE  /\ ~connector_shutdown /\ closing = {} /\ callbacks = {}
         /\ attaching = None
         /\ \A c \in Conn : ~InShutdown(c)
<1>1. ~connector_shutdown /\ pc # "attach"
  BY DEF Inv, PhaseAgrees, LoopPoint
<1>2. closing = {} /\ callbacks = {} /\ attaching = None
  BY <1>1 DEF Inv, PhaseAgrees
<1> QED
  BY <1>1, <1>2, ProxyAssumption DEF InShutdown

(* What a drain finds: a completed future is connected or failed; the sockets
   of a connected one are both open and unregistered, of a failed one only the
   client is open. *)
LEMMA CompletedFacts ==
  ASSUME Inv, NEW c \in Completed
  PROVE  /\ c \in Conn /\ c \in pending
         /\ future[c] \in {"connected", "failed"}
         /\ c \in Connected <=> future[c] = "connected"
         /\ Client(c) \in open
         /\ Upstream(c) \in open <=> c \in Connected
         /\ \A s \in Sock : Owner(s) = c => s \notin input_list
<1>1. c \in pending /\ c \in Conn /\ Done(c)
  BY DEF Completed, Inv, TypeOK
<1>2. future[c] \in {"connected", "failed"}
  BY <1>1 DEF Done, Inv, Custody
<1>3. Client(c) \in open
  BY <1>1 DEF Inv, NoOrphanSocket
<1>4. Upstream(c) \in open <=> future[c] \in {"running", "connected"}
  BY <1>1 DEF Inv, NoOrphanSocket
<1>5. \A s \in Sock : Owner(s) = c => s \notin input_list
  BY <1>1 DEF Inv, Custody
<1> QED
  BY <1>1, <1>2, <1>3, <1>4, <1>5 DEF Connected

(***************************************************************************)
(* The drain, wherever it is called: the registries, the open sockets and  *)
(* pending change together, the world may change around them (on_accept    *)
(* adds one connection).                                                   *)
(***************************************************************************)
(* The registries after a drain agree with each other. *)
LEMMA DrainRegistries ==
  ASSUME Inv, RegisterPairs, frame_started_at' = frame_started_at
  PROVE  RegistriesAgree' /\ PartialFrameClock'
<1> DEFINE new == {s \in Sock : Owner(s) \in Connected}
<1>1. /\ input_list' = input_list \cup new
      /\ channel' = [s \in Sock |-> IF s \in new THEN Partner(s) ELSE channel[s]]
      /\ framers' = [s \in Sock |-> IF s \in new THEN "empty" ELSE framers[s]]
  BY DEF RegisterPairs
<1>2. \A s \in new : Partner(s) \in new /\ Partner(s) # None
  BY SockFacts
<1>3. \A s \in new : s \notin input_list
  BY CompletedFacts DEF Connected
<1>4. RegistriesAgree'
  BY <1>1, <1>2, <1>3 DEF Inv, RegistriesAgree
<1>5. PartialFrameClock'
  BY <1>1, <1>3 DEF Inv, PartialFrameClock, RegistriesAgree
<1> QED
  BY <1>4, <1>5

(* Everything a drain registers is open, what it closes is not registered. *)
LEMMA DrainSelectSafe ==
  ASSUME Inv, RegisterPairs, open \ UnpairedClients \subseteq open'
  PROVE  SelectSafe'
<1> SUFFICES ASSUME NEW s \in input_list' PROVE s \in open \ UnpairedClients
  BY DEF SelectSafe
<1>1. CASE s \in input_list
  <2>1. s \in Sock /\ s \in open
    BY <1>1 DEF Inv, TypeOK, SelectSafe
  <2>2. ASSUME NEW c \in Completed, s = Client(c) PROVE FALSE
    BY <1>1, <2>1, <2>2, CompletedFacts, SockFacts
  <2> QED
    BY <2>1, <2>2 DEF UnpairedClients
<1>2. CASE s \in Sock /\ Owner(s) \in Connected
  <2>1. Owner(s) \in Completed
    BY <1>2 DEF Connected
  <2>2. s \in open
    BY <1>2, <2>1, CompletedFacts, SockFacts
  <2>3. ASSUME NEW c \in Completed \ Connected, s = Client(c) PROVE FALSE
    BY <1>2, <2>3, CompletedFacts, SockFacts
  <2> QED
    BY <2>2, <2>3 DEF UnpairedClients
<1> QED
  BY <1>1, <1>2 DEF RegisterPairs

(* Whose sockets are left unregistered: those of the connections still
   pending. *)
LEMMA DrainLeaves ==
  ASSUME Inv, RegisterPairs, pc \in LoopPoint
  PROVE  /\ \A s \in open \ UnpairedClients :
              s \in input_list' \/ Owner(s) \in StillPending
         /\ \A c \in StillPending : /\ c \in Conn /\ c \in pending
                                    /\ Client(c) \in open \ UnpairedClients
                                    /\ Client(c) \notin input_list'
                                    /\ Upstream(c) \notin UnpairedClients
         /\ \A s \in input_list' : /\ s \in Sock
                                   /\ future[Owner(s)] = "connected"
                                   /\ Owner(s) \notin StillPending
<1>1. ASSUME NEW s \in open \ UnpairedClients
      PROVE  s \in input_list' \/ Owner(s) \in StillPending
  <2>0. s \in Sock
    BY DEF Inv, TypeOK
  <2>1. s \in input_list \/ Owner(s) \in pending
    BY <2>0, LoopHoldsAll, SockFacts DEF Inv, NoOrphanSocket
  <2>2. CASE Owner(s) \in Completed
    <3>1. CASE Owner(s) \in Connected
      BY <2>0, <3>1 DEF RegisterPairs
    <3>2. CASE Owner(s) \notin Connected
      <4>1. s # Client(Owner(s))
        BY <2>2, <3>2 DEF UnpairedClients
      <4>2. s = Upstream(Owner(s))
        BY <2>0, <4>1, SockFacts
      <4> QED
        BY <2>2, <3>2, <4>2, CompletedFacts
    <3> QED
      BY <3>1, <3>2
  <2> QED
    BY <2>1, <2>2 DEF StillPending, RegisterPairs
<1>2. ASSUME NEW c \in StillPending
      PROVE  /\ c \in Conn /\ c \in pending
             /\ Client(c) \in open \ UnpairedClients
             /\ Client(c) \notin input_list'
             /\ Upstream(c) \notin UnpairedClients
  <2>1. c \in pending /\ c \in Conn /\ c \notin Completed
    BY DEF StillPending, Inv, TypeOK
  <2>2. \A d \in Completed : d \in Conn
    BY CompletedFacts
  <2>3. Client(c) \notin UnpairedClients /\ Upstream(c) \notin UnpairedClients
    BY <2>1, <2>2, SockFacts DEF UnpairedClients
  <2>4. Client(c) \in open \ input_list
    BY <2>1 DEF Inv, NoOrphanSocket
  <2>5. Client(c) \notin input_list'
    BY <2>1, <2>4, SockFacts DEF RegisterPairs, Connected
  <2> QED
    BY <2>1, <2>3, <2>4, <2>5
<1>3. ASSUME NEW s \in input_list'
      PROVE  /\ s \in Sock
             /\ future[Owner(s)] = "connected"
             /\ Owner(s) \notin StillPending
  <2>1. CASE s \in input_list
    BY <2>1 DEF Inv, TypeOK, Custody, StillPending
  <2>2. CASE s \in Sock /\ Owner(s) \in Connected
    BY <2>2 DEF Connected, StillPending
  <2> QED
    BY <2>1, <2>2 DEF RegisterPairs
<1> QED
  BY <1>1, <1>2, <1>3

(* A drain on its own, at the head of the loop or behind select(). *)
LEMMA DrainInv ==
  ASSUME Inv, NEW from \in LoopPoint \ {"procdata"},
         NEW to \in LoopPoint \ {"procdata"}, Drain(from, to)
  PROVE  Inv'
<1>0. /\ pc \in LoopPoint /\ pc' \in LoopPoint
      /\ pc # "procdata" /\ pc' # "procdata"
  BY DEF Drain
<1>a. /\ RegisterPairs
      /\ open' = open \ UnpairedClients /\ pending' = StillPending
      /\ frame_started_at' = frame_started_at
      /\ remote' = remote /\ future' = future
      /\ closing' = closing /\ callbacks' = callbacks /\ attaching' = attaching
      /\ connector_shutdown' = connector_shutdown
      /\ UNCHANGED eventVars
  BY DEF Drain, StillPending, shutdownVars
<1>1. TypeOK'
  BY <1>0, <1>a, SockFacts
     DEF Inv, TypeOK, RegisterPairs, StillPending, eventVars, FutureState
<1>2. RegistriesAgree' /\ PartialFrameClock' /\ SelectSafe'
  BY <1>a, DrainRegistries, DrainSelectSafe
<1>b. \A c \in Conn : ~InShutdown(c) /\ ~InShutdown(c)'
  BY <1>0, <1>a, LoopHoldsAll DEF InShutdown
<1>3. NoOrphanSocket'
  <2>1. \A s \in open' : s \in input_list' \/ Owner(s) \in pending'
    BY <1>0, <1>a, DrainLeaves
  <2>2. closing' = {}
    BY <1>0, <1>a, LoopHoldsAll
  <2>3. \A c \in pending' : Client(c) \in open' \ input_list'
    BY <1>0, <1>a, DrainLeaves
  <2>4. ASSUME NEW c \in pending'
        PROVE  Upstream(c) \in open' <=> future'[c] \in {"running", "connected"}
    BY <1>0, <1>a, DrainLeaves DEF Inv, NoOrphanSocket
  <2> QED
    BY <2>1, <2>2, <2>3, <2>4, <1>b DEF NoOrphanSocket
<1>4. Custody'
  <2>1. \A s \in input_list' : /\ future'[Owner(s)] = "connected"
                               /\ Owner(s) \notin pending' /\ ~InShutdown(Owner(s))'
    BY <1>0, <1>a, <1>b, DrainLeaves, SockFacts
  <2>2. \A c \in pending : c \notin pending' => future[c] \notin {"queued", "running"}
    BY <1>a DEF StillPending, Completed, Done
  <2>3. pending' \subseteq pending
    BY <1>a DEF StillPending
  <2>4. \A c \in Conn : future'[c] = "queued" => c \in pending' \cup closing'
    BY <1>a, <2>2 DEF Inv, Custody
  <2>5. \A c \in Conn : future'[c] = "running" => c \in pending' \/ InShutdown(c)'
    BY <1>a, <1>b, <2>2 DEF Inv, Custody
  <2> QED
    BY <1>a, <2>1, <2>3, <2>4, <2>5 DEF Inv, Custody
<1>5. PhaseAgrees'
  BY <1>0, <1>a, LoopHoldsAll DEF Inv, PhaseAgrees, LoopPoint, eventVars
<1>6. SnapshotsKnown'
  BY <1>a DEF Inv, SnapshotsKnown, Snapshots, StillPending, eventVars
<1> QED
  BY <1>1, <1>2, <1>3, <1>4, <1>5, <1>6 DEF Inv

(***************************************************************************)
(* on_accept: a drain, and at most one connection taken from the backlog.  *)
(***************************************************************************)
(* Nothing of a connection in the backlog is known to the proxy. *)
LEMMA BacklogUnknown ==
  ASSUME Inv, pc \in LoopPoint, NEW c \in Conn, remote[c] = "backlog"
  PROVE  /\ future[c] = "none" /\ c \notin pending
         /\ \A s \in Sock : Owner(s) = c => s \notin open
<1>1. future[c] = "none"
  BY DEF Inv, Custody
<1>2. c \notin pending
  BY <1>1 DEF Inv, Custody
<1>3. ASSUME NEW s \in Sock, Owner(s) = c, s \in open PROVE FALSE
  BY <1>1, <1>2, <1>3, LoopHoldsAll DEF Inv, NoOrphanSocket, Custody
<1> QED
  BY <1>1, <1>2, <1>3

(* accept() failed, or the client was closed again. *)
LEMMA RefuseInv ==
  ASSUME Inv, AcceptFails \/ \E c \in Conn : Refuse(c)
  PROVE  Inv'
<1>0. pc \in LoopPoint /\ pc' = pc
  BY DEF AcceptFails, Refuse, AcceptHandled, LoopPoint
<1>a. /\ RegisterPairs
      /\ open' = open \ UnpairedClients /\ pending' = StillPending
      /\ frame_started_at' = frame_started_at
      /\ future' = future
      /\ closing' = closing /\ callbacks' = callbacks /\ attaching' = attaching
      /\ connector_shutdown' = connector_shutdown
      /\ accepting' = FALSE /\ inputready' = inputready
      /\ exceptready' = exceptready /\ expired' = expired /\ source' = source
  BY DEF AcceptFails, Refuse, AcceptHandled, shutdownVars
<1>c. PICK c \in Conn :
        /\ remote[c] = "backlog"
        /\ remote' \in {remote, [remote EXCEPT ![c] = "accepted"]}
  BY DEF AcceptFails, Refuse
<1>1. TypeOK'
  <2>1. remote' \in [Conn -> {"away", "backlog", "accepted"}]
    BY <1>c DEF Inv, TypeOK
  <2> QED
    BY <1>0, <1>a, <2>1, SockFacts
       DEF Inv, TypeOK, RegisterPairs, StillPending, FutureState
<1>2. RegistriesAgree' /\ PartialFrameClock' /\ SelectSafe'
  BY <1>a, DrainRegistries, DrainSelectSafe
<1>b. \A d \in Conn : ~InShutdown(d) /\ ~InShutdown(d)'
  BY <1>0, <1>a, LoopHoldsAll DEF InShutdown
<1>3. NoOrphanSocket'
  <2>1. \A s \in open' : s \in input_list' \/ Owner(s) \in pending'
    BY <1>0, <1>a, DrainLeaves
  <2>2. closing' = {}
    BY <1>0, <1>a, LoopHoldsAll
  <2>3. \A d \in pending' : Client(d) \in open' \ input_list'
    BY <1>0, <1>a, DrainLeaves
  <2>4. ASSUME NEW d \in pending'
        PROVE  Upstream(d) \in open' <=> future'[d] \in {"running", "connected"}
    BY <1>0, <1>a, DrainLeaves DEF Inv, NoOrphanSocket
  <2> QED
    BY <2>1, <2>2, <2>3, <2>4, <1>b DEF NoOrphanSocket
<1>4. Custody'
  <2>1. \A s \in input_list' : /\ future'[Owner(s)] = "connected"
                               /\ Owner(s) \notin pending' /\ ~InShutdown(Owner(s))'
    BY <1>0, <1>a, <1>b, DrainLeaves, SockFacts
  <2>2. \A d \in pending : d \notin pending' => future[d] \notin {"queued", "running"}
    BY <1>a DEF StillPending, Completed, Done
  <2>3. pending' \subseteq pending
    BY <1>a DEF StillPending
  <2>4. \A d \in Conn : future'[d] = "queued" => d \in pending' \cup closing'
    BY <1>a, <2>2 DEF Inv, Custody
  <2>5. \A d \in Conn : future'[d] = "running" => d \in pending' \/ InShutdown(d)'
    BY <1>a, <1>b, <2>2 DEF Inv, Custody
  <2>6. \A d \in Conn : remote'[d] # "accepted" => future'[d] = "none"
    BY <1>a, <1>c DEF Inv, Custody, TypeOK
  <2> QED
    BY <1>a, <2>1, <2>3, <2>4, <2>5, <2>6 DEF Inv, Custody
<1>5. PhaseAgrees'
  BY <1>0, <1>a, LoopHoldsAll DEF Inv, PhaseAgrees, LoopPoint
<1>6. SnapshotsKnown'
  BY <1>a DEF Inv, SnapshotsKnown, Snapshots, StillPending
<1> QED
  BY <1>1, <1>2, <1>3, <1>4, <1>5, <1>6 DEF Inv

(* The client is accepted and its future submitted. *)
LEMMA AdmitInv ==
  ASSUME Inv, NEW c \in Conn, Admit(c)
  PROVE  Inv'
<1>0. pc \in LoopPoint /\ pc' = pc
  BY DEF Admit, AcceptHandled, LoopPoint
<1>a. /\ RegisterPairs
      /\ open' = (open \ UnpairedClients) \cup {Client(c)}
      /\ pending' = StillPending \cup {c}
      /\ frame_started_at' = frame_started_at
      /\ remote[c] = "backlog" /\ remote' = [remote EXCEPT ![c] = "accepted"]
      /\ future' = [future EXCEPT ![c] = "queued"]
      /\ closing' = closing /\ callbacks' = callbacks /\ attaching' = attaching
      /\ connector_shutdown' = connector_shutdown
      /\ accepting' = FALSE /\ inputready' = inputready
      /\ exceptready' = exceptready /\ expired' = expired /\ source' = source
  BY DEF Admit, AcceptHandled, shutdownVars
<1>c. /\ future[c] = "none" /\ c \notin pending
      /\ \A s \in Sock : Owner(s) = c => s \notin open
  BY <1>0, <1>a, BacklogUnknown
<1>d. /\ future' \in [Conn -> FutureState] /\ future'[c] = "queued"
      /\ \A d \in Conn : d # c => future'[d] = future[d]
      /\ remote' \in [Conn -> {"away", "backlog", "accepted"}]
      /\ remote'[c] = "accepted"
      /\ \A d \in Conn : d # c => remote'[d] = remote[d]
  BY <1>a DEF Inv, TypeOK, FutureState
<1>1. TypeOK'
  <2>1. /\ channel' \in [Sock -> Sock \cup {None}]
        /\ framers' \in [Sock -> {"none", "empty", "partial"}]
        /\ input_list' \subseteq Sock
    BY <1>a, SockFacts DEF Inv, TypeOK, RegisterPairs
  <2>2. open' \subseteq Sock /\ pending' \subseteq Conn
    BY <1>a, SockFacts DEF Inv, TypeOK, StillPending
  <2>3. /\ frame_started_at' \in [Sock -> {"none", "recent", "old"}]
        /\ connector_shutdown' \in BOOLEAN /\ callbacks' \subseteq Conn
        /\ closing' \subseteq Conn /\ attaching' \in Conn \cup {None}
        /\ inputready' \subseteq Sock /\ exceptready' \subseteq Sock
        /\ expired' \subseteq Sock /\ source' \in Sock \cup {None}
    BY <1>a DEF Inv, TypeOK
  <2>4. accepting' \in BOOLEAN /\ pc' \in LoopPoint \cup {"cancel", "attach", "stopped"}
    BY <1>0, <1>a
  <2> QED
    BY <1>d, <2>1, <2>2, <2>3, <2>4 DEF TypeOK
<1>2. RegistriesAgree' /\ PartialFrameClock' /\ SelectSafe'
  BY <1>a, DrainRegistries, DrainSelectSafe
<1>b. \A d \in Conn : ~InShutdown(d) /\ ~InShutdown(d)'
  BY <1>0, <1>a, LoopHoldsAll DEF InShutdown
<1>e. /\ \A s \in input_list' : /\ s \in Sock
                                /\ future[Owner(s)] = "connected"
                                /\ Owner(s) \notin StillPending
      /\ \A s \in input_list' : Owner(s) # c
  BY <1>0, <1>a, <1>c, DrainLeaves
<1>3. NoOrphanSocket'
  <2>1. \A s \in open' : s \in input_list' \/ Owner(s) \in pending'
    BY <1>0, <1>a, DrainLeaves, SockFacts
  <2>2. closing' = {}
    BY <1>0, <1>a, LoopHoldsAll
  <2>3. \A d \in pending' : Client(d) \in open' \ input_list'
    BY <1>0, <1>a, <1>e, DrainLeaves, SockFacts
  <2>4. ASSUME NEW d \in pending'
        PROVE  Upstream(d) \in open' <=> future'[d] \in {"running", "connected"}
    <3>1. CASE d = c
      <4>1. Upstream(c) \notin open'
        BY <1>a, <1>c, SockFacts
      <4> QED
        BY <3>1, <4>1, <1>d
    <3>2. CASE d # c
      <4>1. d \in StillPending /\ d \in Conn /\ d \in pending
        BY <1>0, <1>a, <3>2, DrainLeaves
      <4>2. Upstream(d) \in open' <=> Upstream(d) \in open
        BY <1>0, <1>a, <4>1, DrainLeaves, SockFacts
      <4> QED
        BY <4>1, <4>2, <1>d, <3>2 DEF Inv, NoOrphanSocket
    <3> QED
      BY <3>1, <3>2
  <2> QED
    BY <2>1, <2>2, <2>3, <2>4, <1>b DEF NoOrphanSocket
<1>4. Custody'
  <2>1. \A s \in input_list' : /\ future'[Owner(s)] = "connected"
                               /\ Owner(s) \notin pending' /\ ~InShutdown(Owner(s))'
    BY <1>a, <1>b, <1>d, <1>e, SockFacts
  <2>2. \A d \in pending : d \notin StillPending => future[d] \notin {"queued", "running"}
    BY DEF StillPending, Completed, Done
  <2>3. StillPending \subseteq pending
    BY DEF StillPending
  <2>4. \A d \in Conn : future'[d] = "queued" => d \in pending' \cup closing'
    BY <1>a, <1>d, <2>2 DEF Inv, Custody
  <2>5. \A d \in Conn : future'[d] = "running" => d \in pending' \/ InShutdown(d)'
    BY <1>a, <1>b, <1>d, <2>2 DEF Inv, Custody
  <2>6. \A d \in Conn : remote'[d] # "accepted" => future'[d] = "none"
    BY <1>d DEF Inv, Custody
  <2>7. \A d \in pending' \cup closing' : future'[d] \notin {"none", "cancelled"}
    BY <1>a, <1>d, <2>3, <1>0, LoopHoldsAll DEF Inv, Custody, TypeOK
  <2>8. /\ closing' = {} /\ callbacks' = {} /\ attaching' = None
    BY <1>0, <1>a, LoopHoldsAll
  <2> QED
    BY <2>1, <2>4, <2>5, <2>6, <2>7, <2>8, ProxyAssumption DEF Custody
<1>5. PhaseAgrees'
  BY <1>0, <1>a, LoopHoldsAll DEF Inv, PhaseAgrees, LoopPoint
<1>6. SnapshotsKnown'
  <2> SUFFICES ASSUME NEW s \in Snapshots
               PROVE  future'[Owner(s)] = "connected" /\ Owner(s) \notin pending'
    BY <1>a DEF SnapshotsKnown, Snapshots
  <2>1. /\ s \in Sock /\ Owner(s) \in Conn
        /\ future[Owner(s)] = "connected" /\ Owner(s) \notin pending
    BY SockFacts DEF Inv, TypeOK, SnapshotsKnown, Snapshots
  <2>2. Owner(s) # c
    BY <2>1, <1>c
  <2> QED
    BY <2>1, <2>2, <1>a, <1>d DEF StillPending
<1> QED
  BY <1>1, <1>2, <1>3, <1>4, <1>5, <1>6 DEF Inv
-----------------------------------------------------------------------------
(***************************************************************************)
(* Closing a pair.                                                         *)
(***************************************************************************)
(* A socket from a snapshot is either registered, with its partner, or it has
   been closed. *)
LEMMA SnapshotSocket ==
  ASSUME Inv, pc \in LoopPoint,
         NEW s \in Snapshots
  PROVE  /\ s \in Sock
         /\ Owner(s) \notin pending
         /\ \/ s \in input_list /\ channel[s] = Partner(s)
               /\ Partner(s) \in input_list
            \/ s \notin open /\ s \notin input_list /\ channel[s] = None
<1>1. s \in Sock /\ Owner(s) \notin pending
  BY DEF Inv, TypeOK, SnapshotsKnown, Snapshots
<1>2. s \in open => s \in input_list
  BY <1>1, LoopHoldsAll, SockFacts DEF Inv, NoOrphanSocket
<1>3. s \in input_list => channel[s] = Partner(s) /\ Partner(s) \in input_list
  BY <1>1 DEF Inv, RegistriesAgree
<1>4. s \notin input_list => channel[s] = None
  BY <1>1 DEF Inv, RegistriesAgree
<1> QED
  BY <1>1, <1>2, <1>3, <1>4

(* _close_socket: what it takes away are the two sockets of one pair, or a
   socket that is in no registry. *)
LEMMA CloseSocketInv ==
  ASSUME Inv, pc \in LoopPoint, NEW s \in Snapshots, CloseSocket(s),
         UNCHANGED <<remote, future, pending, shutdownVars, accepting>>,
         inputready' \subseteq inputready, exceptready' \subseteq exceptready,
         expired' \subseteq expired, source' \in {source, None},
         pc' \in LoopPoint, pc' = "procdata" <=> source' # None
  PROVE  Inv'
<1> DEFINE gone == {s, channel[s]} \ {None}
<1>a. /\ channel' = [t \in Sock |-> IF t \in gone THEN None ELSE channel[t]]
      /\ input_list' = input_list \ gone
      /\ framers' = [t \in Sock |-> IF t \in gone THEN "none" ELSE framers[t]]
      /\ frame_started_at' =
           [t \in Sock |-> IF t \in gone THEN "none" ELSE frame_started_at[t]]
      /\ open' = open \ gone
  BY DEF CloseSocket
<1>b. /\ s \in Sock /\ Owner(s) \notin pending /\ s \in gone
      /\ \A t \in gone : t \in Sock /\ Owner(t) = Owner(s)
      /\ \A t \in input_list : t \in gone <=> Partner(t) \in gone
  <2>0. s \in Sock /\ Owner(s) \notin pending /\ s # None
    BY SnapshotSocket, SockFacts
  <2>1. CASE s \in input_list /\ channel[s] = Partner(s) /\ Partner(s) \in input_list
    <3>1. gone = {s, Partner(s)}
      BY <2>0, <2>1, SockFacts
    <3>2. \A t \in Sock : t \in gone <=> Partner(t) \in gone
      BY <2>0, <3>1, SockFacts
    <3> QED
      BY <2>0, <3>1, <3>2, SockFacts DEF Inv, TypeOK
  <2>2. CASE s \notin open /\ s \notin input_list /\ channel[s] = None
    <3>1. gone = {s}
      BY <2>0, <2>2
    <3>2. ASSUME NEW t \in input_list PROVE Partner(t) # s /\ t # s
      BY <2>2 DEF Inv, RegistriesAgree, TypeOK
    <3> QED
      BY <2>0, <3>1, <3>2
  <2> QED
    BY <2>0, <2>1, <2>2, SnapshotSocket
<1>c. /\ remote' = remote /\ future' = future /\ pending' = pending
      /\ connector_shutdown' = connector_shutdown /\ callbacks' = callbacks
      /\ closing' = closing /\ attaching' = attaching
      /\ accepting' = accepting
  BY DEF shutdownVars
<1>d. \A c \in Conn : ~InShutdown(c) /\ ~InShutdown(c)'
  BY <1>c, LoopHoldsAll DEF InShutdown
<1> HIDE DEF gone
<1>1. TypeOK'
  <2>1. /\ channel' \in [Sock -> Sock \cup {None}]
        /\ framers' \in [Sock -> {"none", "empty", "partial"}]
        /\ frame_started_at' \in [Sock -> {"none", "recent", "old"}]
    BY <1>a DEF Inv, TypeOK
  <2> QED
    BY <1>a, <1>c, <2>1 DEF Inv, TypeOK
<1>2. RegistriesAgree'
  BY <1>a, <1>b DEF Inv, RegistriesAgree, TypeOK
<1>3. SelectSafe' /\ PartialFrameClock'
  BY <1>a DEF Inv, SelectSafe, PartialFrameClock
<1>4. NoOrphanSocket'
  <2>1. \A t \in open' : t \in input_list' \/ Owner(t) \in pending'
    BY <1>a, <1>c, LoopHoldsAll, SockFacts DEF Inv, NoOrphanSocket, TypeOK
  <2>2. \A c \in pending : Client(c) \notin gone /\ Upstream(c) \notin gone
    BY <1>b, SockFacts DEF Inv, TypeOK
  <2>3. closing' = {}
    BY <1>c, LoopHoldsAll
  <2>4. \A c \in pending' : Client(c) \in open' \ input_list'
    BY <1>a, <1>c, <2>2 DEF Inv, NoOrphanSocket
  <2>5. \A c \in pending' :
          Upstream(c) \in open' <=> future'[c] \in {"running", "connected"}
    <3> SUFFICES ASSUME NEW c \in pending
                 PROVE  Upstream(c) \in open'
                          <=> future[c] \in {"running", "connected"}
      BY <1>c
    <3>1. c \in Conn
      BY DEF Inv, TypeOK
    <3>2. Upstream(c) \in open <=> future[c] \in {"running", "connected"}
      BY <3>1 DEF Inv, NoOrphanSocket
    <3> QED
      BY <3>2, <1>a, <2>2
  <2> QED
    BY <1>d, <2>1, <2>3, <2>4, <2>5 DEF NoOrphanSocket
<1>5. Custody'
  BY <1>a, <1>c DEF Inv, Custody, InShutdown
<1>6. PhaseAgrees'
  BY <1>c, LoopHoldsAll DEF Inv, PhaseAgrees, LoopPoint
<1>7. SnapshotsKnown'
  BY <1>c DEF Inv, SnapshotsKnown, Snapshots
<1> QED
  BY <1>1, <1>2, <1>3, <1>4, <1>5, <1>6, <1>7 DEF Inv

(* Reading a chunk moves the partial frame and its clock together. *)
LEMMA ReadChunkInv ==
  ASSUME Inv, NEW s \in Sock, NEW completes \in BOOLEAN,
         NEW rest \in {"empty", "partial"}, ReadChunk(s, completes, rest)
  PROVE  Inv'
<1>0. pc \in LoopPoint /\ s \in inputready
  BY DEF ReadChunk, TakeReadable, LoopPoint
<1>1. s \in input_list
  BY <1>0, SnapshotSocket DEF ReadChunk, Snapshots
<1>a. /\ framers' = [framers EXCEPT ![s] = rest]
      /\ open' = open /\ input_list' = input_list /\ channel' = channel
      /\ remote' = remote /\ future' = future /\ pending' = pending
      /\ connector_shutdown' = connector_shutdown /\ callbacks' = callbacks
      /\ closing' = closing /\ attaching' = attaching
      /\ accepting' = accepting /\ exceptready' = exceptready /\ expired' = expired
      /\ inputready' = inputready \ {s}
  BY DEF ReadChunk, TakeReadable, shutdownVars
<1>c. /\ pc' \in LoopPoint /\ source' \in {None, s}
      /\ pc' = "procdata" <=> source' # None
  <2>1. pc = "read" /\ source = None /\ s # None
    BY SockFacts DEF ReadChunk, TakeReadable, Inv, PhaseAgrees
  <2>2. \/ pc' = "procdata" /\ source' = s
        \/ pc' = pc /\ source' = source
    BY DEF ReadChunk, Decodes
  <2> QED
    BY <2>1, <2>2 DEF LoopPoint
<1>b. PICK clock \in {"none", "recent", "old"} :
        /\ frame_started_at' = [frame_started_at EXCEPT ![s] = clock]
        /\ clock # "none" <=> rest = "partial"
  <2>1. CASE rest = "empty"
    <3>1. frame_started_at' = [frame_started_at EXCEPT ![s] = "none"]
      BY <2>1 DEF ReadChunk
    <3> QED
      BY <2>1, <3>1
  <2>2. CASE rest = "partial" /\ (completes \/ framers[s] # "partial")
    <3>1. frame_started_at' = [frame_started_at EXCEPT ![s] = "recent"]
      BY <2>2 DEF ReadChunk
    <3> QED
      BY <2>2, <3>1
  <2>3. CASE rest = "partial" /\ ~completes /\ framers[s] = "partial"
    <3>1. frame_started_at[s] \in {"recent", "old"}
      BY <2>3 DEF Inv, PartialFrameClock, TypeOK
    <3>2. frame_started_at' = [frame_started_at EXCEPT ![s] = frame_started_at[s]]
      BY <2>3, <3>1 DEF ReadChunk
    <3> QED
      BY <2>3, <3>1, <3>2
  <2> QED
    BY <2>1, <2>2, <2>3
<1>2. TypeOK'
  <2>1. /\ framers' \in [Sock -> {"none", "empty", "partial"}]
        /\ frame_started_at' \in [Sock -> {"none", "recent", "old"}]
    BY <1>a, <1>b DEF Inv, TypeOK
  <2> QED
    BY <1>a, <1>c, <2>1 DEF Inv, TypeOK
<1>3. RegistriesAgree'
  BY <1>1, <1>a DEF Inv, RegistriesAgree, TypeOK
<1>4. SelectSafe' /\ PartialFrameClock'
  BY <1>a, <1>b DEF Inv, SelectSafe, PartialFrameClock, TypeOK
<1>5. NoOrphanSocket' /\ Custody'
  BY <1>a DEF Inv, NoOrphanSocket, Custody, InShutdown
<1>6. PhaseAgrees'
  BY <1>0, <1>a, <1>c, LoopHoldsAll DEF Inv, PhaseAgrees, LoopPoint
<1>7. SnapshotsKnown'
  BY <1>0, <1>a, <1>c DEF Inv, SnapshotsKnown, Snapshots
<1> QED
  BY <1>2, <1>3, <1>4, <1>5, <1>6, <1>7 DEF Inv

(* The steps of the main thread that only move on in the pass, or take a
   snapshot of the registered sockets. *)
LEMMA PassInv ==
  ASSUME Inv,
         Select \/ CollectExpired \/ ExpiredDone \/ FailedDone \/ PassDone
  PROVE  Inv'
<1>0. /\ pc \in LoopPoint /\ pc' \in LoopPoint
      /\ pc # "procdata" /\ pc' # "procdata"
  BY DEF Select, CollectExpired, ExpiredDone, FailedDone, PassDone, LoopPoint
<1>a. /\ UNCHANGED <<worldVars, registryVars, pending, shutdownVars>>
      /\ accepting' \in BOOLEAN
      /\ inputready' \subseteq inputready \cup input_list
      /\ exceptready' \subseteq exceptready \cup input_list
      /\ expired' \subseteq expired \cup input_list
      /\ source' = source
  <2>1. CASE Select
    BY <2>1 DEF Select
  <2>2. CASE CollectExpired
    <3>1. \A s \in Sock : frame_started_at[s] = "old" => s \in input_list
      BY DEF Inv, PartialFrameClock, RegistriesAgree
    <3> QED
      BY <2>2, <3>1 DEF CollectExpired, Inv, TypeOK
  <2>3. CASE ExpiredDone \/ FailedDone \/ PassDone
    BY <2>3 DEF ExpiredDone, FailedDone, PassDone, eventVars, Inv, TypeOK
  <2> QED
    BY <2>1, <2>2, <2>3
<1> USE DEF worldVars, registryVars, shutdownVars
<1>1. TypeOK'
  BY <1>0, <1>a DEF Inv, TypeOK
<1>2. RegistriesAgree' /\ SelectSafe' /\ PartialFrameClock'
  BY <1>a DEF Inv, RegistriesAgree, SelectSafe, PartialFrameClock
<1>3. NoOrphanSocket' /\ Custody'
  BY <1>a DEF Inv, NoOrphanSocket, Custody, InShutdown
<1>4. PhaseAgrees'
  BY <1>0, <1>a, LoopHoldsAll DEF Inv, PhaseAgrees, LoopPoint
<1>5. SnapshotsKnown'
  BY <1>a DEF Inv, SnapshotsKnown, Snapshots, Custody
<1> QED
  BY <1>1, <1>2, <1>3, <1>4, <1>5 DEF Inv

-----------------------------------------------------------------------------
(***************************************************************************)
(* The shutdown of the connector.                                          *)
(***************************************************************************)
(* The pending connections become the ones to close. *)
LEMMA InterruptInv == ASSUME Inv, Interrupt PROVE Inv'
<1>0. closing = {} /\ callbacks = {} /\ attaching = None
  BY LoopHoldsAll DEF Interrupt
<1>a. /\ UNCHANGED <<worldVars, registryVars, callbacks, attaching>>
      /\ connector_shutdown' = TRUE /\ closing' = pending /\ pending' = {}
      /\ pc' = "cancel" /\ accepting' = FALSE
      /\ inputready' = {} /\ exceptready' = {} /\ expired' = {}
      /\ source' = None
  BY DEF Interrupt
<1> USE DEF worldVars, registryVars
<1>1. TypeOK'
  BY <1>a DEF Inv, TypeOK
<1>2. RegistriesAgree' /\ SelectSafe' /\ PartialFrameClock'
  BY <1>a DEF Inv, RegistriesAgree, SelectSafe, PartialFrameClock
<1>b. \A c \in Conn : (c \in pending \/ InShutdown(c)) <=> InShutdown(c)'
  BY <1>0, <1>a, ProxyAssumption DEF InShutdown
<1>3. NoOrphanSocket'
  <2>1. ASSUME NEW s \in open'
        PROVE  \/ s \in input_list'
               \/ Owner(s) \in pending' \cup closing'
               \/ s = Upstream(Owner(s)) /\ InShutdown(Owner(s))'
    <3>1. s \in open /\ Owner(s) \in Conn
      BY <1>a, SockFacts DEF Inv, TypeOK
    <3>2. \/ s \in input_list
          \/ Owner(s) \in pending \cup closing
          \/ s = Upstream(Owner(s)) /\ InShutdown(Owner(s))
      BY <3>1 DEF Inv, NoOrphanSocket
    <3> QED
      BY <3>1, <3>2, <1>0, <1>a, <1>b
  <2>2. \A c \in pending' \cup closing' : Client(c) \in open' \ input_list'
    BY <1>0, <1>a DEF Inv, NoOrphanSocket
  <2>3. ASSUME NEW c \in Conn, c \in pending' \/ InShutdown(c)'
        PROVE  Upstream(c) \in open' <=> future'[c] \in {"running", "connected"}
    <3>1. c \in pending \/ InShutdown(c)
      BY <1>a, <1>b, <2>3
    <3> QED
      BY <3>1, <1>a DEF Inv, NoOrphanSocket
  <2> QED
    BY <2>1, <2>2, <2>3 DEF NoOrphanSocket
<1>4. Custody'
  <2>1. \A s \in input_list : Owner(s) \in Conn
    BY SockFacts DEF Inv, TypeOK
  <2>2. attaching \notin closing'
    BY <1>0, <1>a, ProxyAssumption DEF Inv, TypeOK
  <2> QED
    BY <1>0, <1>a, <1>b, <2>1, <2>2, ProxyAssumption DEF Inv, Custody
<1>5. PhaseAgrees' /\ SnapshotsKnown'
  BY <1>0, <1>a DEF PhaseAgrees, SnapshotsKnown, Snapshots
<1> QED
  BY <1>1, <1>2, <1>3, <1>4, <1>5 DEF Inv

(* The client is closed; its future is cancelled or gets a callback next. *)
LEMMA CancelPendingInv ==
  ASSUME Inv, NEW c \in Conn, CancelPending(c) PROVE Inv'
<1>0. /\ connector_shutdown /\ attaching = None /\ c \in closing
      /\ pending = {} /\ inputready = {} /\ exceptready = {} /\ expired = {}
      /\ source = None /\ pc = "cancel"
      /\ c \notin callbacks
  BY DEF CancelPending, Inv, PhaseAgrees, Custody
<1>a. /\ UNCHANGED <<remote, registryVars, pending, connector_shutdown, callbacks,
                     eventVars>>
      /\ open' = open \ {Client(c)} /\ closing' = closing \ {c}
  BY DEF CancelPending
<1>b. \A s \in input_list : s \in Sock /\ Owner(s) \in Conn /\ Owner(s) # c
  BY <1>0, SockFacts DEF Inv, TypeOK, Custody, InShutdown
<1>c. \A d \in Conn : d # c => Client(d) # Client(c) /\ Upstream(d) # Client(c)
  BY SockFacts
<1> USE DEF registryVars, eventVars
<1>2. RegistriesAgree' /\ PartialFrameClock'
  BY <1>a DEF Inv, RegistriesAgree, PartialFrameClock
<1>3. SelectSafe'
  BY <1>a, <1>b, SockFacts DEF Inv, SelectSafe
<1>4. SnapshotsKnown'
  BY <1>0, <1>a DEF SnapshotsKnown, Snapshots
<1>5. CASE future[c] = "queued"
  <2>a. /\ future' = [future EXCEPT ![c] = "cancelled"]
        /\ attaching' = attaching /\ pc' = pc
    BY <1>5 DEF CancelPending
  <2>b. /\ future' \in [Conn -> FutureState] /\ future'[c] = "cancelled"
        /\ \A d \in Conn : d # c => future'[d] = future[d]
    BY <2>a DEF Inv, TypeOK, FutureState
  <2>c. ~InShutdown(c)' /\ \A d \in Conn : d # c => (InShutdown(d)' <=> InShutdown(d))
    BY <1>0, <1>a, <2>a, ProxyAssumption DEF InShutdown
  <2>1. TypeOK'
    BY <1>a, <2>a, <2>b DEF Inv, TypeOK
  <2>2. NoOrphanSocket'
    <3>1. Upstream(c) \notin open
      BY <1>5, <1>0 DEF Inv, NoOrphanSocket, InShutdown
    <3>2. ASSUME NEW s \in open'
          PROVE  \/ s \in input_list'
                 \/ Owner(s) \in pending' \cup closing'
                 \/ s = Upstream(Owner(s)) /\ InShutdown(Owner(s))'
      <4>1. s \in Sock /\ s \in open /\ s # Client(c) /\ s # Upstream(c)
        BY <1>a, <3>1 DEF Inv, TypeOK
      <4>2. Owner(s) # c /\ Owner(s) \in Conn
        BY <4>1, SockFacts
      <4> QED
        BY <4>1, <4>2, <1>0, <1>a, <2>c DEF Inv, NoOrphanSocket
    <3>3. \A d \in pending' \cup closing' : Client(d) \in open' \ input_list'
      BY <1>0, <1>a, <1>c DEF Inv, NoOrphanSocket, TypeOK
    <3>4. ASSUME NEW d \in Conn, d \in pending' \/ InShutdown(d)'
          PROVE  Upstream(d) \in open' <=> future'[d] \in {"running", "connected"}
      <4>1. d # c /\ InShutdown(d)
        BY <1>0, <1>a, <2>c, <3>4
      <4> QED
        BY <4>1, <1>a, <1>c, <2>b DEF Inv, NoOrphanSocket
    <3> QED
      BY <3>2, <3>3, <3>4 DEF NoOrphanSocket
  <2>3. Custody'
    <3>1. \A d \in Conn : remote'[d] # "accepted" => future'[d] = "none"
      BY <1>a, <1>5, <2>b DEF Inv, Custody
    <3>2. \A d \in Conn : future'[d] = "queued" => d \in pending' \cup closing'
      BY <1>a, <2>b DEF Inv, Custody
    <3>3. \A d \in Conn : future'[d] = "running" => d \in pending' \/ InShutdown(d)'
      BY <1>a, <2>b, <2>c DEF Inv, Custody
    <3>4. \A d \in pending' \cup closing' : future'[d] \notin {"none", "cancelled"}
      BY <1>0, <1>a, <2>b DEF Inv, Custody, TypeOK
    <3>5. \A d \in Conn : d \in callbacks' \/ d = attaching' =>
             future'[d] \in {"running", "connected", "failed"}
      BY <1>0, <1>a, <2>a, <2>b, ProxyAssumption DEF Inv, Custody
    <3>6. closing' \cap callbacks' = {} /\ attaching' \notin closing' \cup callbacks'
      BY <1>a, <2>a DEF Inv, Custody
    <3>7. \A s \in input_list' : /\ future'[Owner(s)] = "connected"
                                 /\ Owner(s) \notin pending' /\ ~InShutdown(Owner(s))'
      BY <1>a, <1>b, <2>b, <2>c DEF Inv, Custody
    <3> QED
      BY <3>1, <3>2, <3>3, <3>4, <3>5, <3>6, <3>7 DEF Custody
  <2>4. PhaseAgrees'
    BY <1>0, <1>a, <2>a DEF Inv, PhaseAgrees
  <2> QED
    BY <1>2, <1>3, <1>4, <2>1, <2>2, <2>3, <2>4 DEF Inv
<1>6. CASE future[c] # "queued"
  <2>a. future' = future /\ attaching' = c /\ pc' = "attach"
    BY <1>6 DEF CancelPending
  <2>b. future[c] \in {"running", "connected", "failed"}
    BY <1>0, <1>6 DEF Inv, Custody, TypeOK, FutureState
  <2>c. \A d \in Conn : InShutdown(d)' <=> InShutdown(d)
    BY <1>0, <1>a, <2>a, ProxyAssumption DEF InShutdown
  <2>1. TypeOK'
    BY <1>a, <2>a DEF Inv, TypeOK
  <2>2. NoOrphanSocket'
    <3>2. ASSUME NEW s \in open'
          PROVE  \/ s \in input_list'
                 \/ Owner(s) \in pending' \cup closing'
                 \/ s = Upstream(Owner(s)) /\ InShutdown(Owner(s))'
      <4>1. s \in Sock /\ s \in open /\ s # Client(c) /\ Owner(s) \in Conn
        BY <1>a, SockFacts DEF Inv, TypeOK
      <4>2. CASE Owner(s) = c
        BY <4>1, <4>2, <2>a, SockFacts DEF InShutdown
      <4>3. CASE Owner(s) # c
        BY <4>1, <4>3, <1>0, <1>a, <2>c DEF Inv, NoOrphanSocket
      <4> QED
        BY <4>2, <4>3
    <3>3. \A d \in pending' \cup closing' : Client(d) \in open' \ input_list'
      BY <1>0, <1>a, <1>c DEF Inv, NoOrphanSocket, TypeOK
    <3>4. ASSUME NEW d \in Conn, d \in pending' \/ InShutdown(d)'
          PROVE  Upstream(d) \in open' <=> future'[d] \in {"running", "connected"}
      <4>1. InShutdown(d) /\ Upstream(d) # Client(c)
        BY <1>0, <1>a, <2>c, <3>4, SockFacts
      <4> QED
        BY <4>1, <1>a, <2>a DEF Inv, NoOrphanSocket
    <3> QED
      BY <3>2, <3>3, <3>4 DEF NoOrphanSocket
  <2>3. Custody'
    <3>2. \A d \in Conn : future'[d] = "queued" => d \in pending' \cup closing'
      BY <1>a, <1>6, <2>a DEF Inv, Custody
    <3>3. \A d \in Conn : future'[d] = "running" => d \in pending' \/ InShutdown(d)'
      BY <1>a, <2>a, <2>c DEF Inv, Custody
    <3>6. closing' \cap callbacks' = {} /\ attaching' \notin closing' \cup callbacks'
      BY <1>0, <1>a, <2>a DEF Inv, Custody
    <3>7. \A s \in input_list' : /\ future'[Owner(s)] = "connected"
                                 /\ Owner(s) \notin pending' /\ ~InShutdown(Owner(s))'
      BY <1>a, <1>b, <2>a, <2>c DEF Inv, Custody
    <3> QED
      BY <1>a, <2>a, <2>b, <3>2, <3>3, <3>6, <3>7 DEF Inv, Custody
  <2>4. PhaseAgrees'
    BY <1>0, <1>a, <2>a, ProxyAssumption DEF PhaseAgrees
  <2> QED
    BY <1>2, <1>3, <1>4, <2>1, <2>2, <2>3, <2>4 DEF Inv
<1> QED
  BY <1>5, <1>6

(* A callback, or the main thread in its place, closes the upstream socket of a
   future that is done. *)
LEMMA ReleaseInv ==
  ASSUME Inv, NEW c \in Conn, Done(c), c \in callbacks \/ c = attaching,
         open' = open \ {Upstream(c)},
         callbacks' = callbacks \ {c},
         attaching' = (IF c = attaching THEN None ELSE attaching),
         UNCHANGED <<remote, future, registryVars, pending, connector_shutdown,
                     closing, eventVars>>,
         pc' \in LoopPoint \cup {"cancel", "attach", "stopped"}, PhaseAgrees'
  PROVE  Inv'
<1> USE DEF registryVars, eventVars
<1>0. c \notin pending \cup closing /\ None \notin Conn /\ c # None
  BY ProxyAssumption DEF Inv, PhaseAgrees, Custody, TypeOK
<1>1. /\ ~InShutdown(c)'
      /\ \A d \in Conn : d # c => (InShutdown(d)' <=> InShutdown(d))
  BY <1>0 DEF InShutdown, Inv, TypeOK
<1>2. future[c] \in {"connected", "failed"}
  BY DEF Inv, Custody, Done
<1>3. \A s \in input_list : s \in Sock /\ Owner(s) \in Conn /\ Owner(s) # c
  BY SockFacts DEF Inv, TypeOK, Custody, InShutdown
<1>4. TypeOK'
  BY DEF Inv, TypeOK
<1>5. RegistriesAgree' /\ PartialFrameClock' /\ SnapshotsKnown'
  BY DEF Inv, RegistriesAgree, PartialFrameClock, SnapshotsKnown, Snapshots
<1>6. SelectSafe'
  BY <1>3, SockFacts DEF Inv, SelectSafe
<1>7. NoOrphanSocket'
  <2>1. ASSUME NEW s \in open'
        PROVE  \/ s \in input_list'
               \/ Owner(s) \in pending' \cup closing'
               \/ s = Upstream(Owner(s)) /\ InShutdown(Owner(s))'
    <3>1. s \in open /\ s \in Sock /\ Owner(s) \in Conn /\ s # Upstream(c)
      BY SockFacts DEF Inv, TypeOK
    <3>2. \/ s \in input_list
          \/ Owner(s) \in pending \cup closing
          \/ s = Upstream(Owner(s)) /\ InShutdown(Owner(s)) /\ Owner(s) # c
      BY <3>1 DEF Inv, NoOrphanSocket
    <3> QED
      BY <3>1, <3>2, <1>1
  <2>2. \A d \in pending' \cup closing' : Client(d) \in open' \ input_list'
    BY SockFacts DEF Inv, NoOrphanSocket, TypeOK
  <2>3. ASSUME NEW d \in Conn, d \in pending' \/ InShutdown(d)'
        PROVE  Upstream(d) \in open' <=> future'[d] \in {"running", "connected"}
    <3>1. d # c /\ (d \in pending \/ InShutdown(d))
      BY <1>0, <1>1, <2>3
    <3>2. Upstream(d) # Upstream(c)
      BY <3>1, SockFacts
    <3> QED
      BY <3>1, <3>2 DEF Inv, NoOrphanSocket
  <2> QED
    BY <2>1, <2>2, <2>3 DEF NoOrphanSocket
<1>8. Custody'
  <2>1. \A d \in Conn : future'[d] = "running" => d \in pending' \/ InShutdown(d)'
    BY <1>1, <1>2 DEF Inv, Custody
  <2>2. \A d \in Conn : d \in callbacks' \/ d = attaching' =>
          future'[d] \in {"running", "connected", "failed"}
    BY <1>0 DEF Inv, Custody
  <2>3. closing' \cap callbacks' = {} /\ attaching' \notin closing' \cup callbacks'
    BY <1>0 DEF Inv, Custody, TypeOK
  <2>4. \A s \in input_list' : /\ future'[Owner(s)] = "connected"
                               /\ Owner(s) \notin pending' /\ ~InShutdown(Owner(s))'
    BY <1>1, <1>3 DEF Inv, Custody
  <2> QED
    BY <2>1, <2>2, <2>3, <2>4 DEF Inv, Custody
<1> QED
  BY <1>4, <1>5, <1>6, <1>7, <1>8 DEF Inv

(* The callback is attached, or has nothing to wait for. *)
LEMMA AttachCallbackInv == ASSUME Inv, AttachCallback PROVE Inv'
<1>0. /\ connector_shutdown /\ attaching \in Conn /\ attaching # None
      /\ attaching \notin closing \cup callbacks /\ pending = {}
      /\ inputready = {} /\ exceptready = {} /\ expired = {} /\ source = None
  BY ProxyAssumption DEF AttachCallback, Inv, PhaseAgrees, Custody, TypeOK
<1>a. /\ UNCHANGED <<remote, future, registryVars, pending, connector_shutdown,
                     closing, eventVars>>
      /\ attaching' = None /\ pc' = "cancel"
  BY DEF AttachCallback
<1> USE DEF registryVars, eventVars
<1>1. PhaseAgrees'
  BY <1>0, <1>a DEF PhaseAgrees
<1>2. CASE Done(attaching)
  <2>1. open' = open \ {Upstream(attaching)} /\ callbacks' = callbacks \ {attaching}
    BY <1>0, <1>2 DEF AttachCallback
  <2> QED
    BY <1>0, <1>1, <1>2, <1>a, <2>1, ReleaseInv
<1>3. CASE ~Done(attaching)
  <2>1. open' = open /\ callbacks' = callbacks \cup {attaching}
    BY <1>3 DEF AttachCallback
  <2>2. \A d \in Conn : InShutdown(d)' <=> InShutdown(d)
    BY <1>0, <1>a, <2>1, ProxyAssumption DEF InShutdown
  <2>3. \A s \in open : s \in Sock /\ Owner(s) \in Conn
    BY SockFacts DEF Inv, TypeOK
  <2>4. TypeOK' /\ RegistriesAgree' /\ SelectSafe' /\ PartialFrameClock'
    BY <1>0, <1>a, <2>1
       DEF Inv, TypeOK, RegistriesAgree, SelectSafe, PartialFrameClock
  <2>5. NoOrphanSocket'
    BY <1>a, <2>1, <2>2, <2>3 DEF Inv, NoOrphanSocket
  <2>6. Custody'
    <3>1. \A d \in Conn : d \in callbacks' \/ d = attaching' =>
            future'[d] \in {"running", "connected", "failed"}
      BY <1>0, <1>a, <2>1, ProxyAssumption DEF Inv, Custody
    <3>2. closing' \cap callbacks' = {} /\ attaching' \notin closing' \cup callbacks'
      BY <1>0, <1>a, <2>1, ProxyAssumption DEF Inv, Custody, TypeOK
    <3>3. \A s \in input_list' : /\ future'[Owner(s)] = "connected"
                                 /\ Owner(s) \notin pending' /\ ~InShutdown(Owner(s))'
      BY <1>a, <2>2, SockFacts DEF Inv, Custody, TypeOK
    <3>4. \A d \in Conn : future'[d] = "running" => d \in pending' \/ InShutdown(d)'
      BY <1>a, <2>2 DEF Inv, Custody
    <3> QED
      BY <1>a, <3>1, <3>2, <3>3, <3>4 DEF Inv, Custody
  <2>7. SnapshotsKnown'
    BY <1>a DEF Inv, SnapshotsKnown, Snapshots
  <2> QED
    BY <1>1, <2>4, <2>5, <2>6, <2>7 DEF Inv
<1> QED
  BY <1>2, <1>3

-----------------------------------------------------------------------------
(***************************************************************************)
(* The workers.                                                            *)
(***************************************************************************)
(* A future somebody holds moves on, and its upstream socket with it. *)
LEMMA FutureStepInv ==
  ASSUME Inv, NEW c \in Conn, future[c] \in {"queued", "running"},
         NEW f \in {"running", "connected", "failed"},
         future' = [future EXCEPT ![c] = f],
         open' = IF f = "failed" THEN open \ {Upstream(c)}
                                 ELSE open \cup {Upstream(c)},
         callbacks' = callbacks, WorkerUnchanged
  PROVE  Inv'
<1> USE DEF registryVars, eventVars
<1>a. /\ UNCHANGED <<remote, registryVars, pending, connector_shutdown, closing,
                     attaching, eventVars, pc, callbacks>>
      /\ future'[c] = f /\ future' \in [Conn -> FutureState]
      /\ \A d \in Conn : d # c => future'[d] = future[d]
  BY DEF WorkerUnchanged, Inv, TypeOK, FutureState
<1>b. c \in pending \/ InShutdown(c)
  BY DEF Inv, Custody, InShutdown
<1>c. \A d \in Conn : InShutdown(d)' <=> InShutdown(d)
  BY <1>a DEF InShutdown
<1>d. \A s \in input_list : s \in Sock /\ Owner(s) \in Conn /\ Owner(s) # c
  BY SockFacts DEF Inv, TypeOK, Custody
<1>1. TypeOK'
  BY <1>a, SockFacts DEF Inv, TypeOK
<1>2. RegistriesAgree' /\ PartialFrameClock' /\ PhaseAgrees'
  BY <1>a DEF Inv, RegistriesAgree, PartialFrameClock, PhaseAgrees
<1>3. SelectSafe'
  BY <1>a, <1>d, SockFacts DEF Inv, SelectSafe
<1>4. NoOrphanSocket'
  <2>1. ASSUME NEW s \in open'
        PROVE  \/ s \in input_list'
               \/ Owner(s) \in pending' \cup closing'
               \/ s = Upstream(Owner(s)) /\ InShutdown(Owner(s))'
    <3>1. CASE s = Upstream(c)
      BY <3>1, <1>a, <1>b, <1>c, SockFacts
    <3>2. CASE s # Upstream(c)
      <4>1. s \in open /\ Owner(s) \in Conn
        BY <3>2, SockFacts DEF Inv, TypeOK
      <4> QED
        BY <4>1, <1>a, <1>c DEF Inv, NoOrphanSocket
    <3> QED
      BY <3>1, <3>2
  <2>2. \A d \in pending' \cup closing' : Client(d) \in open' \ input_list'
    BY <1>a, SockFacts DEF Inv, NoOrphanSocket, TypeOK
  <2>3. ASSUME NEW d \in Conn, d \in pending' \/ InShutdown(d)'
        PROVE  Upstream(d) \in open' <=> future'[d] \in {"running", "connected"}
    <3>1. CASE d = c
      BY <3>1, <1>a
    <3>2. CASE d # c
      <4>1. d \in pending \/ InShutdown(d)
        BY <1>a, <1>c, <2>3
      <4>2. Upstream(d) # Upstream(c)
        BY <3>2, SockFacts
      <4> QED
        BY <4>1, <4>2, <3>2, <1>a DEF Inv, NoOrphanSocket
    <3> QED
      BY <3>1, <3>2
  <2> QED
    BY <2>1, <2>2, <2>3 DEF NoOrphanSocket
<1>5. Custody'
  <2>1. \A d \in Conn : remote'[d] # "accepted" => future'[d] = "none"
    BY <1>a DEF Inv, Custody
  <2>2. \A d \in Conn : future'[d] = "queued" => d \in pending' \cup closing'
    BY <1>a DEF Inv, Custody
  <2>3. \A d \in Conn : future'[d] = "running" => d \in pending' \/ InShutdown(d)'
    BY <1>a, <1>b, <1>c DEF Inv, Custody
  <2>4. \A d \in pending' \cup closing' : future'[d] \notin {"none", "cancelled"}
    BY <1>a DEF Inv, Custody, TypeOK
  <2>5. \A d \in Conn : d \in callbacks' \/ d = attaching' =>
          future'[d] \in {"running", "connected", "failed"}
    BY <1>a DEF Inv, Custody
  <2>6. closing' \cap callbacks' = {} /\ attaching' \notin closing' \cup callbacks'
    BY <1>a DEF Inv, Custody
  <2>7. \A s \in input_list' : /\ future'[Owner(s)] = "connected"
                               /\ Owner(s) \notin pending' /\ ~InShutdown(Owner(s))'
    BY <1>a, <1>c, <1>d DEF Inv, Custody
  <2> QED
    BY <2>1, <2>2, <2>3, <2>4, <2>5, <2>6, <2>7 DEF Custody
<1>6. SnapshotsKnown'
  <2>1. \A s \in Snapshots : Owner(s) \in Conn /\ Owner(s) # c
    BY SockFacts DEF Inv, TypeOK, SnapshotsKnown, Snapshots
  <2>2. Snapshots' = Snapshots
    BY <1>a DEF Snapshots
  <2> QED
    BY <1>a, <2>1, <2>2 DEF Inv, SnapshotsKnown
<1> QED
  BY <1>1, <1>2, <1>3, <1>4, <1>5, <1>6 DEF Inv

(* Every step of a worker is one of these. *)
LEMMA WorkerInv == ASSUME Inv, NEW c \in Conn, WorkerStep(c) PROVE Inv'
<1>1. CASE StartConnect(c)
  BY <1>1, FutureStepInv DEF StartConnect
<1>2. CASE StartRaises(c)
  <2>1. Upstream(c) \notin open
    BY <1>2 DEF StartRaises, Inv, NoOrphanSocket, Custody, InShutdown
  <2> QED
    BY <1>2, <2>1, FutureStepInv DEF StartRaises
<1>3. CASE ConnectSucceeds(c)
  <2>1. Upstream(c) \in open
    BY <1>3 DEF ConnectSucceeds, Inv, NoOrphanSocket, Custody
  <2> QED
    BY <1>3, <2>1, FutureStepInv DEF ConnectSucceeds
<1>4. CASE ConnectFails(c)
  BY <1>4, FutureStepInv DEF ConnectFails
<1>5. CASE RunCallback(c)
  <2>1. c # attaching
    BY <1>5 DEF RunCallback, Inv, Custody
  <2>2. PhaseAgrees'
    <3>1. connector_shutdown
      BY <1>5 DEF RunCallback, Inv, PhaseAgrees
    <3> QED
      BY <1>5, <3>1 DEF RunCallback, WorkerUnchanged, Inv, PhaseAgrees, eventVars
  <2> QED
    BY <1>5, <2>1, <2>2, ReleaseInv DEF RunCallback, WorkerUnchanged, Inv, TypeOK
<1> QED
  BY <1>1, <1>2, <1>3, <1>4, <1>5 DEF WorkerStep, Settle

-----------------------------------------------------------------------------
(***************************************************************************)
(* The world, and all steps together.                                      *)
(***************************************************************************)
(* A logger dials. *)
LEMMA DialInv == ASSUME Inv, NEW c \in Conn, Dial(c) PROVE Inv'
<1>a. /\ UNCHANGED <<open, future, registryVars, pending, shutdownVars, eventVars, pc>>
      /\ remote' \in [Conn -> {"away", "backlog", "accepted"}]
      /\ remote[c] = "away" /\ \A d \in Conn : d # c => remote'[d] = remote[d]
  BY DEF Dial, Inv, TypeOK
<1> USE DEF registryVars, shutdownVars, eventVars
<1>1. TypeOK' /\ RegistriesAgree' /\ SelectSafe' /\ PartialFrameClock'
  BY <1>a DEF Inv, TypeOK, RegistriesAgree, SelectSafe, PartialFrameClock
<1>2. NoOrphanSocket' /\ PhaseAgrees' /\ SnapshotsKnown'
  BY <1>a DEF Inv, NoOrphanSocket, InShutdown, PhaseAgrees, SnapshotsKnown, Snapshots
<1>3. \A d \in Conn : remote'[d] # "accepted" => future'[d] = "none"
  BY <1>a DEF Inv, Custody
<1>4. Custody'
  BY <1>a, <1>3 DEF Inv, Custody, InShutdown
<1> QED
  BY <1>1, <1>2, <1>4 DEF Inv

(* A partial frame ages. *)
LEMMA GrowOldInv == ASSUME Inv, NEW s \in Sock, GrowOld(s) PROVE Inv'
<1>a. /\ UNCHANGED <<worldVars, input_list, channel, framers, pending, shutdownVars,
                     eventVars, pc>>
      /\ frame_started_at' \in [Sock -> {"none", "recent", "old"}]
      /\ \A t \in Sock : frame_started_at'[t] # "none" <=> frame_started_at[t] # "none"
  BY DEF GrowOld, Inv, TypeOK
<1> USE DEF worldVars, shutdownVars, eventVars
<1>1. TypeOK' /\ RegistriesAgree' /\ SelectSafe' /\ PartialFrameClock'
  BY <1>a DEF Inv, TypeOK, RegistriesAgree, SelectSafe, PartialFrameClock
<1>2. NoOrphanSocket' /\ Custody' /\ PhaseAgrees' /\ SnapshotsKnown'
  BY <1>a DEF Inv, NoOrphanSocket, Custody, InShutdown, PhaseAgrees,
              SnapshotsKnown, Snapshots
<1> QED
  BY <1>1, <1>2 DEF Inv

(* The handlers that close a pair. *)
LEMMA CloseInv ==
  ASSUME Inv, NEW s \in Sock, CloseExpired(s) \/ CloseFailed(s) \/ ReadFails(s)
  PROVE  Inv'
<1>1. /\ pc \in LoopPoint /\ s \in Snapshots
      /\ CloseSocket(s)
      /\ UNCHANGED <<remote, future, pending, shutdownVars, accepting, source, pc>>
      /\ inputready' \subseteq inputready /\ exceptready' \subseteq exceptready
      /\ expired' \subseteq expired
  BY DEF CloseExpired, CloseFailed, ReadFails, TakeReadable, LoopPoint, Snapshots
<1>2. pc' = "procdata" <=> source' # None
  BY <1>1 DEF Inv, PhaseAgrees
<1> QED
  BY <1>1, <1>2, CloseSocketInv

(* The sinks have answered: the loop goes on, and the pair whose frame it was
   stays or is closed. *)
LEMMA SinksAnswerInv == ASSUME Inv, SinksAnswer PROVE Inv'
<1>0. /\ pc \in LoopPoint /\ pc' = "read" /\ pc' \in LoopPoint
      /\ source' = None
      /\ source \in Snapshots
  BY DEF SinksAnswer, ProcdataReturns, LaterFrameFails, LoopPoint, Snapshots,
         Inv, PhaseAgrees
<1>1. CASE LaterFrameFails
  <2>1. /\ CloseSocket(source)
        /\ UNCHANGED <<remote, future, pending, shutdownVars, accepting>>
        /\ inputready' \subseteq inputready /\ exceptready' \subseteq exceptready
        /\ expired' \subseteq expired
    BY <1>1 DEF LaterFrameFails
  <2>2. PICK s \in Snapshots : s = source
    BY <1>0
  <2>3. CloseSocket(s)
    BY <2>1, <2>2 DEF CloseSocket
  <2>4. source' \in {source, None} /\ (pc' = "procdata" <=> source' # None)
    BY <1>0
  <2> QED
    BY <1>0, <2>1, <2>3, <2>4, CloseSocketInv
<1>2. CASE ProcdataReturns
  <2>1. UNCHANGED <<worldVars, registryVars, pending, shutdownVars, accepting,
                    inputready, exceptready, expired>>
    BY <1>2 DEF ProcdataReturns
  <2> USE DEF worldVars, registryVars, shutdownVars
  <2>2. TypeOK' /\ RegistriesAgree' /\ SelectSafe' /\ PartialFrameClock'
    BY <1>0, <2>1
       DEF Inv, TypeOK, RegistriesAgree, SelectSafe, PartialFrameClock
  <2>3. NoOrphanSocket' /\ Custody'
    BY <2>1 DEF Inv, NoOrphanSocket, Custody, InShutdown
  <2>4. PhaseAgrees'
    BY <1>0, <2>1, LoopHoldsAll DEF Inv, PhaseAgrees
  <2>5. SnapshotsKnown'
    BY <1>0, <2>1 DEF Inv, SnapshotsKnown, Snapshots
  <2> QED
    BY <2>2, <2>3, <2>4, <2>5 DEF Inv
<1> QED
  BY <1>1, <1>2 DEF SinksAnswer

(* The shutdown is over. *)
LEMMA ShutdownDoneInv == ASSUME Inv, ShutdownDone PROVE Inv'
<1>1. UNCHANGED <<worldVars, registryVars, pending, shutdownVars, eventVars>>
  BY DEF ShutdownDone
<1> USE DEF worldVars, registryVars, shutdownVars, eventVars
<1>2. TypeOK' /\ RegistriesAgree' /\ SelectSafe' /\ PartialFrameClock'
  BY <1>1 DEF ShutdownDone, Inv, TypeOK, RegistriesAgree, SelectSafe, PartialFrameClock
<1>3. NoOrphanSocket' /\ Custody' /\ SnapshotsKnown'
  BY <1>1 DEF Inv, NoOrphanSocket, Custody, InShutdown, SnapshotsKnown, Snapshots
<1>4. PhaseAgrees'
  BY <1>1 DEF ShutdownDone, Inv, PhaseAgrees
<1> QED
  BY <1>2, <1>3, <1>4 DEF Inv

(* Inv is inductive. *)
LEMMA NextInv == ASSUME Inv, [Next]_vars PROVE Inv'
<1>1. CASE DrainAtHead \/ DrainOnReady
  BY <1>1, DrainInv DEF DrainAtHead, DrainOnReady, LoopPoint
<1>2. CASE Select \/ CollectExpired \/ ExpiredDone \/ FailedDone \/ PassDone
  BY <1>2, PassInv
<1>3. CASE \E s \in Sock : CloseExpired(s) \/ CloseFailed(s) \/ ReadFails(s)
  BY <1>3, CloseInv
<1>4. CASE Accept
  BY <1>4, RefuseInv, AdmitInv DEF Accept
<1>5. CASE \E s \in Sock : \E completes \in BOOLEAN, rest \in {"empty", "partial"} :
             ReadChunk(s, completes, rest)
  BY <1>5, ReadChunkInv
<1>6. CASE \E c \in Conn : CancelPending(c)
  BY <1>6, CancelPendingInv
<1>7. CASE AttachCallback \/ ShutdownDone
  BY <1>7, AttachCallbackInv, ShutdownDoneInv
<1>8. CASE \E c \in Conn : WorkerStep(c)
  BY <1>8, WorkerInv
<1>9. CASE Environment
  BY <1>9, DialInv, GrowOldInv, InterruptInv DEF Environment
<1>10. CASE UNCHANGED vars
  <2>1. /\ UNCHANGED <<remote, open, future, input_list, channel, framers>>
        /\ UNCHANGED <<frame_started_at, pending, connector_shutdown, callbacks>>
        /\ UNCHANGED <<closing, attaching, accepting, inputready, exceptready>>
        /\ UNCHANGED <<expired, source, pc>>
    BY <1>10 DEF vars, worldVars, registryVars, shutdownVars, eventVars
  <2> QED
    BY <2>1 DEF Inv, TypeOK, RegistriesAgree, SelectSafe, PartialFrameClock,
                NoOrphanSocket, Custody, PhaseAgrees, SnapshotsKnown, Snapshots,
                InShutdown
<1>11. CASE SinksAnswer
  BY <1>11, SinksAnswerInv
<1> QED
  BY <1>1, <1>2, <1>3, <1>4, <1>5, <1>6, <1>7, <1>8, <1>9, <1>10, <1>11
     DEF Next, MainStep, Read

-----------------------------------------------------------------------------
(***************************************************************************)
(* The theorems.                                                           *)
(***************************************************************************)
(* The inductive invariant holds in every reachable state. *)
THEOREM Invariant == Spec => []Inv
  BY InitInv, NextInv, PTL DEF Spec

(* The state is well typed: every registry names only sockets and connections
   of the proxy. *)
THEOREM ProxyTypes == Spec => []TypeOK
<1>1. Inv => TypeOK
  BY DEF Inv
<1> QED
  BY <1>1, Invariant, PTL

(* No socket select() watches has been closed, whatever closed it: main() never
   dies of ValueError. *)
THEOREM SelectIsSafe == Spec => []SelectSafe
<1>1. Inv => SelectSafe
  BY DEF Inv
<1> QED
  BY <1>1, Invariant, PTL

(* input_list, channel and framers agree, and a pair relays both ways between
   the two sockets of one connection. *)
THEOREM RegistriesAlwaysAgree == Spec => []RegistriesAgree
<1>1. Inv => RegistriesAgree
  BY DEF Inv
<1> QED
  BY <1>1, Invariant, PTL

(* A socket has a frame clock exactly while its FrameBuffer is not empty. *)
THEOREM FrameClockAccurate == Spec => []PartialFrameClock
<1>1. Inv => PartialFrameClock
  BY DEF Inv
<1> QED
  BY <1>1, Invariant, PTL

(* Every open socket has somebody who will close it, whatever the order in which
   the workers finish, the main thread drains and the shutdown cancels. *)
THEOREM NoSocketOrphaned == Spec => []NoOrphanSocket
<1>1. Inv => NoOrphanSocket
  BY DEF Inv
<1> QED
  BY <1>1, Invariant, PTL
-----------------------------------------------------------------------------
(***************************************************************************)
(* What the steps may do to a connection, from Inv: how a pair ends, how   *)
(* many futures there are, and that every connection goes through the      *)
(* stages of ConnectionLifecycle.                                          *)
(***************************************************************************)

(***************************************************************************)
(* How sockets close.                                                      *)
(***************************************************************************)
(* A registered socket closes only in a _close_socket, which takes exactly one
   pair out of input_list and out of the open sockets. *)
PairCloses(s) ==
  /\ s \in input_list
  /\ open' = open \ {s, Partner(s)}
  /\ input_list' = input_list \ {s, Partner(s)}

(* A drain and the accept behind it leave the registered sockets alone. *)
LEMMA DrainKeepsPairs ==
  ASSUME Inv, RegisterPairs, open \ UnpairedClients \subseteq open'
  PROVE  input_list \subseteq open' \cap input_list'
<1>1. input_list \subseteq input_list'
  BY DEF RegisterPairs
<1> SUFFICES ASSUME NEW s \in input_list PROVE s \notin UnpairedClients
  BY <1>1 DEF Inv, SelectSafe
<1> SUFFICES ASSUME NEW c \in Completed, s = Client(c) PROVE FALSE
  BY DEF UnpairedClients
<1> QED
  BY CompletedFacts, SockFacts

(* The upstream socket of a future somebody still holds, and the client of a
   pending one, are not registered. *)
LEMMA HeldUnregistered ==
  ASSUME Inv, NEW c \in Conn, c \in pending \/ InShutdown(c)
  PROVE  Client(c) \notin input_list /\ Upstream(c) \notin input_list
BY SockFacts DEF Inv, Custody

(* A socket of a snapshot: its pair closes, or it had been closed. *)
LEMMA CloseSocketPair ==
  ASSUME Inv, pc \in LoopPoint, NEW s \in Snapshots, CloseSocket(s)
  PROVE  input_list \subseteq open' \cap input_list' \/ PairCloses(s)
<1>1. CASE s \in input_list /\ channel[s] = Partner(s) /\ Partner(s) \in input_list
  <2>1. {s, channel[s]} \ {None} = {s, Partner(s)}
    BY <1>1, SnapshotSocket, SockFacts
  <2> QED
    BY <1>1, <2>1 DEF CloseSocket, PairCloses
<1>2. CASE s \notin open /\ s \notin input_list /\ channel[s] = None
  BY <1>2 DEF CloseSocket, Inv, SelectSafe
<1> QED
  BY <1>1, <1>2, SnapshotSocket

(* No other step closes a registered socket. *)
LEMMA RegisteredClose ==
  ASSUME Inv, [Next]_vars
  PROVE  input_list \subseteq open' \cap input_list' \/ \E s \in Sock : PairCloses(s)
<1>0. input_list \subseteq open
  BY DEF Inv, SelectSafe
<1>1. CASE DrainAtHead \/ DrainOnReady \/ Accept
  <2>1. RegisterPairs /\ open \ UnpairedClients \subseteq open'
    BY <1>1 DEF DrainAtHead, DrainOnReady, Drain, Accept, AcceptFails, Refuse, Admit,
                AcceptHandled
  <2> QED
    BY <2>1, DrainKeepsPairs
<1>2. CASE \E s \in Sock : CloseExpired(s) \/ CloseFailed(s) \/ ReadFails(s)
  <2>1. PICK s \in Sock : CloseExpired(s) \/ CloseFailed(s) \/ ReadFails(s)
    BY <1>2
  <2>2. pc \in LoopPoint /\ CloseSocket(s) /\ s \in Snapshots
    BY <2>1 DEF CloseExpired, CloseFailed, ReadFails, TakeReadable, LoopPoint,
                Snapshots
  <2> QED
    BY <2>2, CloseSocketPair
<1>3. CASE \E c \in Conn : CancelPending(c)
  <2>1. PICK c \in Conn : CancelPending(c)
    BY <1>3
  <2>2. Client(c) \notin input_list
    BY <2>1, HeldUnregistered DEF CancelPending, InShutdown
  <2> QED
    BY <1>0, <2>1, <2>2 DEF CancelPending, registryVars
<1>4. CASE AttachCallback
  <2>1. attaching \in Conn
    BY <1>4 DEF AttachCallback, Inv, PhaseAgrees, TypeOK
  <2>2. Upstream(attaching) \notin input_list
    BY <2>1, HeldUnregistered DEF InShutdown
  <2> QED
    BY <1>0, <1>4, <2>2 DEF AttachCallback, registryVars
<1>5. CASE \E c \in Conn : WorkerStep(c)
  <2>1. PICK c \in Conn : WorkerStep(c)
    BY <1>5
  <2>2. CASE ConnectFails(c) \/ RunCallback(c)
    <3>1. c \in pending \/ InShutdown(c)
      BY <2>2 DEF ConnectFails, RunCallback, InShutdown, Inv, Custody
    <3>2. open' = open \ {Upstream(c)} /\ input_list' = input_list
      BY <2>2 DEF ConnectFails, RunCallback, WorkerUnchanged, registryVars
    <3> QED
      BY <1>0, <3>1, <3>2, HeldUnregistered
  <2>3. CASE StartConnect(c) \/ StartRaises(c) \/ ConnectSucceeds(c)
    BY <1>0, <2>3 DEF StartConnect, StartRaises, ConnectSucceeds,
                      WorkerUnchanged, registryVars
  <2> QED
    BY <2>1, <2>2, <2>3 DEF WorkerStep, Settle
<1>6. CASE \/ Select \/ CollectExpired \/ ExpiredDone \/ FailedDone \/ PassDone
           \/ ShutdownDone \/ Environment \/ ProcdataReturns
           \/ \E s \in Sock : \E completes \in BOOLEAN, rest \in {"empty", "partial"} :
                ReadChunk(s, completes, rest)
           \/ UNCHANGED vars
  <2>1. open' = open /\ input_list' = input_list
    BY <1>6 DEF Select, CollectExpired, ExpiredDone, FailedDone, PassDone,
                ShutdownDone, Environment, Dial, GrowOld, Interrupt, ReadChunk,
                ProcdataReturns, worldVars, registryVars, vars
  <2> QED
    BY <1>0, <2>1
<1>7. CASE LaterFrameFails
  <2>1. pc \in LoopPoint /\ CloseSocket(source) /\ source \in Snapshots
    BY <1>7 DEF LaterFrameFails, LoopPoint, Snapshots, Inv, PhaseAgrees
  <2>2. PICK s \in Snapshots : s = source
    BY <2>1
  <2>3. CloseSocket(s) /\ s \in Sock
    BY <2>1, <2>2 DEF CloseSocket, Inv, TypeOK, Snapshots
  <2> QED
    BY <2>1, <2>3, CloseSocketPair
<1> QED
  BY <1>1, <1>2, <1>3, <1>4, <1>5, <1>6, <1>7 DEF Next, MainStep, Read, SinksAnswer

(* The two sockets of a pair leave the loop and are closed in one step: the proxy
   never relays in one direction only. *)
THEOREM PairsCloseTogether == Spec => PairClosesTogether
<1>1. ASSUME Inv, [Next]_vars
      PROVE  ClosesWithPartner
  <2> SUFFICES ASSUME NEW s \in input_list, s \notin open'
               PROVE  s \notin input_list' /\ Partner(s) \notin open' \cup input_list'
    BY DEF ClosesWithPartner
  <2>0. s \in open /\ s \in Sock
    BY <1>1 DEF Inv, SelectSafe, TypeOK
  <2>1. PICK t \in Sock : PairCloses(t)
    BY <1>1, RegisteredClose
  <2>2. s = t \/ s = Partner(t)
    BY <2>0, <2>1 DEF PairCloses
  <2> QED
    BY <2>1, <2>2, SockFacts DEF PairCloses
<1> QED
  BY <1>1, Invariant, PTL DEF Spec, PairClosesTogether

(* A step that closes registered sockets closes those of one connection: no
   logger's traffic can end the relaying of another's. *)
THEOREM OthersUntouched == Spec => OtherPairsUntouched
<1>1. ASSUME Inv, [Next]_vars
      PROVE  [\A s, t \in input_list \ open' : Owner(s) = Owner(t)]_vars
  <2> SUFFICES ASSUME NEW s \in input_list \ open', NEW t \in input_list \ open'
               PROVE  Owner(s) = Owner(t)
    OBVIOUS
  <2>0. s \in open /\ t \in open
    BY <1>1 DEF Inv, SelectSafe
  <2>1. PICK u \in Sock : PairCloses(u)
    BY <1>1, RegisteredClose
  <2>2. s \in {u, Partner(u)} /\ t \in {u, Partner(u)}
    BY <2>0, <2>1 DEF PairCloses
  <2> QED
    BY <2>2, SockFacts
<1> QED
  BY <1>1, Invariant, PTL DEF Spec, OtherPairsUntouched

-----------------------------------------------------------------------------
(***************************************************************************)
(* The futures somebody holds.  Only on_accept adds one, while there are   *)
(* fewer than MaxPending; the shutdown hands them on but makes none.       *)
(***************************************************************************)
Held == {c \in Conn : c \in pending \/ InShutdown(c)}

HeldBounded == Cardinality(Held) <= MaxPending

(* Admitting a client is the one way to become held. *)
LEMMA HeldGrows ==
  ASSUME Inv, [Next]_vars
  PROVE  \/ Held' \subseteq Held
         \/ \E c \in Conn : Admit(c) /\ Held' \subseteq StillPending \cup {c}
<1>1. CASE \E c \in Conn : Admit(c)
  <2>1. PICK c \in Conn : Admit(c)
    BY <1>1
  <2>2. /\ pending' = StillPending \cup {c} /\ pc \in LoopPoint
        /\ closing' = closing /\ callbacks' = callbacks /\ attaching' = attaching
    BY <2>1 DEF Admit, AcceptHandled, shutdownVars, LoopPoint
  <2>3. Held' \subseteq StillPending \cup {c}
    BY <2>2, LoopHoldsAll DEF Held, InShutdown
  <2> QED
    BY <2>1, <2>3
<1>2. CASE DrainAtHead \/ DrainOnReady \/ AcceptFails \/ \E c \in Conn : Refuse(c)
  <2>1. pending' \subseteq pending /\ UNCHANGED shutdownVars
    BY <1>2 DEF DrainAtHead, DrainOnReady, Drain, AcceptFails, Refuse,
                AcceptHandled, StillPending
  <2> QED
    BY <2>1 DEF Held, InShutdown, shutdownVars
<1>3. CASE Interrupt
  <2>1. closing' = pending /\ callbacks' = callbacks /\ attaching' = attaching
        /\ pending' = {}
    BY <1>3 DEF Interrupt
  <2> QED
    BY <2>1 DEF Held, InShutdown
<1>4. CASE \E c \in Conn : CancelPending(c)
  <2>1. PICK c \in Conn : CancelPending(c)
    BY <1>4
  <2>2. /\ pending' = pending /\ callbacks' = callbacks /\ c \in closing
        /\ closing' \subseteq closing /\ attaching' \in {attaching, c}
    BY <2>1 DEF CancelPending
  <2> QED
    BY <2>2 DEF Held, InShutdown
<1>5. CASE AttachCallback
  <2>1. /\ pending' = pending /\ closing' = closing /\ attaching' = None
        /\ callbacks' \subseteq callbacks \cup {attaching}
    BY <1>5 DEF AttachCallback
  <2> QED
    BY <2>1, ProxyAssumption DEF Held, InShutdown
<1>6. CASE \E c \in Conn : WorkerStep(c)
  <2>1. /\ pending' = pending /\ closing' = closing /\ attaching' = attaching
        /\ callbacks' \subseteq callbacks
    BY <1>6 DEF WorkerStep, Settle, StartConnect, StartRaises, ConnectSucceeds,
                ConnectFails, RunCallback, WorkerUnchanged
  <2> QED
    BY <2>1 DEF Held, InShutdown
<1>7. CASE \/ Select \/ CollectExpired \/ ExpiredDone \/ FailedDone \/ PassDone
           \/ ShutdownDone \/ SinksAnswer
           \/ (\E c \in Conn : Dial(c)) \/ (\E s \in Sock : GrowOld(s))
           \/ (\E s \in Sock : CloseExpired(s) \/ CloseFailed(s) \/ Read(s))
           \/ UNCHANGED vars
  <2>1. UNCHANGED <<pending, shutdownVars>>
    BY <1>7 DEF Select, CollectExpired, ExpiredDone, FailedDone, PassDone,
                ShutdownDone, Dial, GrowOld, CloseExpired, CloseFailed, Read,
                ReadFails, ReadChunk, TakeReadable, SinksAnswer, ProcdataReturns,
                LaterFrameFails, vars
  <2> QED
    BY <2>1 DEF Held, InShutdown, shutdownVars
<1> QED
  BY <1>1, <1>2, <1>3, <1>4, <1>5, <1>6, <1>7
     DEF Next, MainStep, Accept, Environment

(* The bound is inductive. *)
LEMMA HeldBoundedNext ==
  ASSUME Inv, HeldBounded, [Next]_vars PROVE HeldBounded'
<1>0. IsFiniteSet(Held) /\ Cardinality(Held) \in Nat
  BY ProxyAssumption, FS_Subset, FS_CardinalityType DEF Held
<1>1. CASE Held' \subseteq Held
  <2>1. IsFiniteSet(Held') /\ Cardinality(Held') <= Cardinality(Held)
    BY <1>0, <1>1, FS_Subset
  <2>2. Cardinality(Held') \in Nat
    BY <2>1, FS_CardinalityType
  <2> QED
    BY <1>0, <2>1, <2>2, ProxyAssumption DEF HeldBounded
<1>2. ASSUME NEW c \in Conn, Admit(c), Held' \subseteq StillPending \cup {c}
      PROVE  HeldBounded'
  <2>1. StillPending \subseteq Conn
    BY DEF StillPending, Inv, TypeOK
  <2>2. IsFiniteSet(StillPending) /\ Cardinality(StillPending) \in Nat
    BY <2>1, ProxyAssumption, FS_Subset, FS_CardinalityType
  <2>3. /\ IsFiniteSet(StillPending \cup {c})
        /\ Cardinality(StillPending \cup {c}) <= Cardinality(StillPending) + 1
    BY <2>2, FS_AddElement
  <2>4. /\ IsFiniteSet(Held')
        /\ Cardinality(Held') <= Cardinality(StillPending \cup {c})
    BY <1>2, <2>3, FS_Subset
  <2>5. Cardinality(StillPending) < MaxPending
    BY <1>2 DEF Admit
  <2>6. Cardinality(Held') \in Nat /\ Cardinality(StillPending \cup {c}) \in Nat
    BY <2>3, <2>4, FS_CardinalityType
  <2> QED
    BY <2>2, <2>3, <2>4, <2>5, <2>6, ProxyAssumption DEF HeldBounded
<1> QED
  BY <1>1, <1>2, HeldGrows

(* A connection never waits for a worker: there are never more futures to run
   than the pool has threads, also while the shutdown is under way. *)
THEOREM NobodyWaitsForAWorker == Spec => []WorkersSuffice
<1>1. Init => HeldBounded
  <2> SUFFICES ASSUME Init PROVE HeldBounded
    OBVIOUS
  <2>1. Held = {}
    BY ProxyAssumption DEF Init, Held, InShutdown
  <2> QED
    BY <2>1, FS_EmptySet, ProxyAssumption DEF HeldBounded
<1>2. ASSUME Inv, HeldBounded PROVE WorkersSuffice
  <2> DEFINE busy == {c \in Conn : future[c] \in {"queued", "running"}}
  <2>1. busy \subseteq Held
    BY <1>2 DEF Held, Inv, Custody, InShutdown
  <2>2. IsFiniteSet(Held) /\ Cardinality(Held) \in Nat
    BY ProxyAssumption, FS_Subset, FS_CardinalityType DEF Held
  <2>3. IsFiniteSet(busy) /\ Cardinality(busy) <= Cardinality(Held)
    BY <2>1, <2>2, FS_Subset
  <2>4. Cardinality(busy) \in Nat
    BY <2>3, FS_CardinalityType
  <2> QED
    BY <1>2, <2>2, <2>3, <2>4, ProxyAssumption DEF HeldBounded, WorkersSuffice
<1> QED
  BY <1>1, <1>2, HeldBoundedNext, Invariant, PTL DEF Spec

-----------------------------------------------------------------------------
(***************************************************************************)
(* The refinement of ConnectionLifecycle.                                  *)
(***************************************************************************)
(* What a step may do to a connection: accept it once, submit its future once,
   open its client only when accepting it. *)
LEMMA StageFacts ==
  ASSUME Inv, [Next]_vars, NEW c \in Conn
  PROVE  /\ remote[c] = "accepted" => remote'[c] = "accepted"
         /\ future[c] = "none" => future'[c] \in {"none", "queued"}
         /\ remote[c] = "accepted" /\ Client(c) \in open' => Client(c) \in open
<1>0. /\ remote \in [Conn -> {"away", "backlog", "accepted"}]
      /\ future \in [Conn -> FutureState]
  BY DEF Inv, TypeOK
<1>1. CASE Accept
  <2>1. PICK d \in Conn :
          /\ remote[d] = "backlog"
          /\ remote' \in {remote, [remote EXCEPT ![d] = "accepted"]}
          /\ future' \in {future, [future EXCEPT ![d] = "queued"]}
          /\ open' \subseteq open \cup {Client(d)}
    BY <1>1 DEF Accept, AcceptFails, Refuse, Admit
  <2>2. Client(c) = Client(d) => c = d
    BY SockFacts
  <2> QED
    BY <1>0, <2>1, <2>2
<1>2. CASE \E d \in Conn : WorkerStep(d)
  <2>1. PICK d \in Conn : WorkerStep(d)
    BY <1>2
  <2>2. /\ remote' = remote /\ open' \subseteq open \cup {Upstream(d)}
        /\ \A e \in Conn : future[e] = "none" => future'[e] = "none"
    BY <1>0, <2>1 DEF WorkerStep, Settle, StartConnect, StartRaises, ConnectSucceeds,
                ConnectFails, RunCallback, WorkerUnchanged, FutureState
  <2>3. Client(c) # Upstream(d)
    BY SockFacts
  <2> QED
    BY <2>2, <2>3
<1>3. CASE \E d \in Conn : CancelPending(d)
  BY <1>0, <1>3 DEF CancelPending, FutureState
<1>4. CASE \E d \in Conn : Dial(d)
  BY <1>0, <1>4 DEF Dial
<1>5. CASE \/ DrainAtHead \/ DrainOnReady \/ Select \/ CollectExpired \/ ExpiredDone
           \/ FailedDone \/ PassDone \/ AttachCallback \/ ShutdownDone \/ Interrupt
           \/ SinksAnswer \/ (\E s \in Sock : GrowOld(s))
           \/ (\E s \in Sock : CloseExpired(s) \/ CloseFailed(s) \/ Read(s))
           \/ UNCHANGED vars
  <2>1. remote' = remote /\ future' = future /\ open' \subseteq open
    BY <1>5 DEF DrainAtHead, DrainOnReady, Drain, Select, CollectExpired,
                ExpiredDone, FailedDone, PassDone, AttachCallback, ShutdownDone,
                Interrupt, GrowOld, CloseExpired, CloseFailed, Read, ReadFails,
                ReadChunk, TakeReadable, CloseSocket, SinksAnswer, ProcdataReturns,
                LaterFrameFails, worldVars, vars
  <2> QED
    BY <2>1
<1> QED
  BY <1>1, <1>2, <1>3, <1>4, <1>5 DEF Next, MainStep, Environment

(* The stage of a connection before and after a step. *)
LEMMA StageStep ==
  ASSUME Inv, Inv', [Next]_vars, NEW c \in Conn
  PROVE  Status'[c] \in Lifecycle!Successors(Status[c])
<1>0. /\ remote[c] = "accepted" => remote'[c] = "accepted"
      /\ future[c] = "none" => future'[c] \in {"none", "queued"}
      /\ remote[c] = "accepted" /\ Client(c) \in open' => Client(c) \in open
  BY StageFacts
<1>1. input_list \subseteq open /\ input_list' \subseteq open'
  BY DEF Inv, SelectSafe
<1>2. Client(c) \in Sock /\ Owner(Client(c)) = c
  BY SockFacts
<1>3. CASE remote[c] # "accepted"
  <2>1. Client(c) \notin input_list'
    BY <1>0, <1>2, <1>3 DEF Inv, Custody
  <2> QED
    BY <1>3, <2>1 DEF Status, Lifecycle!Successors
<1>4. CASE remote[c] = "accepted" /\ Client(c) \in input_list
  <2>1. Client(c) \in open' => Client(c) \in input_list'
    BY <1>4, RegisteredClose DEF PairCloses
  <2> QED
    BY <1>0, <1>1, <1>4, <2>1 DEF Status, Lifecycle!Successors
<1>5. CASE remote[c] = "accepted" /\ Client(c) \in open \ input_list
  BY <1>0, <1>5 DEF Status, Lifecycle!Successors
<1>6. CASE remote[c] = "accepted" /\ Client(c) \notin open
  BY <1>0, <1>1, <1>6 DEF Status, Lifecycle!Successors
<1> QED
  BY <1>1, <1>3, <1>4, <1>5, <1>6

(* Every connection goes through the stages of ConnectionLifecycle: whatever the
   workers and the loop do, it waits before it is relayed and does not come back
   after it has ended. *)
THEOREM ProxyImplementsLifecycle == Spec => ImplementsLifecycle
<1>1. Init => Lifecycle!Init
  BY DEF Init, Lifecycle!Init, Status
<1>2. Inv /\ Inv' /\ [Next]_vars => [Lifecycle!Next]_Status
  <2> SUFFICES ASSUME Inv, Inv', [Next]_vars PROVE Lifecycle!Next
    OBVIOUS
  <2>1. Status' \in [Conn -> Lifecycle!Stage]
    BY DEF Status, Lifecycle!Stage
  <2> QED
    BY <2>1, StageStep DEF Lifecycle!Next
<1> QED
  BY <1>1, <1>2, Invariant, PTL DEF Spec, ImplementsLifecycle, Lifecycle!Spec
=============================================================================
