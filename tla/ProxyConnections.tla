-------------------------- MODULE ProxyConnections --------------------------
(***************************************************************************)
(* grottproxy.Proxy: the event loop that accepts data loggers, has a pool  *)
(* of threads connect each to the Growatt server, relays between the two   *)
(* sockets of a pair, and shuts the pool down when the loop ends.          *)
(*                                                                         *)
(* Two kinds of actors share the state.  The MAIN thread runs main(): its  *)
(* handlers are the actions below, in the order pc gives; a handler touches *)
(* the registries without the workers seeing them, so each is one action,  *)
(* but for procdata, which runs inside a handler and waits for the sinks   *)
(* of the telemetry: it begins and ends in steps of its own.               *)
(* The WORKER threads of the ThreadPoolExecutor run _connect_upstream and  *)
(* meet the main thread only in the state of the futures and in the set of *)
(* open sockets.                                                           *)
(*                                                                         *)
(* Every connection has a client socket, which accept() returns, and an    *)
(* upstream socket, which its future returns.  The futures are identified  *)
(* with the connections they are made for.                                 *)
(*                                                                         *)
(* Abstracted: the bytes.  What reading a chunk does to a FrameBuffer is   *)
(* kept to "did it complete a frame" and "is a partial frame left" (module *)
(* FrameBuffer has the parser, ProxySession the records), and the age of a *)
(* partial frame to whether it is over INCOMPLETE_FRAME_TIMEOUT.           *)
(***************************************************************************)
EXTENDS Integers, FiniteSets

CONSTANTS
  Conn,         \* the connections data loggers make
  None,         \* "not in the dictionary"
  MaxPending,   \* MAX_PENDING_CONNECTIONS: pending connections and workers
  MaxEvents     \* bound: sockets one select() reports, besides the server

ASSUME ProxyAssumption ==
  /\ IsFiniteSet(Conn)
  /\ MaxPending \in Nat \ {0}
  /\ MaxEvents \in Nat
  /\ None \notin Conn
  /\ None \notin Conn \X {"client", "upstream"}

Sock == Conn \X {"client", "upstream"}

Client(c)   == <<c, "client">>
Upstream(c) == <<c, "upstream">>
Owner(s)    == s[1]
Partner(s)  == IF s[2] = "client" THEN Upstream(s[1]) ELSE Client(s[1])

VARIABLES
  \* the world
  remote,             \* per connection: "away", in the listen "backlog", "accepted"
  open,               \* the sockets this process holds open
  future,             \* per connection: the state of its future
  \* the Proxy object
  input_list,         \* what select() watches, without the listening socket
  channel,            \* the other socket of the pair, or None
  framers,            \* "none", or whether the FrameBuffer is "empty"/"partial"
  frame_started_at,   \* "none", or whether the partial frame is "recent"/"old"
  pending,            \* keys of _pending_connections
  connector_shutdown, \* _connector_shutdown
  callbacks,          \* futures _close_shutdown_upstream is attached to
  \* local variables of the main thread
  pc,
  accepting,          \* the listening socket is in inputready
  inputready,         \* the other sockets in inputready not yet handled
  exceptready,        \* the sockets in exceptready not yet handled
  expired,            \* the sources _expire_incomplete_frames has yet to close
  source,             \* self.s, while procdata works on its frame, or None
  closing,            \* the pending connections _shutdown_connector has yet to do
  attaching           \* the one whose future it could not cancel, or None

worldVars    == <<remote, open, future>>
registryVars == <<input_list, channel, framers, frame_started_at>>
shutdownVars == <<connector_shutdown, callbacks, closing, attaching>>
eventVars    == <<accepting, inputready, exceptready, expired, source>>
vars == <<worldVars, registryVars, pending, shutdownVars, eventVars, pc>>

FutureState == {"none", "queued", "running", "connected", "failed", "cancelled"}

(* future.done() *)
Done(c) == future[c] \in {"connected", "failed", "cancelled"}

LoopPoint == {"drain", "select", "drain_ready", "expire", "expiring",
              "except", "read", "procdata"}

Init ==
  /\ remote = [c \in Conn |-> "away"]
  /\ open = {}
  /\ future = [c \in Conn |-> "none"]
  /\ input_list = {}
  /\ channel = [s \in Sock |-> None]
  /\ framers = [s \in Sock |-> "none"]
  /\ frame_started_at = [s \in Sock |-> "none"]
  /\ pending = {}
  /\ connector_shutdown = FALSE
  /\ callbacks = {}
  /\ pc = "drain"
  /\ accepting = FALSE
  /\ inputready = {}
  /\ exceptready = {}
  /\ expired = {}
  /\ source = None
  /\ closing = {}
  /\ attaching = None
-----------------------------------------------------------------------------
(***************************************************************************)
(* _drain_pending_connections, as the effect of a step that also fixes     *)
(* `open', `input_list', `channel' and `framers'.  The futures done when   *)
(* the list is built are taken out of pending; a connected one registers   *)
(* its pair (_register_pair), any other closes its client.  The branch for *)
(* _connector_shutdown is never taken: the loop has ended when the flag is *)
(* set.                                                                    *)
(***************************************************************************)
(* Mutant: failed futures are not collected. *)
Completed_Succeeded == {c \in pending : future[c] = "connected"}

Completed == {c \in pending : Done(c)}
Connected == {c \in Completed : future[c] = "connected"}

(* _register_pair for every connected future. *)
RegisterPairs ==
  LET new == {s \in Sock : Owner(s) \in Connected}
  IN  /\ input_list' = input_list \cup new
      /\ channel' = [s \in Sock |-> IF s \in new THEN Partner(s) ELSE channel[s]]
      /\ framers' = [s \in Sock |-> IF s \in new THEN "empty" ELSE framers[s]]

UnpairedClients == {Client(c) : c \in Completed \ Connected}

Drain(from, to) ==
  /\ pc = from
  /\ RegisterPairs
  /\ open' = open \ UnpairedClients
  /\ pending' = pending \ Completed
  /\ pc' = to
  /\ UNCHANGED <<remote, future, frame_started_at, shutdownVars, eventVars>>

(* The call at the head of the loop, and the one behind select(). *)
DrainAtHead  == Drain("drain", "select")
DrainOnReady == Drain("drain_ready", "expire")

(***************************************************************************)
(* select(): returns within SELECT_POLL_TIMEOUT, whatever happened.  It    *)
(* raises ValueError, which nothing catches, if a watched socket has been  *)
(* closed.  The results are snapshots: a socket in them may be closed by   *)
(* the time its turn comes.                                                *)
(***************************************************************************)
Select ==
  /\ pc = "select"
  /\ input_list \subseteq open
  /\ accepting' = (\E c \in Conn : remote[c] = "backlog")
  /\ \E r \in SUBSET input_list, x \in SUBSET input_list :
        /\ Cardinality(r) + Cardinality(x) <= MaxEvents
        /\ inputready' = r
        /\ exceptready' = x
  /\ pc' = "drain_ready"
  /\ UNCHANGED <<worldVars, registryVars, pending, shutdownVars, expired, source>>

(***************************************************************************)
(* _close_socket(source): both sockets of the pair leave every registry    *)
(* and are closed; closing a closed socket does nothing.                   *)
(***************************************************************************)
(* Mutants: the partner stays in input_list; the partner is not closed. *)
CloseSocket_KeepsWatching(s) ==
  LET gone == {s, channel[s]} \ {None}
  IN  /\ channel' = [t \in Sock |-> IF t \in gone THEN None ELSE channel[t]]
      /\ input_list' = input_list \ {s}
      /\ framers' = [t \in Sock |-> IF t \in gone THEN "none" ELSE framers[t]]
      /\ frame_started_at' =
           [t \in Sock |-> IF t \in gone THEN "none" ELSE frame_started_at[t]]
      /\ open' = open \ gone

CloseSocket_SourceOnly(s) ==
  /\ channel' = [channel EXCEPT ![s] = None]
  /\ input_list' = input_list \ {s}
  /\ framers' = [framers EXCEPT ![s] = "none"]
  /\ frame_started_at' = [frame_started_at EXCEPT ![s] = "none"]
  /\ open' = open \ {s}

(* The effect of one call. *)
CloseSocket(s) ==
  LET gone == {s, channel[s]} \ {None}
  IN  /\ channel' = [t \in Sock |-> IF t \in gone THEN None ELSE channel[t]]
      /\ input_list' = input_list \ gone
      /\ framers' = [t \in Sock |-> IF t \in gone THEN "none" ELSE framers[t]]
      /\ frame_started_at' =
           [t \in Sock |-> IF t \in gone THEN "none" ELSE frame_started_at[t]]
      /\ open' = open \ gone

(* _expire_incomplete_frames builds its list, then closes each source; the
   list may name both sockets of a pair. *)
(* Mutant: the comparison is the wrong way round. *)
CollectExpired_Recent ==
  /\ pc = "expire"
  /\ expired' = {s \in Sock : frame_started_at[s] = "recent"}
  /\ pc' = "expiring"
  /\ UNCHANGED <<worldVars, registryVars, pending, shutdownVars,
                 accepting, inputready, exceptready, source>>

(* The list comprehension. *)
CollectExpired ==
  /\ pc = "expire"
  /\ expired' = {s \in Sock : frame_started_at[s] = "old"}
  /\ pc' = "expiring"
  /\ UNCHANGED <<worldVars, registryVars, pending, shutdownVars,
                 accepting, inputready, exceptready, source>>

CloseExpired(s) ==
  /\ pc = "expiring"
  /\ s \in expired
  /\ CloseSocket(s)
  /\ expired' = expired \ {s}
  /\ UNCHANGED <<remote, future, pending, shutdownVars,
                 accepting, inputready, exceptready, source, pc>>

ExpiredDone ==
  /\ pc = "expiring"
  /\ expired = {}
  /\ pc' = "except"
  /\ UNCHANGED <<worldVars, registryVars, pending, shutdownVars, eventVars>>

(* for failed_socket in exceptready *)
CloseFailed(s) ==
  /\ pc = "except"
  /\ s \in exceptready
  /\ CloseSocket(s)
  /\ exceptready' = exceptready \ {s}
  /\ UNCHANGED <<remote, future, pending, shutdownVars,
                 accepting, inputready, expired, source, pc>>

FailedDone ==
  /\ pc = "except"
  /\ exceptready = {}
  /\ pc' = "read"
  /\ UNCHANGED <<worldVars, registryVars, pending, shutdownVars, eventVars>>
-----------------------------------------------------------------------------
(***************************************************************************)
(* on_accept: drains first, then accepts.  The listening socket comes      *)
(* first in input_list, so select() reports it first.                      *)
(***************************************************************************)
StillPending == pending \ Completed

(* The drain that opens on_accept, and the end of on_accept. *)
AcceptHandled ==
  /\ pc = "read"
  /\ accepting
  /\ accepting' = FALSE
  /\ RegisterPairs
  /\ UNCHANGED <<frame_started_at, shutdownVars, inputready, exceptready,
                 expired, source, pc>>

(* accept() raises OSError: the peer has gone (it leaves the backlog) or the
   process is out of descriptors (it stays). *)
AcceptFails ==
  /\ AcceptHandled
  /\ open' = open \ UnpairedClients
  /\ pending' = StillPending
  /\ \E c \in Conn :
        /\ remote[c] = "backlog"
        /\ remote' \in {remote, [remote EXCEPT ![c] = "accepted"]}
  /\ UNCHANGED future

(* The client is closed again because the queue is full, settimeout() raised
   OSError, or submit() raised RuntimeError. *)
(* Mutant: the connection is refused after its future was submitted. *)
Refuse_Submitted(c) ==
  /\ AcceptHandled
  /\ remote[c] = "backlog"
  /\ remote' = [remote EXCEPT ![c] = "accepted"]
  /\ open' = open \ UnpairedClients
  /\ pending' = StillPending \cup {c}
  /\ future' = [future EXCEPT ![c] = "queued"]

(* One refusal, whatever the reason. *)
Refuse(c) ==
  /\ AcceptHandled
  /\ remote[c] = "backlog"
  /\ remote' = [remote EXCEPT ![c] = "accepted"]
  /\ open' = open \ UnpairedClients
  /\ pending' = StillPending
  /\ UNCHANGED future

(* Mutant: the queue has no limit. *)
Admit_Unlimited(c) ==
  /\ AcceptHandled
  /\ remote[c] = "backlog"
  /\ ~connector_shutdown
  /\ remote' = [remote EXCEPT ![c] = "accepted"]
  /\ open' = (open \ UnpairedClients) \cup {Client(c)}
  /\ future' = [future EXCEPT ![c] = "queued"]
  /\ pending' = StillPending \cup {c}

(* The future is submitted and the connection is pending. *)
Admit(c) ==
  /\ AcceptHandled
  /\ remote[c] = "backlog"
  /\ ~connector_shutdown
  /\ Cardinality(StillPending) < MaxPending
  /\ remote' = [remote EXCEPT ![c] = "accepted"]
  /\ open' = (open \ UnpairedClients) \cup {Client(c)}
  /\ future' = [future EXCEPT ![c] = "queued"]
  /\ pending' = StillPending \cup {c}
-----------------------------------------------------------------------------
(***************************************************************************)
(* _read_socket(source) for a readable socket whose turn has come.         *)
(***************************************************************************)
TakeReadable(s) ==
  /\ pc = "read"
  /\ ~accepting
  /\ s \in inputready
  /\ inputready' = inputready \ {s}
  /\ UNCHANGED <<remote, future, pending, shutdownVars, accepting, exceptready,
                 expired>>

(* End of file, FrameError, OSError from recv or from sending to the partner,
   or any other exception: the pair is closed.  A socket closed earlier in the
   same pass ends here, its recv raises OSError. *)
ReadFails(s) ==
  /\ TakeReadable(s)
  /\ CloseSocket(s)
  /\ UNCHANGED <<source, pc>>

(* on_recv has sent a frame to the partner and hands it to procdata; or none
   of the frames is for procdata. *)
Decodes(s, completes) ==
  IF completes THEN \/ pc' = "procdata" /\ source' = s
                    \/ UNCHANGED <<source, pc>>
               ELSE UNCHANGED <<source, pc>>

(* A chunk that leaves `rest' in the FrameBuffer.  Bytes never leave the buffer
   except as frames, so a chunk that completes none leaves a partial frame.  A
   completed frame is looked up in, and sent to, channel[source]. *)
(* Mutant: the clock is not cleared when the frame completes. *)
ReadChunk_KeepsClock(s, completes, rest) ==
  /\ TakeReadable(s)
  /\ s \in open
  /\ ~completes => rest = "partial"
  /\ completes => channel[s] \in open
  /\ framers' = [framers EXCEPT ![s] = rest]
  /\ frame_started_at' =
       IF rest = "partial" /\ (completes \/ framers[s] # "partial")
         THEN [frame_started_at EXCEPT ![s] = "recent"]
         ELSE frame_started_at
  /\ Decodes(s, completes)
  /\ UNCHANGED <<open, input_list, channel>>

(* The chunk is read, the clock set, and its frames handled up to the first
   call of procdata. *)
ReadChunk(s, completes, rest) ==
  /\ TakeReadable(s)
  /\ s \in open
  /\ ~completes => rest = "partial"
  /\ completes => channel[s] \in open
  /\ framers' = [framers EXCEPT ![s] = rest]
  /\ frame_started_at' =
       [frame_started_at EXCEPT ![s] =
          CASE rest = "empty" -> "none"
            [] rest = "partial" /\ (completes \/ framers[s] # "partial") -> "recent"
            [] rest = "partial" /\ ~completes /\ framers[s] = "partial" ->
                 IF frame_started_at[s] = "none" THEN "recent"
                                                 ELSE frame_started_at[s]]
  /\ Decodes(s, completes)
  /\ UNCHANGED <<open, input_list, channel>>

(* procdata has returned or raised, which on_recv contains, for this frame and
   whatever frames of the chunk come behind it. *)
ProcdataReturns ==
  /\ pc = "procdata"
  /\ pc' = "read"
  /\ source' = None
  /\ UNCHANGED <<worldVars, registryVars, pending, shutdownVars, accepting,
                 inputready, exceptready, expired>>

(* So it has, but a later frame of the chunk cannot be sent, or what follows is
   malformed: the pair is closed. *)
LaterFrameFails ==
  /\ pc = "procdata"
  /\ CloseSocket(source)
  /\ pc' = "read"
  /\ source' = None
  /\ UNCHANGED <<remote, future, pending, shutdownVars, accepting, inputready,
                 exceptready, expired>>

PassDone ==
  /\ pc = "read"
  /\ ~accepting
  /\ inputready = {}
  /\ pc' = "drain"
  /\ UNCHANGED <<worldVars, registryVars, pending, shutdownVars, eventVars>>
-----------------------------------------------------------------------------
(***************************************************************************)
(* An exception leaves the loop (KeyboardInterrupt) and the finally clause *)
(* runs _shutdown_connector.  It may come while procdata waits for a sink; *)
(* interrupts elsewhere in a handler are not modelled.                     *)
(***************************************************************************)
Interrupt ==
  /\ pc \in LoopPoint
  /\ ~connector_shutdown
  /\ connector_shutdown' = TRUE
  /\ closing' = pending
  /\ pending' = {}
  /\ pc' = "cancel"
  /\ accepting' = FALSE
  /\ inputready' = {}
  /\ exceptready' = {}
  /\ expired' = {}
  /\ source' = None
  /\ UNCHANGED <<worldVars, registryVars, callbacks, attaching>>

(* Closes the client, then future.cancel(): only a future no worker has taken
   can be cancelled. *)
CancelPending(c) ==
  /\ pc = "cancel"
  /\ c \in closing
  /\ open' = open \ {Client(c)}
  /\ closing' = closing \ {c}
  /\ IF future[c] = "queued"
       THEN /\ future' = [future EXCEPT ![c] = "cancelled"]
            /\ UNCHANGED <<attaching, pc>>
       ELSE /\ attaching' = c
            /\ pc' = "attach"
            /\ UNCHANGED future
  /\ UNCHANGED <<remote, registryVars, pending, connector_shutdown, callbacks,
                 eventVars>>

(* future.add_done_callback(self._close_shutdown_upstream): the callback runs
   here if the worker has finished in the meantime, else in the worker. *)
(* Mutant: nobody closes the upstream socket of a future that finished between
   the failed cancel() and here. *)
AttachCallback_Late ==
  /\ pc = "attach"
  /\ callbacks' = IF Done(attaching) THEN callbacks
                                     ELSE callbacks \cup {attaching}
  /\ attaching' = None
  /\ pc' = "cancel"
  /\ UNCHANGED <<open, remote, future, registryVars, pending,
                 connector_shutdown, closing, eventVars>>

(* At once, or left to the worker. *)
AttachCallback ==
  /\ pc = "attach"
  /\ IF Done(attaching)
       THEN /\ open' = open \ {Upstream(attaching)}
            /\ UNCHANGED callbacks
       ELSE /\ callbacks' = callbacks \cup {attaching}
            /\ UNCHANGED open
  /\ attaching' = None
  /\ pc' = "cancel"
  /\ UNCHANGED <<remote, future, registryVars, pending, connector_shutdown,
                 closing, eventVars>>

(* executor.shutdown(wait=False, cancel_futures=True): nothing is left queued. *)
ShutdownDone ==
  /\ pc = "cancel"
  /\ closing = {}
  /\ pc' = "stopped"
  /\ UNCHANGED <<worldVars, registryVars, pending, shutdownVars, eventVars>>
-----------------------------------------------------------------------------
(***************************************************************************)
(* The worker threads.                                                     *)
(***************************************************************************)
WorkerUnchanged ==
  UNCHANGED <<remote, registryVars, pending, connector_shutdown, closing,
              attaching, eventVars, pc>>

(* A worker takes the future and Forward() creates the upstream socket. *)
StartConnect(c) ==
  /\ future[c] = "queued"
  /\ Cardinality({d \in Conn : future[d] = "running"}) < MaxPending
  /\ future' = [future EXCEPT ![c] = "running"]
  /\ open' = open \cup {Upstream(c)}
  /\ UNCHANGED callbacks
  /\ WorkerUnchanged

(* Forward() raises: there is no socket, future.result() raises. *)
StartRaises(c) ==
  /\ future[c] = "queued"
  /\ future' = [future EXCEPT ![c] = "failed"]
  /\ UNCHANGED <<open, callbacks>>
  /\ WorkerUnchanged

ConnectSucceeds(c) ==
  /\ future[c] = "running"
  /\ future' = [future EXCEPT ![c] = "connected"]
  /\ UNCHANGED <<open, callbacks>>
  /\ WorkerUnchanged

(* connect() raises OSError, at the latest after SOCKET_IO_TIMEOUT. *)
ConnectFails(c) ==
  /\ future[c] = "running"
  /\ future' = [future EXCEPT ![c] = "failed"]
  /\ open' = open \ {Upstream(c)}
  /\ UNCHANGED callbacks
  /\ WorkerUnchanged

(* The worker that finished the future runs its callbacks. *)
RunCallback(c) ==
  /\ c \in callbacks
  /\ Done(c)
  /\ callbacks' = callbacks \ {c}
  /\ open' = open \ {Upstream(c)}
  /\ UNCHANGED future
  /\ WorkerUnchanged
-----------------------------------------------------------------------------
(***************************************************************************)
(* The world: a logger connects, a partial frame grows old.                *)
(***************************************************************************)
Dial(c) ==
  /\ remote[c] = "away"
  /\ remote' = [remote EXCEPT ![c] = "backlog"]
  /\ UNCHANGED <<open, future, registryVars, pending, shutdownVars, eventVars, pc>>

GrowOld(s) ==
  /\ frame_started_at[s] = "recent"
  /\ frame_started_at' = [frame_started_at EXCEPT ![s] = "old"]
  /\ UNCHANGED <<worldVars, input_list, channel, framers, pending, shutdownVars,
                 eventVars, pc>>
-----------------------------------------------------------------------------
Accept == AcceptFails \/ \E c \in Conn : Refuse(c) \/ Admit(c)

Read(s) ==
  \/ ReadFails(s)
  \/ \E completes \in BOOLEAN, rest \in {"empty", "partial"} :
        ReadChunk(s, completes, rest)

MainStep ==
  \/ DrainAtHead \/ Select \/ DrainOnReady
  \/ CollectExpired \/ (\E s \in Sock : CloseExpired(s)) \/ ExpiredDone
  \/ (\E s \in Sock : CloseFailed(s)) \/ FailedDone
  \/ Accept \/ (\E s \in Sock : Read(s)) \/ PassDone
  \/ (\E c \in Conn : CancelPending(c)) \/ AttachCallback \/ ShutdownDone

(* The sinks let procdata go on. *)
SinksAnswer == ProcdataReturns \/ LaterFrameFails

Settle(c) == ConnectSucceeds(c) \/ ConnectFails(c)

WorkerStep(c) ==
  StartConnect(c) \/ StartRaises(c) \/ Settle(c) \/ RunCallback(c)

Environment ==
  (\E c \in Conn : Dial(c)) \/ (\E s \in Sock : GrowOld(s)) \/ Interrupt

Next == MainStep \/ SinksAnswer \/ (\E c \in Conn : WorkerStep(c)) \/ Environment

(* The main thread keeps running: select polls, every socket of a pair has
   SOCKET_IO_TIMEOUT.  The workers too: connect() has the same timeout.  But
   nothing bounds procdata: requests.post to PVOutput is given no timeout, nor
   are the MQTT publication and an extension.  So there is no fairness for
   SinksAnswer. *)
Fairness ==
  /\ WF_vars(MainStep)
  /\ \A c \in Conn : WF_vars(WorkerStep(c))

Spec == Init /\ [][Next]_vars /\ Fairness
-----------------------------------------------------------------------------
TypeOK ==
  /\ remote \in [Conn -> {"away", "backlog", "accepted"}]
  /\ open \subseteq Sock
  /\ future \in [Conn -> FutureState]
  /\ input_list \subseteq Sock
  /\ channel \in [Sock -> Sock \cup {None}]
  /\ framers \in [Sock -> {"none", "empty", "partial"}]
  /\ frame_started_at \in [Sock -> {"none", "recent", "old"}]
  /\ pending \subseteq Conn
  /\ connector_shutdown \in BOOLEAN
  /\ callbacks \subseteq Conn
  /\ pc \in LoopPoint \cup {"cancel", "attach", "stopped"}
  /\ accepting \in BOOLEAN
  /\ inputready \subseteq Sock
  /\ exceptready \subseteq Sock
  /\ expired \subseteq Sock
  /\ source \in Sock \cup {None}
  /\ closing \subseteq Conn
  /\ attaching \in Conn \cup {None}

(* select() never sees a closed socket: whichever of read, expiry, exception
   and stale readiness closed it, it has left input_list.  Otherwise select()
   raises ValueError and the whole proxy ends, for all loggers. *)
SelectSafe == input_list \subseteq open

(* The three dictionaries and the list _register_pair fills and _close_socket
   empties agree, and a pair relays between the two sockets of one connection
   in both directions. *)
RegistriesAgree ==
  \A s \in Sock :
    /\ (s \in input_list) <=> (channel[s] # None)
    /\ (s \in input_list) <=> (framers[s] # "none")
    /\ channel[s] # None => channel[s] = Partner(s) /\ Partner(s) \in input_list

(* A socket has a frame clock exactly while its FrameBuffer holds a partial
   frame: no complete connection is ever expired, no stalled one escapes. *)
PartialFrameClock ==
  \A s \in Sock : (frame_started_at[s] # "none") <=> (framers[s] = "partial")

(* Every open socket has somebody who will close it: a registered pair, the
   pending entry of its connection, the shutdown loop, the worker that is
   connecting it, or a callback.  None is orphaned by a future that finishes
   while the main thread drains, is cancelling, or is attaching the callback. *)
InShutdown(c) == c \in closing \/ c = attaching \/ c \in callbacks

NoOrphanSocket ==
  /\ \A s \in open : \/ s \in input_list
                     \/ Owner(s) \in pending \cup closing
                     \/ s = Upstream(Owner(s)) /\ InShutdown(Owner(s))
  /\ \A c \in pending \cup closing : Client(c) \in open \ input_list
  /\ \A c \in Conn :
        (c \in pending \/ InShutdown(c)) =>
          (Upstream(c) \in open <=> future[c] \in {"running", "connected"})

(***************************************************************************)
(* What else is true of the reachable states, and makes the invariants     *)
(* above inductive.                                                        *)
(***************************************************************************)
(* Who holds the future of a connection: it is pending, or being shut down, in
   one of three ways, or it has been collected. *)
Custody ==
  /\ \A c \in Conn : remote[c] # "accepted" => future[c] = "none"
  /\ \A c \in Conn : future[c] = "queued" => c \in pending \cup closing
  /\ \A c \in Conn : future[c] = "running" => c \in pending \/ InShutdown(c)
  /\ \A c \in pending \cup closing : future[c] \notin {"none", "cancelled"}
  /\ \A c \in Conn : c \in callbacks \/ c = attaching =>
        future[c] \in {"running", "connected", "failed"}
  /\ closing \cap callbacks = {} /\ attaching \notin closing \cup callbacks
  /\ \A s \in input_list : /\ future[Owner(s)] = "connected"
                           /\ Owner(s) \notin pending /\ ~InShutdown(Owner(s))

(* The main thread is in the loop, or shutting down and has no pending entry. *)
PhaseAgrees ==
  /\ connector_shutdown <=> pc \in {"cancel", "attach", "stopped"}
  /\ pc = "attach" <=> attaching # None
  /\ pc = "procdata" <=> source # None
  /\ connector_shutdown => /\ pending = {}
                           /\ inputready = {} /\ exceptready = {} /\ expired = {}
  /\ ~connector_shutdown => closing = {} /\ callbacks = {}

(* A socket in a snapshot belongs to a pair that was registered before. *)
Snapshots == inputready \cup exceptready \cup expired \cup ({source} \ {None})

SnapshotsKnown ==
  \A s \in Snapshots :
    future[Owner(s)] = "connected" /\ Owner(s) \notin pending

Inv ==
  /\ TypeOK
  /\ RegistriesAgree
  /\ SelectSafe
  /\ PartialFrameClock
  /\ NoOrphanSocket
  /\ Custody
  /\ PhaseAgrees
  /\ SnapshotsKnown

(* As many workers as pending connections: a connection never waits for a
   worker, so SOCKET_IO_TIMEOUT bounds the time it is pending. *)
WorkersSuffice ==
  Cardinality({c \in Conn : future[c] \in {"queued", "running"}}) <= MaxPending

(* A registered socket leaves the loop and closes together with its partner. *)
ClosesWithPartner ==
  \A s \in input_list :
    s \notin open' => /\ s \notin input_list'
                     /\ Partner(s) \notin open' \cup input_list'

(* The two sockets of a pair leave the loop and are closed in one step: there is
   no half-closed pair, relaying in one direction. *)
PairClosesTogether == [][ClosesWithPartner]_vars

(* No step closes sockets of two relayed connections: a malformed record, a
   stalled frame or a broken peer ends its own connection only. *)
OtherPairsUntouched ==
  [][\A s, t \in input_list \ open' : Owner(s) = Owner(t)]_vars

(* The connection's stage in ConnectionLifecycle. *)
Status ==
  [c \in Conn |->
     CASE remote[c] # "accepted" -> "new"
       [] remote[c] = "accepted" /\ Client(c) \in input_list -> "relayed"
       [] remote[c] = "accepted" /\ Client(c) \in open \ input_list -> "connecting"
       [] OTHER -> "ended"]

(* Every connection goes through the stages of ConnectionLifecycle: it is never
   relayed without having waited, and never comes back after it ended. *)
Lifecycle == INSTANCE ConnectionLifecycle WITH status <- Status
ImplementsLifecycle == Lifecycle!Spec

(* Unless the main thread stays in one call of procdata for ever, a client that
   was accepted is relayed or closed in the end, also when its connect fails,
   raises, or the loop is interrupted meanwhile. *)
WaitingSettles ==
  \/ <>[](pc = "procdata")
  \/ \A c \in Conn : (Status[c] = "connecting") ~> (Status[c] # "connecting")

(* With the same proviso, a partial frame that has grown old does not stay: its
   pair is closed, unless the frame completes first or the loop has ended. *)
StalledFrameEnds ==
  \/ <>[](pc = "procdata")
  \/ \A s \in Sock :
       (frame_started_at[s] = "old") ~>
         (frame_started_at[s] # "old" \/ connector_shutdown)

(* After the loop has ended the only sockets left open are those of relayed
   pairs: the clients that were pending, and every upstream socket the workers
   were still connecting, are closed. *)
ShutdownReleases ==
  connector_shutdown ~> (pc = "stopped" /\ open \subseteq input_list)
=============================================================================
