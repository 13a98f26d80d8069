---------------------------- MODULE HaDiscovery ----------------------------
(***************************************************************************)
(* The Home Assistant extension (examples/Home Assistent/grott_ha.py, the   *)
(* plug-in grottext/ha.py loads): grottext is called with every decoded     *)
(* record, publishes the retained discovery topics of the device when its   *)
(* entity set changes, then removes the topics of earlier entity sets in    *)
(* batches that are retried until the broker took all of them.              *)
(*                                                                          *)
(* MqttStateHandler's memory is lost with the process, the broker's         *)
(* retained topics are not.  publish_multiple may fail after the broker     *)
(* took any part of its messages.  An attribute name (normalize_key) stands *)
(* for its discovery topic.  A payload is reduced to what tells two         *)
(* payloads of one topic apart: the value it reads, and the layout its      *)
(* scale comes from.  State values, which are not retained, buffered        *)
(* records and missing broker options change nothing here.                  *)
(***************************************************************************)
EXTENDS Sequences, SequencesExt

CONSTANTS
  Device,          \* device serials
  Key,             \* attribute names
  StandardKeys,    \* V0_1_9_STANDARD_KEYS
  StandardSource,  \* COMPATIBILITY_SOURCE_ALIASES: the value a standard key reads
  ProfileLayout,   \* SUPPORTED_PROFILE_LAYOUTS
  OtherLayout,     \* layouts without an entity profile
  Defined,         \* the value keys each profile layout defines
  Included,        \* those of them that are not incl = "no"
  Identity,        \* MOD_SOURCE_ALIASES: the attribute that shows a value
  Values,          \* the sets of values a record of another layout may have
  Options,         \* [profile, includeall]: what the process may be started with
  Family,          \* the name the profile layouts share
  NoLayout,        \* conf.layout is not set
  None

ASSUME LayoutAssumption ==
  /\ StandardKeys \subseteq Key
  /\ StandardSource \in [StandardKeys -> Key]
  /\ ProfileLayout \cap OtherLayout = {}
  /\ NoLayout \notin ProfileLayout \cup OtherLayout
  /\ Family \notin ProfileLayout \cup OtherLayout
  /\ Defined \in [ProfileLayout -> SUBSET Key]
  /\ Included \in [ProfileLayout -> SUBSET Key]
  /\ Identity \in [ProfileLayout -> [Key -> Key]]
  /\ Values \in [OtherLayout -> SUBSET SUBSET Key]
  /\ Options \subseteq [profile : {"standard", "all", "invalid"}, includeall : BOOLEAN]

(* Two values of one layout are never shown as the same extra attribute. *)
ASSUME AliasAssumption ==
  \A l \in ProfileLayout : \A j, k \in Defined[l] :
    Identity[l][j] = Identity[l][k] => j = k \/ Identity[l][k] \in StandardKeys

Layout == ProfileLayout \cup OtherLayout

VARIABLES
  options,    \* ha_entity_profile and includeall of this process
  config,     \* MqttStateHandler.__pv_config
  step,       \* "idle", "discover", "clean", "state": where grottext is
  job,        \* the record it was called with
  retained,   \* the broker's retained payload of each topic, or None
  torn        \* history: a discovery batch failed half-way since the last whole one

vars == <<options, config, step, job, retained, torn>>

-----------------------------------------------------------------------------
(* Which entities a record asks for. *)

\* A mutant: one signature for both profile layouts.
Signature_Family(l) ==
  [carried |-> FALSE, layout |-> IF l \in ProfileLayout THEN Family ELSE l,
   includeall |-> options.includeall]

Signature(l) ==
  CASE options.profile = "standard" /\ l \in ProfileLayout ->
         [carried |-> FALSE, layout |-> Family, includeall |-> FALSE]
    [] options.profile = "all" /\ l \in ProfileLayout ->
         [carried |-> FALSE, layout |-> l, includeall |-> options.includeall]
    [] OTHER -> [carried |-> FALSE, layout |-> l, includeall |-> FALSE]

ValueKeys(l) == IF options.includeall THEN Defined[l] ELSE Included[l]

\* identity and source of every entity; the standard ones read their scale
\* from the family, not from the record's own layout.
StandardComponents ==
  {[identity |-> k, source |-> StandardSource[k], entry |-> Family] : k \in StandardKeys}

Components(l, values) ==
  IF l \in OtherLayout
    THEN {[identity |-> k, source |-> k, entry |-> l] : k \in values}
    ELSE StandardComponents \cup
         (IF options.profile = "standard" THEN {}
          ELSE {c \in {[identity |-> Identity[l][k], source |-> k, entry |-> l] :
                         k \in ValueKeys(l)} : c.identity \notin StandardKeys})

Identities(l, values) == {c.identity : c \in Components(l, values)}

\* make_payload: the template a configuration message carries.
PayloadOf(l, values, k) ==
  LET c == CHOOSE c \in Components(l, values) : c.identity = k
  IN  [source |-> c.source, entry |-> c.entry]

Payload == [source : Key, entry : Layout \cup {Family, "earlier version"}]

\* cleanup_messages: every topic some version may have left behind.
Aliases(l) == {<<k, Identity[l][k]>> : k \in {j \in Key : Identity[l][j] # j}}

Known ==
  {k \in Key : k \in StandardKeys \/ \E l \in ProfileLayout :
                  k \in Defined[l] \/ \E a \in Aliases(l) : k \in {a[1], a[2]}}

-----------------------------------------------------------------------------
(* MqttStateHandler. *)

Pending(c) == IF c = None THEN {} ELSE UNION {b.topics : b \in ToSet(c.batches)}

\* Mutants: what is pending is forgotten; wanted topics are carried over as
\* well; clean-ups of an earlier entity set still count as done.
SetConfigured_Forgets(c, l, desired) ==
  [signature |-> Signature(l), desired |-> desired, batches |-> <<>>,
   cleanup_signatures |-> {}, reconciled |-> {}]
SetConfigured_CarriesAll(c, l, desired) ==
  LET sig == [Signature(l) EXCEPT !.carried = TRUE]
  IN  [signature |-> Signature(l), desired |-> desired,
       batches |-> <<[signature |-> sig, topics |-> Pending(c)]>>,
       cleanup_signatures |-> {sig}, reconciled |-> {}]
SetConfigured_KeepsReconciled(c, l, desired) ==
  [signature |-> Signature(l), desired |-> desired, batches |-> <<>>,
   cleanup_signatures |-> {}, reconciled |-> IF c = None THEN {} ELSE c.reconciled]

\* set_configured: what is still to be removed goes first, under a signature
\* of its own; nothing of the new entity set is reconciled yet.
SetConfigured(c, l, desired) ==
  LET carried == Pending(c) \ desired
      sig     == [Signature(l) EXCEPT !.carried = TRUE]
  IN  [signature          |-> Signature(l),
       desired            |-> desired,
       batches            |-> IF carried = {} THEN <<>>
                              ELSE <<[signature |-> sig, topics |-> carried]>>,
       cleanup_signatures |-> IF carried = {} THEN {} ELSE {sig},
       reconciled         |-> {}]

\* queue_cleanup, which grottext calls for the profile layouts only.
QueueCleanup(c, l) ==
  LET sig      == Signature(l)
      filtered == (Known \ c.desired) \ Pending(c)
  IN  IF l \notin ProfileLayout \/ sig \in c.reconciled \cup c.cleanup_signatures THEN c
      ELSE IF filtered = {} THEN [c EXCEPT !.reconciled = @ \cup {sig}]
      ELSE [c EXCEPT !.batches = Append(@, [signature |-> sig, topics |-> filtered]),
                     !.cleanup_signatures = @ \cup {sig}]

\* A mutant: the batch stays in the list.
CompleteCleanup_Keeps(c) ==
  LET sig == Head(c.batches).signature IN
  [c EXCEPT !.cleanup_signatures = @ \ {sig}, !.reconciled = @ \cup {sig}]

\* complete_cleanup: the first batch is done.
CompleteCleanup(c) ==
  LET sig == Head(c.batches).signature IN
  [c EXCEPT !.batches = Tail(@), !.cleanup_signatures = @ \ {sig},
            !.reconciled = @ \cup {sig}]

-----------------------------------------------------------------------------
Init ==
  /\ options \in Options
  /\ config = [d \in Device |-> None]
  /\ step = "idle" /\ job = None
  /\ \E old \in [Device -> SUBSET Key] :
       retained = [d \in Device |-> [k \in Key |->
                     IF k \in old[d] THEN [source |-> k, entry |-> "earlier version"]
                     ELSE None]]
  /\ torn = [d \in Device |-> FALSE]

\* The values matter for the layouts without a profile only.
Records(d) ==
  {[device |-> d, layout |-> l, values |-> {}] : l \in ProfileLayout \cup {NoLayout}}
  \cup UNION {{[device |-> d, layout |-> l, values |-> v] : v \in Values[l]} :
                l \in OtherLayout}

(* grottext is called: a record whose layout asks for another entity set    *)
(* than the device has is announced first, one without a layout can only    *)
(* follow one that had a layout (return code 7 otherwise).                  *)
Receive(d) ==
  /\ step = "idle" /\ options.profile # "invalid"
  /\ \E r \in Records(d) :
       /\ config[d] # None \/ r.layout # NoLayout
       /\ job' = r
       /\ step' = IF r.layout # NoLayout /\ (config[d] = None
                       \/ config[d].signature # Signature(r.layout))
                  THEN "discover" ELSE "clean"
  /\ UNCHANGED <<options, config, retained, torn>>

\* The broker takes these messages: discovery payloads, or empty ones.
Publish(d, keys) ==
  retained' = [retained EXCEPT ![d] =
    [k \in Key |-> IF k \in keys THEN PayloadOf(job.layout, job.values, k) ELSE @[k]]]
Clear(d, keys) ==
  retained' = [retained EXCEPT ![d] = [k \in Key |-> IF k \in keys THEN None ELSE @[k]]]

Announced == Identities(job.layout, job.values)

Discover(d) ==
  /\ step = "discover" /\ job.device = d
  /\ Publish(d, Announced)
  /\ config' = [config EXCEPT ![d] = SetConfigured(@, job.layout, Announced)]
  /\ torn' = [torn EXCEPT ![d] = FALSE]
  /\ step' = "clean"
  /\ UNCHANGED <<options, job>>

(* publish_multiple raises: the record is given up (return code 6). *)
DiscoverFails(d) ==
  /\ step = "discover" /\ job.device = d
  /\ \E sent \in SUBSET Announced :
       /\ Publish(d, sent)
       /\ torn' = [torn EXCEPT ![d] = @ \/ sent # {}]
  /\ step' = "idle" /\ job' = None
  /\ UNCHANGED <<options, config>>

Queued(d) == QueueCleanup(config[d], job.layout)

NothingToClean(d) ==
  /\ step = "clean" /\ job.device = d
  /\ Queued(d).batches = <<>>
  /\ config' = [config EXCEPT ![d] = Queued(d)]
  /\ step' = "state"
  /\ UNCHANGED <<options, job, retained, torn>>

Clean(d) ==
  /\ step = "clean" /\ job.device = d
  /\ Queued(d).batches # <<>>
  /\ Clear(d, Head(Queued(d).batches).topics)
  /\ config' = [config EXCEPT ![d] = CompleteCleanup(Queued(d))]
  /\ step' = "state"
  /\ UNCHANGED <<options, job, torn>>

(* publish_multiple raises: the batch stays first, the state is published *)
(* all the same.                                                          *)
CleanFails(d) ==
  /\ step = "clean" /\ job.device = d
  /\ Queued(d).batches # <<>>
  /\ \E sent \in SUBSET Head(Queued(d).batches).topics : Clear(d, sent)
  /\ config' = [config EXCEPT ![d] = Queued(d)]
  /\ step' = "state"
  /\ UNCHANGED <<options, job, torn>>

(* The state is published, or its failure logged (return codes 0 and 2). *)
PublishState(d) ==
  /\ step = "state" /\ job.device = d
  /\ step' = "idle" /\ job' = None
  /\ UNCHANGED <<options, config, retained, torn>>

(* The process dies wherever it is and is started again, perhaps with      *)
(* other options.                                                          *)
Restart ==
  /\ options' \in Options
  /\ config' = [d \in Device |-> None]
  /\ step' = "idle" /\ job' = None
  /\ torn' = [d \in Device |-> FALSE]
  /\ UNCHANGED retained

Grottext(d) ==
  \/ Discover(d)
  \/ DiscoverFails(d)
  \/ NothingToClean(d)
  \/ Clean(d)
  \/ CleanFails(d)
  \/ PublishState(d)

Next == Restart \/ \E d \in Device : Receive(d) \/ Grottext(d)

(* Records keep arriving, a call returns, and a publication that is tried  *)
(* again and again is some time taken whole.                               *)
Fairness ==
  \A d \in Device :
    /\ SF_vars(Receive(d))
    /\ WF_vars(Grottext(d))
    /\ SF_vars(Discover(d))
    /\ SF_vars(Clean(d))

Spec == Init /\ [][Next]_vars /\ Fairness

-----------------------------------------------------------------------------
Entity == [identity : Key, source : Key, entry : Layout \cup {Family}]

Sig == [carried : BOOLEAN, layout : Layout \cup {Family, NoLayout}, includeall : BOOLEAN]

Record == [device : Device, layout : Layout \cup {NoLayout}, values : SUBSET Key]

Configuration ==
  [signature : Sig, desired : SUBSET Key,
   batches : Seq([signature : Sig, topics : SUBSET Key]),
   cleanup_signatures : SUBSET Sig, reconciled : SUBSET Sig]

ASSUME NoneAssumption == None \notin Payload \cup Record \cup Configuration

TypeOK ==
  /\ options \in Options
  /\ config \in [Device -> Configuration \cup {None}]
  /\ step \in {"idle", "discover", "clean", "state"}
  /\ job \in Record \cup {None}
  /\ step # "idle" => job # None
  /\ step = "discover" => job.layout \in Layout
  /\ retained \in [Device -> [Key -> Payload \cup {None}]]
  /\ torn \in [Device -> BOOLEAN]

(***************************************************************************)
(* The contract holds: the topics of the entity set a device is configured *)
(* with are retained before it counts as configured, and no clean-up, not  *)
(* even one carried over from an earlier entity set or retried after a     *)
(* failure, removes one of them (grott_ha.set_configured, queue_cleanup).   *)
(***************************************************************************)
Contract == INSTANCE DiscoveryContract WITH
  wanted <- [d \in Device |-> IF config[d] = None THEN {} ELSE config[d].desired],
  kept   <- [d \in Device |-> {k \in Key : retained[d][k] # None}]

ImplementsContract == Contract!Spec

(* Once a record of a profile layout has been through with nothing left to *)
(* clean, no known topic outside the device's entity set is retained: the  *)
(* bookkeeping of signatures and batches never counts a topic as removed   *)
(* that is still there.  It may when a discovery batch failed half-way     *)
(* (torn): the entity set that is still configured is not published again. *)
NothingForgotten ==
  step = "state" /\ job.layout \in ProfileLayout /\ ~torn[job.device]
    /\ config[job.device].batches = <<>>
  => \A k \in Known \ config[job.device].desired : retained[job.device][k] = None

(* After a record has been through, every topic of the device's entity set *)
(* carries the payload this record's layout and profile ask for: records   *)
(* of one signature ask for the same payloads, whichever layout they have. *)
RetainedCurrent ==
  step = "state" /\ job.layout \in Layout /\ ~torn[job.device]
  => LET values == IF job.layout \in OtherLayout THEN config[job.device].desired
                   ELSE job.values
     IN  \A k \in config[job.device].desired :
           /\ k \in Identities(job.layout, values)
           /\ retained[job.device][k] = PayloadOf(job.layout, values, k)

(* A topic still to be removed stays so until it is removed or wanted      *)
(* again, whatever layouts and failures come between, unless the process   *)
(* restarts (set_configured carries the batches over).                     *)
PendingCarried ==
  [][\A d \in Device : config'[d] # None =>
       \A k \in Pending(config[d]) :
         \/ k \in Pending(config'[d])
         \/ k \in config'[d].desired
         \/ retained'[d][k] = None]_vars

(* A known topic outside the entity set of a profile layout is removed in  *)
(* the end, or the entity set changes, if the broker does not refuse every *)
(* attempt (queue_cleanup, cleanup_topics, complete_cleanup).              *)
Stale(d, k) ==
  /\ config[d] # None /\ ~torn[d]
  /\ config[d].signature.layout \in ProfileLayout \cup {Family}
  /\ k \notin config[d].desired
  /\ retained[d][k] # None

CleanedUp == \A d \in Device, k \in Known : Stale(d, k) ~> ~Stale(d, k)
=============================================================================
