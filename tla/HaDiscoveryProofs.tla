------------------------- MODULE HaDiscoveryProofs -------------------------
(***************************************************************************)
(* Proofs about HaDiscovery, for any layouts, entity profiles and devices, *)
(* and any failures and restarts.                                          *)
(***************************************************************************)
EXTENDS HaDiscovery, TLAPS

-----------------------------------------------------------------------------
(* What the operators return. *)

LEMMA SignatureType ==
  ASSUME NEW l \in Layout \cup {NoLayout}, options \in Options
  PROVE  Signature(l) \in Sig /\ ~Signature(l).carried
BY LayoutAssumption DEF Signature, Sig, Layout

LEMMA StandardType == StandardComponents \subseteq Entity
BY LayoutAssumption DEF StandardComponents, Entity

LEMMA ComponentsType ==
  ASSUME NEW l \in Layout, NEW values \in SUBSET Key
  PROVE  Components(l, values) \subseteq Entity
<1>1. CASE l \in OtherLayout
  BY <1>1 DEF Components, Entity, Layout
<1>2. CASE l \notin OtherLayout
  <2>1. l \in ProfileLayout /\ ValueKeys(l) \subseteq Key
    BY <1>2, LayoutAssumption DEF Layout, ValueKeys
  <2>2. {[identity |-> Identity[l][k], source |-> k, entry |-> l] : k \in ValueKeys(l)}
          \subseteq Entity
    BY <2>1, LayoutAssumption DEF Entity, Layout
  <2> QED
    BY <1>2, <2>2, StandardType DEF Components
<1> QED
  BY <1>1, <1>2

LEMMA AnnouncedType ==
  ASSUME NEW l \in Layout, NEW values \in SUBSET Key
  PROVE  /\ Identities(l, values) \subseteq Key
         /\ \A k \in Identities(l, values) : PayloadOf(l, values, k) \in Payload
<1>1. Identities(l, values) \subseteq Key
  BY ComponentsType DEF Identities, Entity
<1>2. ASSUME NEW k \in Identities(l, values)
      PROVE  PayloadOf(l, values, k) \in Payload
  <2> DEFINE c == CHOOSE c \in Components(l, values) : c.identity = k
  <2>1. c \in Components(l, values)
    BY <1>2 DEF Identities
  <2>2. c \in Entity
    BY <2>1, ComponentsType
  <2>3. c.source \in Key /\ c.entry \in Layout \cup {Family}
    BY <2>2 DEF Entity
  <2> QED
    BY <2>3 DEF PayloadOf, Payload
<1> QED
  BY <1>1, <1>2

LEMMA KnownType == Known \subseteq Key
BY DEF Known

Batch == [signature : Sig, topics : SUBSET Key]

LEMMA PendingType ==
  ASSUME NEW c \in Configuration \cup {None}
  PROVE  Pending(c) \subseteq Key
<1>1. CASE c = None
  BY <1>1 DEF Pending
<1>2. CASE c # None
  <2>1. c.batches \in Seq(Batch)
    BY <1>2 DEF Configuration, Batch
  <2>2. \A b \in ToSet(c.batches) : b \in Batch
    BY <2>1 DEF ToSet
  <2> QED
    BY <1>2, <2>2 DEF Pending, Batch
<1> QED
  BY <1>1, <1>2

\* Every batch is accounted for by its signature.
Tracked(c) ==
  \A b \in ToSet(c.batches) : b.signature \in c.cleanup_signatures \cup c.reconciled

LEMMA SetConfiguredType ==
  ASSUME NEW c \in Configuration \cup {None}, NEW l \in Layout,
         NEW desired \in SUBSET Key, options \in Options
  PROVE  LET s == SetConfigured(c, l, desired) IN
         /\ s \in Configuration
         /\ s.signature = Signature(l) /\ s.desired = desired
         /\ Pending(s) = Pending(c) \ desired
         /\ Tracked(s)
         /\ Signature(l) \notin s.reconciled \cup s.cleanup_signatures
<1> DEFINE carried == Pending(c) \ desired
           sig     == [Signature(l) EXCEPT !.carried = TRUE]
           s       == SetConfigured(c, l, desired)
           batch   == [signature |-> sig, topics |-> carried]
<1>1. Signature(l) \in Sig /\ ~Signature(l).carried
  BY SignatureType
<1>2. sig \in Sig /\ sig.carried /\ sig # Signature(l)
  BY <1>1 DEF Sig
<1>3. carried \in SUBSET Key
  BY PendingType
<1>4. batch \in Batch /\ batch.signature = sig /\ batch.topics = carried
  BY <1>2, <1>3 DEF Batch
<1> HIDE DEF batch, sig
<1>5. CASE carried = {}
  <2>1. s = [signature |-> Signature(l), desired |-> desired, batches |-> <<>>,
             cleanup_signatures |-> {}, reconciled |-> {}]
    BY <1>5 DEF SetConfigured
  <2>2. ToSet(s.batches) = {}
    BY <2>1 DEF ToSet
  <2>3. s \in Configuration
    BY <1>1, <2>1 DEF Configuration
  <2>4. Pending(s) = {}
    BY <2>2, <2>3, NoneAssumption DEF Pending
  <2>5. /\ s.signature = Signature(l) /\ s.desired = desired
        /\ s.reconciled = {} /\ s.cleanup_signatures = {}
    BY <2>1
  <2> HIDE DEF s
  <2>6. Tracked(s)
    BY <2>2 DEF Tracked
  <2> QED
    BY <1>5, <2>3, <2>4, <2>5, <2>6 DEF s
<1>6. CASE carried # {}
  <2>1. s = [signature |-> Signature(l), desired |-> desired, batches |-> <<batch>>,
             cleanup_signatures |-> {sig}, reconciled |-> {}]
    BY <1>6 DEF SetConfigured, batch, sig
  <2>2. ToSet(s.batches) = {batch}
    BY <2>1 DEF ToSet
  <2>3. s \in Configuration
    BY <1>1, <1>2, <1>4, <2>1 DEF Configuration, Batch
  <2>4. Pending(s) = carried
    BY <1>4, <2>2, <2>3, NoneAssumption DEF Pending
  <2> QED
    BY <1>2, <1>4, <2>1, <2>2, <2>3, <2>4 DEF Tracked
<1> QED
  BY <1>5, <1>6

LEMMA QueueCleanupType ==
  ASSUME NEW c \in Configuration, NEW l \in Layout \cup {NoLayout}, options \in Options,
         Tracked(c), NEW q, q = QueueCleanup(c, l)
  PROVE  /\ q \in Configuration
         /\ q.signature = c.signature /\ q.desired = c.desired
         /\ Pending(c) \subseteq Pending(q)
         /\ Pending(q) \subseteq Pending(c) \cup (Known \ c.desired)
         /\ Tracked(q)
         /\ c.reconciled \cup c.cleanup_signatures
              \subseteq q.reconciled \cup q.cleanup_signatures
         /\ q.reconciled \cup q.cleanup_signatures
              \subseteq c.reconciled \cup c.cleanup_signatures \cup {Signature(l)}
         /\ l \in ProfileLayout => Signature(l) \in q.reconciled \cup q.cleanup_signatures
         /\ l \in ProfileLayout /\ Signature(l) \notin c.reconciled \cup c.cleanup_signatures
              => Known \ c.desired \subseteq Pending(q)
<1> DEFINE sig      == Signature(l)
           filtered == (Known \ c.desired) \ Pending(c)
           batch    == [signature |-> sig, topics |-> filtered]
<1>1. sig \in Sig
  BY SignatureType
<1>2. c # None
  BY NoneAssumption
<1>3. filtered \in SUBSET Key
  BY KnownType
<1>4. CASE l \notin ProfileLayout \/ sig \in c.reconciled \cup c.cleanup_signatures
  <2>1. q = c
    BY <1>4 DEF QueueCleanup
  <2> QED
    BY <1>4, <2>1
<1>5. CASE l \in ProfileLayout /\ sig \notin c.reconciled \cup c.cleanup_signatures
           /\ filtered = {}
  <2>1. q = [c EXCEPT !.reconciled = @ \cup {sig}]
    BY <1>5 DEF QueueCleanup
  <2>2. /\ q \in Configuration /\ q.signature = c.signature /\ q.desired = c.desired
        /\ q.batches = c.batches /\ q.cleanup_signatures = c.cleanup_signatures
        /\ q.reconciled = c.reconciled \cup {sig}
    BY <1>1, <2>1 DEF Configuration
  <2>3. Pending(q) = Pending(c)
    BY <1>2, <2>2, NoneAssumption DEF Pending
  <2> QED
    BY <1>5, <2>2, <2>3 DEF Tracked
<1>6. CASE l \in ProfileLayout /\ sig \notin c.reconciled \cup c.cleanup_signatures
           /\ filtered # {}
  <2>1. q = [c EXCEPT !.batches = Append(@, batch),
                      !.cleanup_signatures = @ \cup {sig}]
    BY <1>6 DEF QueueCleanup
  <2>2. batch \in Batch /\ batch.topics = filtered /\ batch.signature = sig
    BY <1>1, <1>3 DEF Batch
  <2> HIDE DEF batch
  <2>4. c.batches \in Seq(Batch) /\ Append(c.batches, batch) \in Seq(Batch)
    BY <2>2 DEF Configuration, Batch
  <2>3. /\ q.signature = c.signature /\ q.desired = c.desired
        /\ q.batches = Append(c.batches, batch)
        /\ q.cleanup_signatures = c.cleanup_signatures \cup {sig}
        /\ q.reconciled = c.reconciled
        /\ q \in Configuration
    BY <1>1, <2>1, <2>4 DEF Configuration, Batch
  <2>5. ToSet(q.batches) = ToSet(c.batches) \cup {batch}
    BY <2>2, <2>3, <2>4 DEF ToSet
  <2>6. Pending(q) = Pending(c) \cup filtered
    BY <1>2, <2>2, <2>3, <2>5, NoneAssumption DEF Pending
  <2>7. Tracked(q)
    BY <2>2, <2>3, <2>5 DEF Tracked
  <2>8. Known \ c.desired \subseteq Pending(q)
        /\ Pending(q) \subseteq Pending(c) \cup (Known \ c.desired)
    BY <2>6
  <2>9. q.reconciled \cup q.cleanup_signatures
          = c.reconciled \cup c.cleanup_signatures \cup {sig}
    BY <2>3
  <2> HIDE DEF filtered
  <2> QED
    BY <2>3, <2>6, <2>7, <2>8, <2>9
<1> QED
  BY <1>4, <1>5, <1>6

LEMMA CompleteCleanupType ==
  ASSUME NEW c \in Configuration, c.batches # <<>>, Tracked(c)
  PROVE  LET r == CompleteCleanup(c) IN
         /\ Head(c.batches).topics \subseteq Pending(c)
         /\ r \in Configuration
         /\ r.signature = c.signature /\ r.desired = c.desired
         /\ Pending(c) = Pending(r) \cup Head(c.batches).topics
         /\ Tracked(r)
         /\ r.reconciled \cup r.cleanup_signatures = c.reconciled \cup c.cleanup_signatures
<1> DEFINE sig == Head(c.batches).signature
           r   == CompleteCleanup(c)
<1>1. c.batches \in Seq(Batch)
  BY DEF Configuration, Batch
<1>2. Head(c.batches) \in Batch /\ Tail(c.batches) \in Seq(Batch)
  BY <1>1
<1>3. sig \in Sig /\ sig \in c.cleanup_signatures \cup c.reconciled
  <2>1. Head(c.batches) \in ToSet(c.batches)
    BY <1>1 DEF ToSet
  <2> QED
    BY <1>2, <2>1 DEF Tracked, Batch
<1>4. ToSet(c.batches) = ToSet(Tail(c.batches)) \cup {Head(c.batches)}
  <2>1. ToSet(Tail(c.batches)) \cup {Head(c.batches)} \subseteq ToSet(c.batches)
    BY <1>1 DEF ToSet
  <2>2. ASSUME NEW i \in DOMAIN c.batches
        PROVE  c.batches[i] \in ToSet(Tail(c.batches)) \cup {Head(c.batches)}
    <3>1. CASE i = 1
      BY <1>1, <3>1
    <3>2. CASE i # 1
      <4>1. i - 1 \in DOMAIN Tail(c.batches) /\ Tail(c.batches)[i - 1] = c.batches[i]
        BY <1>1, <3>2
      <4> QED
        BY <4>1 DEF ToSet
    <3> QED
      BY <3>1, <3>2
  <2> QED
    BY <2>1, <2>2 DEF ToSet
<1>5. /\ r \in Configuration /\ r.signature = c.signature /\ r.desired = c.desired
      /\ r.batches = Tail(c.batches)
      /\ r.cleanup_signatures = c.cleanup_signatures \ {sig}
      /\ r.reconciled = c.reconciled \cup {sig}
  BY <1>2, <1>3 DEF CompleteCleanup, Configuration, Batch
<1>6. c # None /\ r # None
  BY <1>5, NoneAssumption
<1> HIDE DEF r, sig
<1>7. Pending(c) = Pending(r) \cup Head(c.batches).topics
  BY <1>4, <1>5, <1>6 DEF Pending
<1>8. Tracked(r)
  BY <1>4, <1>5 DEF Tracked
<1> QED
  BY <1>3, <1>5, <1>7, <1>8 DEF r, sig

-----------------------------------------------------------------------------
(* The inductive invariant. *)

\* What a configured device's memory promises about the broker.
DeviceInv(d) ==
  /\ Tracked(config[d])
  /\ Pending(config[d]) \cap config[d].desired = {}
  /\ \A k \in config[d].desired : retained[d][k] # None
  /\ ~config[d].signature.carried
  /\ ~torn[d] /\ config[d].signature \in config[d].reconciled \cup config[d].cleanup_signatures
       => \A k \in Known \ config[d].desired :
            retained[d][k] # None => k \in Pending(config[d])

\* While a record is being served, its layout's entity set is the configured one.
JobInv ==
  /\ step \in {"clean", "state"} => config[job.device] # None
  /\ step \in {"clean", "state"} /\ job.layout # NoLayout
       => config[job.device].signature = Signature(job.layout)
  /\ step = "state" /\ job.layout \in ProfileLayout
       => config[job.device].signature \in config[job.device].reconciled
                                            \cup config[job.device].cleanup_signatures

IInv == TypeOK /\ JobInv /\ \A d \in Device : config[d] # None => DeviceInv(d)

LEMMA InitInv == Init => IInv
<1> SUFFICES ASSUME Init PROVE IInv
  OBVIOUS
<1>1. PICK old \in [Device -> SUBSET Key] :
        retained = [d \in Device |-> [k \in Key |->
                      IF k \in old[d] THEN [source |-> k, entry |-> "earlier version"]
                      ELSE None]]
  BY DEF Init
<1>2. retained \in [Device -> [Key -> Payload \cup {None}]]
  BY <1>1 DEF Payload
<1> QED
  BY <1>2 DEF Init, IInv, TypeOK, JobInv

\* What a step of a call for device d leaves alone.
LEMMA OtherDevices ==
  ASSUME IInv, NEW d \in Device, UNCHANGED options,
         \A e \in Device \ {d} : config'[e] = config[e] /\ retained'[e] = retained[e]
                                  /\ torn'[e] = torn[e],
         config'[d] # None => DeviceInv(d)'
  PROVE  \A e \in Device : config'[e] # None => DeviceInv(e)'
<1> SUFFICES ASSUME NEW e \in Device, config'[e] # None, e # d PROVE DeviceInv(e)'
  OBVIOUS
<1>1. config'[e] = config[e] /\ retained'[e] = retained[e] /\ torn'[e] = torn[e]
  OBVIOUS
<1>2. DeviceInv(e)
  BY <1>1 DEF IInv
<1> QED
  BY <1>1, <1>2 DEF DeviceInv

\* The broker took some messages of the record's announcement.
LEMMA PublishType ==
  ASSUME TypeOK, step = "discover", NEW d \in Device, NEW keys \in SUBSET Announced,
         Publish(d, keys)
  PROVE  /\ job \in Record /\ job.layout \in Layout
         /\ Announced \subseteq Key
         /\ retained' \in [Device -> [Key -> Payload \cup {None}]]
         /\ \A k \in keys : retained'[d][k] # None
         /\ \A k \in Key \ keys : retained'[d][k] = retained[d][k]
         /\ \A e \in Device \ {d} : retained'[e] = retained[e]
<1>1. job \in Record /\ job.layout \in Layout /\ job.values \in SUBSET Key
  BY DEF TypeOK, Record
<1>2. Announced \subseteq Key
      /\ \A k \in Announced : PayloadOf(job.layout, job.values, k) \in Payload
  BY <1>1, AnnouncedType DEF Announced
<1> DEFINE new == [k \in Key |-> IF k \in keys THEN PayloadOf(job.layout, job.values, k)
                                 ELSE retained[d][k]]
<1>3. retained' = [retained EXCEPT ![d] = new]
  BY DEF Publish, TypeOK
<1>4. new \in [Key -> Payload \cup {None}]
  BY <1>2 DEF TypeOK
<1>5. \A k \in keys : new[k] # None
  BY <1>2, NoneAssumption
<1>6. \A k \in Key \ keys : new[k] = retained[d][k]
  OBVIOUS
<1> HIDE DEF new
<1> QED
  BY <1>1, <1>2, <1>3, <1>4, <1>5, <1>6 DEF TypeOK

LEMMA ClearType ==
  ASSUME TypeOK, NEW d \in Device, NEW keys \in SUBSET Key, Clear(d, keys)
  PROVE  /\ retained' \in [Device -> [Key -> Payload \cup {None}]]
         /\ \A k \in keys : retained'[d][k] = None
         /\ \A k \in Key \ keys : retained'[d][k] = retained[d][k]
         /\ \A e \in Device \ {d} : retained'[e] = retained[e]
<1> DEFINE new == [k \in Key |-> IF k \in keys THEN None ELSE retained[d][k]]
<1>1. retained' = [retained EXCEPT ![d] = new]
  BY DEF Clear, TypeOK
<1>2. new \in [Key -> Payload \cup {None}]
  BY DEF TypeOK
<1>3. \A k \in keys : new[k] = None
  OBVIOUS
<1>4. \A k \in Key \ keys : new[k] = retained[d][k]
  OBVIOUS
<1> HIDE DEF new
<1> QED
  BY <1>1, <1>2, <1>3, <1>4 DEF TypeOK

LEMMA ReceiveInv == \A d \in Device : IInv /\ Receive(d) => IInv'
<1> SUFFICES ASSUME NEW d \in Device, IInv, Receive(d) PROVE IInv'
  OBVIOUS
<1>1. PICK r \in Records(d) :
        /\ config[d] # None \/ r.layout # NoLayout
        /\ job' = r
        /\ step' = IF r.layout # NoLayout /\ (config[d] = None
                        \/ config[d].signature # Signature(r.layout))
                   THEN "discover" ELSE "clean"
  BY DEF Receive
<1>2. r \in Record /\ r.device = d
  <2>1. \A l \in OtherLayout : Values[l] \subseteq SUBSET Key
    BY LayoutAssumption
  <2> QED
    BY <2>1 DEF Records, Record, Layout
<1>3. r # None
  BY <1>2, NoneAssumption
<1>4. UNCHANGED <<options, config, retained, torn>>
  BY DEF Receive
<1>5. TypeOK'
  BY <1>1, <1>2, <1>3, <1>4 DEF IInv, TypeOK, Record
<1>6. JobInv'
  BY <1>1, <1>2, <1>4 DEF JobInv, Signature
<1>7. \A e \in Device : config'[e] # None => DeviceInv(e)'
  BY <1>4 DEF IInv, DeviceInv
<1> QED
  BY <1>5, <1>6, <1>7 DEF IInv

LEMMA DiscoverInv == \A d \in Device : IInv /\ Discover(d) => IInv'
<1> SUFFICES ASSUME NEW d \in Device, IInv, Discover(d) PROVE IInv'
  OBVIOUS
<1> DEFINE c == SetConfigured(config[d], job.layout, Announced)
<1>1. /\ step = "discover" /\ job.device = d /\ Publish(d, Announced)
      /\ config' = [config EXCEPT ![d] = c]
      /\ torn' = [torn EXCEPT ![d] = FALSE]
      /\ step' = "clean" /\ UNCHANGED <<options, job>>
  BY DEF Discover
<1>2. TypeOK
  BY DEF IInv
<1>3. /\ job \in Record /\ job.layout \in Layout /\ Announced \subseteq Key
      /\ retained' \in [Device -> [Key -> Payload \cup {None}]]
      /\ \A k \in Announced : retained'[d][k] # None
      /\ \A e \in Device \ {d} : retained'[e] = retained[e]
  BY <1>1, <1>2, PublishType
<1>4. config[d] \in Configuration \cup {None} /\ options \in Options
  BY <1>2 DEF TypeOK
<1>5. /\ c \in Configuration
      /\ c.signature = Signature(job.layout) /\ c.desired = Announced
      /\ Pending(c) = Pending(config[d]) \ Announced
      /\ Tracked(c)
      /\ Signature(job.layout) \notin c.reconciled \cup c.cleanup_signatures
  BY <1>3, <1>4, SetConfiguredType
<1> HIDE DEF c
<1>6. config'[d] = c /\ c # None /\ config' \in [Device -> Configuration \cup {None}]
      /\ \A e \in Device \ {d} : config'[e] = config[e] /\ torn'[e] = torn[e]
  BY <1>1, <1>2, <1>5, NoneAssumption DEF TypeOK
<1>7. TypeOK'
  BY <1>1, <1>2, <1>3, <1>6, NoneAssumption DEF TypeOK
<1>8. JobInv'
  BY <1>1, <1>5, <1>6 DEF JobInv, Signature
<1>9. ~Signature(job.layout).carried
  BY <1>3, <1>4, SignatureType
<1>10. DeviceInv(d)'
  <2>1. Pending(config'[d]) = Pending(c) /\ Tracked(config'[d])
    BY <1>5, <1>6
  <2> QED
    BY <1>3, <1>5, <1>6, <1>9, <2>1 DEF DeviceInv
<1> QED
  BY <1>1, <1>3, <1>6, <1>7, <1>8, <1>10, OtherDevices DEF IInv

LEMMA DiscoverFailsInv == \A d \in Device : IInv /\ DiscoverFails(d) => IInv'
<1> SUFFICES ASSUME NEW d \in Device, IInv, DiscoverFails(d) PROVE IInv'
  OBVIOUS
<1>1. PICK sent \in SUBSET Announced :
        /\ Publish(d, sent)
        /\ torn' = [torn EXCEPT ![d] = @ \/ sent # {}]
  BY DEF DiscoverFails
<1>2. /\ step = "discover" /\ step' = "idle" /\ job' = None
      /\ UNCHANGED <<options, config>>
  BY DEF DiscoverFails
<1>3. TypeOK
  BY DEF IInv
<1>4. /\ Announced \subseteq Key
      /\ retained' \in [Device -> [Key -> Payload \cup {None}]]
      /\ \A k \in sent : retained'[d][k] # None
      /\ \A k \in Key \ sent : retained'[d][k] = retained[d][k]
      /\ \A e \in Device \ {d} : retained'[e] = retained[e]
  BY <1>1, <1>2, <1>3, PublishType
<1>5. /\ torn'[d] = (torn[d] \/ sent # {}) /\ torn' \in [Device -> BOOLEAN]
      /\ \A e \in Device \ {d} : torn'[e] = torn[e]
  BY <1>1, <1>3 DEF TypeOK
<1>6. TypeOK'
  BY <1>2, <1>3, <1>4, <1>5 DEF TypeOK
<1>7. ASSUME config'[d] # None PROVE DeviceInv(d)'
  <2>1. DeviceInv(d) /\ config[d].desired \subseteq Key
    BY <1>2, <1>3, <1>7 DEF IInv, TypeOK, Configuration
  <2>2. \A k \in config[d].desired : retained'[d][k] # None
    BY <1>4, <2>1 DEF DeviceInv
  <2>3. ~torn'[d] => ~torn[d] /\ sent = {}
    BY <1>5
  <2>4. ~torn'[d] => \A k \in Key : retained'[d][k] = retained[d][k]
    BY <1>4, <2>3
  <2>5. Known \subseteq Key
    BY KnownType
  <2> QED
    BY <1>2, <2>1, <2>2, <2>3, <2>4, <2>5 DEF DeviceInv
<1> QED
  BY <1>2, <1>4, <1>5, <1>6, <1>7, OtherDevices DEF IInv, JobInv

\* queue_cleanup inside a call: nothing the invariant says of d is lost.
LEMMA QueuedInv ==
  ASSUME IInv, step = "clean", NEW d \in Device, job.device = d
  PROVE  LET q == Queued(d) IN
         /\ config[d] # None
         /\ q \in Configuration
         /\ q.signature = config[d].signature /\ q.desired = config[d].desired
         /\ Tracked(q)
         /\ Pending(config[d]) \subseteq Pending(q)
         /\ Pending(q) \cap q.desired = {}
         /\ job.layout \in ProfileLayout
              => q.signature \in q.reconciled \cup q.cleanup_signatures
         /\ ~torn[d] /\ q.signature \in q.reconciled \cup q.cleanup_signatures
              => \A k \in Known \ q.desired : retained[d][k] # None => k \in Pending(q)
<1> DEFINE c == config[d]
           q == Queued(d)
<1>1. c \in Configuration /\ c # None /\ DeviceInv(d) /\ options \in Options
  BY DEF IInv, TypeOK, JobInv
<1>2. job.layout \in Layout \cup {NoLayout}
      /\ (job.layout \in ProfileLayout => Signature(job.layout) = c.signature)
  <2>1. job \in Record
    BY DEF IInv, TypeOK
  <2>2. job.layout \in ProfileLayout => job.layout # NoLayout
    BY LayoutAssumption
  <2> QED
    BY <2>1, <2>2 DEF IInv, JobInv, Record
<1>3. q = QueueCleanup(c, job.layout)
  BY DEF Queued
<1> HIDE DEF q
<1>4. /\ q \in Configuration
      /\ q.signature = c.signature /\ q.desired = c.desired
      /\ Pending(c) \subseteq Pending(q)
      /\ Pending(q) \subseteq Pending(c) \cup (Known \ c.desired)
      /\ Tracked(q)
      /\ q.reconciled \cup q.cleanup_signatures
           \subseteq c.reconciled \cup c.cleanup_signatures \cup {Signature(job.layout)}
      /\ job.layout \in ProfileLayout
           => Signature(job.layout) \in q.reconciled \cup q.cleanup_signatures
      /\ job.layout \in ProfileLayout
           /\ Signature(job.layout) \notin c.reconciled \cup c.cleanup_signatures
           => Known \ c.desired \subseteq Pending(q)
  BY <1>1, <1>2, <1>3, QueueCleanupType DEF DeviceInv
<1>5. Pending(q) \cap q.desired = {}
  BY <1>1, <1>4 DEF DeviceInv
<1>6. job.layout \in ProfileLayout
        => q.signature \in q.reconciled \cup q.cleanup_signatures
  BY <1>2, <1>4
<1>7. ASSUME ~torn[d], q.signature \in q.reconciled \cup q.cleanup_signatures,
             NEW k \in Known \ q.desired, retained[d][k] # None
      PROVE  k \in Pending(q)
  <2>1. CASE c.signature \in c.reconciled \cup c.cleanup_signatures
    BY <1>1, <1>4, <1>7, <2>1 DEF DeviceInv
  <2>2. CASE c.signature \notin c.reconciled \cup c.cleanup_signatures
    <3>1. job.layout \in ProfileLayout
      <4>1. q # c
        BY <1>4, <1>7, <2>2
      <4> QED
        BY <1>3, <4>1 DEF QueueCleanup
    <3> QED
      BY <1>2, <1>4, <1>7, <2>2, <3>1
  <2> QED
    BY <2>1, <2>2
<1> QED
  BY <1>1, <1>4, <1>5, <1>6, <1>7 DEF q

\* A call's clean-up step for d that leaves memory c and removes some topics
\* that were pending.
LEMMA CleaningInv ==
  ASSUME IInv, step = "clean", NEW d \in Device, job.device = d,
         NEW c \in Configuration, NEW gone \in SUBSET Key,
         config' = [config EXCEPT ![d] = c],
         step' = "state", UNCHANGED <<options, job, torn>>,
         retained' \in [Device -> [Key -> Payload \cup {None}]],
         \A k \in gone : retained'[d][k] = None,
         \A k \in Key \ gone : retained'[d][k] = retained[d][k],
         \A e \in Device \ {d} : retained'[e] = retained[e],
         gone \subseteq Pending(Queued(d)),
         Pending(c) \subseteq Pending(Queued(d)),
         Pending(Queued(d)) \subseteq Pending(c) \cup gone,
         c.signature = Queued(d).signature, c.desired = Queued(d).desired,
         Tracked(c),
         c.reconciled \cup c.cleanup_signatures
           = Queued(d).reconciled \cup Queued(d).cleanup_signatures
  PROVE  IInv'
<1> DEFINE q == Queued(d)
<1>1. /\ config[d] # None
      /\ q.signature = config[d].signature /\ q.desired = config[d].desired
      /\ q.desired \subseteq Key
      /\ Pending(q) \cap q.desired = {}
      /\ job.layout \in ProfileLayout
           => q.signature \in q.reconciled \cup q.cleanup_signatures
      /\ ~torn[d] /\ q.signature \in q.reconciled \cup q.cleanup_signatures
           => \A k \in Known \ q.desired : retained[d][k] # None => k \in Pending(q)
  BY QueuedInv DEF Configuration
<1> HIDE DEF q
<1>2. c # None
  BY NoneAssumption
<1>3. /\ config'[d] = c /\ config' \in [Device -> Configuration \cup {None}]
      /\ \A e \in Device \ {d} : config'[e] = config[e]
  BY DEF IInv, TypeOK
<1>4. TypeOK'
  BY <1>3 DEF IInv, TypeOK
<1>5. JobInv'
  <2>1. job.layout # NoLayout => c.signature = Signature(job.layout)
    BY <1>1 DEF IInv, JobInv, q
  <2>2. job.layout \in ProfileLayout => c.signature \in c.reconciled \cup c.cleanup_signatures
    BY <1>1 DEF q
  <2> QED
    BY <1>2, <1>3, <2>1, <2>2 DEF JobInv, Signature
<1>6. DeviceInv(d)'
  <2>1. DeviceInv(d)
    BY <1>1 DEF IInv
  <2>2. Pending(c) \cap c.desired = {} /\ gone \cap c.desired = {}
    BY <1>1 DEF q
  <2>3. \A k \in c.desired : retained'[d][k] # None
    BY <1>1, <2>1, <2>2 DEF DeviceInv, q
  <2>4. ~c.signature.carried
    BY <1>1, <2>1 DEF DeviceInv, q
  <2>5. ASSUME ~torn[d], c.signature \in c.reconciled \cup c.cleanup_signatures,
               NEW k \in Known \ c.desired, retained'[d][k] # None
        PROVE  k \in Pending(c)
    <3>1. k \in Key /\ k \notin gone
      BY <2>5, KnownType
    <3>2. retained[d][k] # None
      BY <2>5, <3>1
    <3>3. k \in Pending(q)
      BY <1>1, <2>5, <3>2 DEF q
    <3> QED
      BY <3>1, <3>3 DEF q
  <2>6. Tracked(config'[d]) /\ Pending(config'[d]) = Pending(c)
    BY <1>3
  <2> QED
    BY <1>3, <2>2, <2>3, <2>4, <2>5, <2>6 DEF DeviceInv
<1> QED
  BY <1>3, <1>4, <1>5, <1>6, OtherDevices DEF IInv

LEMMA NothingToCleanInv == \A d \in Device : IInv /\ NothingToClean(d) => IInv'
<1> SUFFICES ASSUME NEW d \in Device, IInv, NothingToClean(d) PROVE IInv'
  OBVIOUS
<1> DEFINE q == Queued(d)
<1>1. /\ step = "clean" /\ job.device = d /\ step' = "state"
      /\ config' = [config EXCEPT ![d] = q]
      /\ UNCHANGED <<options, job, retained, torn>>
  BY DEF NothingToClean
<1>2. q \in Configuration /\ Tracked(q)
  BY <1>1, QueuedInv
<1>3. retained' \in [Device -> [Key -> Payload \cup {None}]]
  BY <1>1 DEF IInv, TypeOK
<1> HIDE DEF q
<1>4. PICK gone \in SUBSET Key : gone = {}
  OBVIOUS
<1>5. gone \subseteq Pending(q) /\ Pending(q) \subseteq Pending(q) \cup gone
      /\ (\A k \in gone : retained'[d][k] = None)
      /\ (\A k \in Key \ gone : retained'[d][k] = retained[d][k])
      /\ (\A e \in Device \ {d} : retained'[e] = retained[e])
  BY <1>1, <1>4
<1> QED
  BY <1>1, <1>2, <1>3, <1>5, CleaningInv DEF q

LEMMA CleanInv == \A d \in Device : IInv /\ Clean(d) => IInv'
<1> SUFFICES ASSUME NEW d \in Device, IInv, Clean(d) PROVE IInv'
  OBVIOUS
<1> DEFINE q    == Queued(d)
           c    == CompleteCleanup(q)
           gone == Head(q.batches).topics
<1>1. /\ step = "clean" /\ job.device = d /\ step' = "state"
      /\ q.batches # <<>>
      /\ Clear(d, gone)
      /\ config' = [config EXCEPT ![d] = c]
      /\ UNCHANGED <<options, job, torn>>
  BY DEF Clean
<1>2. q \in Configuration /\ Tracked(q)
  BY <1>1, QueuedInv
<1> HIDE DEF q
<1>3. /\ gone \subseteq Pending(q)
      /\ c \in Configuration
      /\ c.signature = q.signature /\ c.desired = q.desired
      /\ Pending(q) = Pending(c) \cup gone
      /\ Tracked(c)
      /\ c.reconciled \cup c.cleanup_signatures = q.reconciled \cup q.cleanup_signatures
  BY <1>1, <1>2, CompleteCleanupType
<1>4. gone \in SUBSET Key
  BY <1>2, <1>3, PendingType
<1> HIDE DEF c, gone
<1>5. /\ retained' \in [Device -> [Key -> Payload \cup {None}]]
      /\ \A k \in gone : retained'[d][k] = None
      /\ \A k \in Key \ gone : retained'[d][k] = retained[d][k]
      /\ \A e \in Device \ {d} : retained'[e] = retained[e]
  BY <1>1, <1>4, ClearType DEF IInv
<1> QED
  BY <1>1, <1>3, <1>4, <1>5, CleaningInv DEF q

LEMMA CleanFailsInv == \A d \in Device : IInv /\ CleanFails(d) => IInv'
<1> SUFFICES ASSUME NEW d \in Device, IInv, CleanFails(d) PROVE IInv'
  OBVIOUS
<1> DEFINE q == Queued(d)
<1>1. /\ step = "clean" /\ job.device = d /\ step' = "state"
      /\ q.batches # <<>>
      /\ config' = [config EXCEPT ![d] = q]
      /\ UNCHANGED <<options, job, torn>>
  BY DEF CleanFails
<1>2. PICK gone \in SUBSET Head(q.batches).topics : Clear(d, gone)
  BY DEF CleanFails
<1>3. q \in Configuration /\ Tracked(q)
  BY <1>1, QueuedInv
<1> HIDE DEF q
<1>4. gone \subseteq Pending(q)
  BY <1>1, <1>2, <1>3, CompleteCleanupType
<1>5. gone \in SUBSET Key /\ Pending(q) \subseteq Pending(q) \cup gone
  BY <1>3, <1>4, PendingType
<1>6. /\ retained' \in [Device -> [Key -> Payload \cup {None}]]
      /\ \A k \in gone : retained'[d][k] = None
      /\ \A k \in Key \ gone : retained'[d][k] = retained[d][k]
      /\ \A e \in Device \ {d} : retained'[e] = retained[e]
  BY <1>2, <1>5, ClearType DEF IInv
<1> QED
  BY <1>1, <1>3, <1>4, <1>5, <1>6, CleaningInv DEF q

LEMMA PublishStateInv == \A d \in Device : IInv /\ PublishState(d) => IInv'
BY DEF PublishState, IInv, TypeOK, JobInv, DeviceInv

LEMMA RestartInv == IInv /\ Restart => IInv'
BY DEF Restart, IInv, TypeOK, JobInv, DeviceInv

LEMMA NextInv == IInv /\ [Next]_vars => IInv'
<1>1. IInv /\ UNCHANGED vars => IInv'
  BY DEF vars, IInv, TypeOK, JobInv, DeviceInv, Signature
<1> QED
  BY <1>1, RestartInv, ReceiveInv, DiscoverInv, DiscoverFailsInv, NothingToCleanInv,
     CleanInv, CleanFailsInv, PublishStateInv DEF Next, Grottext

LEMMA Invariant == Spec => []IInv
BY InitInv, NextInv, PTL DEF Spec

-----------------------------------------------------------------------------
(* The theorems. *)

(* Type correctness, for any layouts, profiles and devices. *)
THEOREM TypeCorrect == Spec => []TypeOK
<1>1. IInv => TypeOK
  BY DEF IInv
<1> QED
  BY <1>1, Invariant, PTL

(* A topic is never taken for removed that is still retained: after a record
   of a profile layout with nothing left to clean, only the device's entity
   set is retained of the known topics, unless a discovery batch was torn. *)
THEOREM CleansEverything == Spec => []NothingForgotten
<1>1. ASSUME IInv, step = "state", job.layout \in ProfileLayout, ~torn[job.device],
             config[job.device].batches = <<>>,
             NEW k \in Known \ config[job.device].desired
      PROVE  retained[job.device][k] = None
  <2>1. job.device \in Device
    BY <1>1 DEF IInv, TypeOK, Record, JobInv
  <2>2. DeviceInv(job.device) /\ config[job.device] # None
    BY <1>1, <2>1 DEF IInv, JobInv
  <2>3. Pending(config[job.device]) = {}
    BY <1>1, <2>2 DEF Pending, ToSet
  <2>4. config[job.device].signature
          \in config[job.device].reconciled \cup config[job.device].cleanup_signatures
    BY <1>1 DEF IInv, JobInv
  <2> QED
    BY <1>1, <2>2, <2>3, <2>4 DEF DeviceInv
<1>2. IInv => NothingForgotten
  BY <1>1 DEF NothingForgotten
<1> QED
  BY <1>2, Invariant, PTL

(* The entity set and topics of the abstract specification, as IInv sees them. *)
LEMMA StepImplements == IInv /\ IInv' /\ [Next]_vars => [Contract!Next]_<<
  [d \in Device |-> IF config[d] = None THEN {} ELSE config[d].desired],
  [d \in Device |-> {k \in Key : retained[d][k] # None}]>>
<1> DEFINE wanted == [d \in Device |-> IF config[d] = None THEN {} ELSE config[d].desired]
           kept   == [d \in Device |-> {k \in Key : retained[d][k] # None}]
<1> SUFFICES ASSUME IInv, IInv', [Next]_vars PROVE [Contract!Next]_<<wanted, kept>>
  OBVIOUS
<1>1. wanted \in [Device -> SUBSET Key] /\ kept \in [Device -> SUBSET Key]
  BY DEF IInv, TypeOK, Configuration
<1>2. wanted' \in [Device -> SUBSET Key] /\ kept' \in [Device -> SUBSET Key]
  BY DEF IInv, TypeOK, Configuration
<1>3. CASE UNCHANGED <<config, retained>>
  BY <1>3
<1>4. CASE Restart
  <2>1. Contract!Forget
    BY <1>4 DEF Restart, Contract!Forget
  <2> QED
    BY <1>2, <2>1 DEF Contract!Next
<1>5. ASSUME NEW d \in Device, Discover(d) \/ DiscoverFails(d) \/ NothingToClean(d)
                               \/ Clean(d) \/ CleanFails(d)
      PROVE  Contract!Next
  <2>1. TypeOK /\ TypeOK'
    BY DEF IInv
  <2>2. \A e \in Device \ {d} : config'[e] = config[e] /\ retained'[e] = retained[e]
    BY <1>5, <2>1 DEF Discover, DiscoverFails, NothingToClean, Clean, CleanFails,
                      Publish, Clear, TypeOK
  <2>3. Contract!Untouched(Device \ {d})
    BY <2>2 DEF Contract!Untouched
  <2>4. CASE Discover(d)
    <3>1. /\ config' = [config EXCEPT ![d] = SetConfigured(@, job.layout, Announced)]
          /\ Publish(d, Announced) /\ step = "discover"
      BY <2>4 DEF Discover
    <3>2. /\ job.layout \in Layout /\ Announced \subseteq Key
          /\ \A k \in Announced : retained'[d][k] # None
          /\ \A k \in Key \ Announced : retained'[d][k] = retained[d][k]
      BY <2>1, <3>1, PublishType
    <3>3. config'[d] = SetConfigured(config[d], job.layout, Announced)
      BY <2>1, <3>1 DEF TypeOK
    <3>4. config'[d].desired = Announced
      BY <3>3 DEF SetConfigured
    <3>5. kept[d] \subseteq kept'[d] /\ wanted'[d] \subseteq kept'[d]
      BY <3>2, <3>4
    <3> QED
      BY <1>2, <2>3, <3>5 DEF Contract!Next, Contract!Adopt
  <2>5. CASE DiscoverFails(d)
    <3>1. PICK sent \in SUBSET Announced : Publish(d, sent)
      BY <2>5 DEF DiscoverFails
    <3>2. step = "discover" /\ config' = config
      BY <2>5 DEF DiscoverFails
    <3>3. /\ \A k \in sent : retained'[d][k] # None
          /\ \A k \in Key \ sent : retained'[d][k] = retained[d][k]
      BY <2>1, <3>1, <3>2, PublishType
    <3>4. wanted'[d] = wanted[d] /\ kept[d] \subseteq kept'[d]
      BY <3>2, <3>3
    <3> QED
      BY <1>2, <2>3, <3>4 DEF Contract!Next, Contract!Announce
  <2>6. CASE NothingToClean(d) \/ Clean(d) \/ CleanFails(d)
    <3>1. step = "clean" /\ job.device = d
      BY <2>6 DEF NothingToClean, Clean, CleanFails
    <3>2. /\ config[d] # None /\ Queued(d) \in Configuration /\ Tracked(Queued(d))
          /\ Queued(d).desired = config[d].desired
          /\ Pending(Queued(d)) \cap config[d].desired = {}
      BY <3>1, QueuedInv
    <3>3. config'[d] # None /\ config'[d].desired = config[d].desired
      <4>1. CASE NothingToClean(d) \/ CleanFails(d)
        <5>1. config'[d] = Queued(d)
          BY <2>1, <4>1 DEF NothingToClean, CleanFails, TypeOK
        <5> QED
          BY <3>2, <5>1, NoneAssumption
      <4>2. CASE Clean(d)
        <5>1. config'[d] = CompleteCleanup(Queued(d)) /\ Queued(d).batches # <<>>
          BY <2>1, <4>2 DEF Clean, TypeOK
        <5>2. config'[d] \in Configuration /\ config'[d].desired = Queued(d).desired
          BY <3>2, <5>1, CompleteCleanupType
        <5> QED
          BY <3>2, <5>2, NoneAssumption
      <4> QED
        BY <2>6, <4>1, <4>2
    <3>4. \E gone \in SUBSET Pending(Queued(d)) :
            \A k \in Key : retained'[d][k] = IF k \in gone THEN None ELSE retained[d][k]
      <4>1. CASE NothingToClean(d)
        <5>1. retained' = retained
          BY <4>1 DEF NothingToClean
        <5>2. WITNESS {} \in SUBSET Pending(Queued(d))
        <5> QED
          BY <5>1
      <4>2. CASE Clean(d) \/ CleanFails(d)
        <5>1. PICK gone \in SUBSET Head(Queued(d).batches).topics : Clear(d, gone)
          BY <4>2 DEF Clean, CleanFails
        <5>2. Queued(d).batches # <<>>
          BY <4>2 DEF Clean, CleanFails
        <5>3. gone \subseteq Pending(Queued(d))
          BY <3>2, <5>1, <5>2, CompleteCleanupType
        <5>4. gone \subseteq Key
          BY <3>2, <5>3, PendingType
        <5>5. \A k \in Key : retained'[d][k] = IF k \in gone THEN None ELSE retained[d][k]
          BY <2>1, <5>1, <5>4, ClearType
        <5> QED
          BY <5>3, <5>5
      <4> QED
        BY <2>6, <4>1, <4>2
    <3>5. /\ wanted'[d] = wanted[d] /\ kept'[d] \subseteq kept[d]
          /\ wanted[d] \cap kept[d] \subseteq kept'[d]
      BY <3>2, <3>3, <3>4
    <3> QED
      BY <1>2, <2>3, <3>5 DEF Contract!Next, Contract!Remove
  <2> QED
    BY <1>5, <2>4, <2>5, <2>6
<1>6. CASE \E d \in Device : Receive(d) \/ PublishState(d)
  BY <1>3, <1>6 DEF Receive, PublishState
<1> QED
  BY <1>3, <1>4, <1>5, <1>6 DEF Next, Grottext, vars

(* Every wanted topic is retained before the entity set is taken as current,
   and no clean-up ever removes one: the extension implements its contract. *)
THEOREM Implements == Spec => ImplementsContract
<1>1. Init => Contract!Init
  <2> SUFFICES ASSUME Init PROVE Contract!Init
    OBVIOUS
  <2>1. \A d \in Device : config[d] = None
    BY DEF Init
  <2> QED
    BY <2>1 DEF Contract!Init
<1>2. Spec => Init /\ [][Next]_vars
  BY DEF Spec
<1> QED
  BY <1>1, <1>2, Invariant, StepImplements, PTL DEF ImplementsContract, Contract!Spec

(* The entity set a device is configured with is retained, whatever fails. *)
THEOREM WantedAreRetained == Spec => []Contract!WantedKept
<1>1. IInv => Contract!WantedKept
  BY DEF IInv, TypeOK, Configuration, DeviceInv, Contract!WantedKept
<1> QED
  BY <1>1, Invariant, PTL

(* What is still to be removed is carried over until it is removed or wanted
   again, through changes of layout and failures. *)
THEOREM CarriesPending == Spec => PendingCarried
<1> DEFINE Step == \A d \in Device : config'[d] # None =>
                     \A k \in Pending(config[d]) :
                       \/ k \in Pending(config'[d])
                       \/ k \in config'[d].desired
                       \/ retained'[d][k] = None
<1>1. ASSUME IInv, [Next]_vars PROVE Step
  <2>1. TypeOK
    BY <1>1 DEF IInv
  <2>2. CASE UNCHANGED config
    BY <2>2
  <2>3. CASE Restart
    BY <2>3 DEF Restart
  <2>4. ASSUME NEW e \in Device, Discover(e) \/ NothingToClean(e) \/ Clean(e) \/ CleanFails(e)
        PROVE  Step
    <3>1. \A d \in Device \ {e} : config'[d] = config[d]
      BY <2>1, <2>4 DEF Discover, NothingToClean, Clean, CleanFails, TypeOK
    <3>2. ASSUME config'[e] # None, NEW k \in Pending(config[e])
          PROVE  \/ k \in Pending(config'[e])
                 \/ k \in config'[e].desired
                 \/ retained'[e][k] = None
      <4>1. CASE Discover(e)
        <5>1. /\ config'[e] = SetConfigured(config[e], job.layout, Announced)
              /\ Publish(e, Announced) /\ step = "discover"
          BY <2>1, <4>1 DEF Discover, TypeOK
        <5>2. /\ job.layout \in Layout /\ Announced \subseteq Key
              /\ config[e] \in Configuration \cup {None} /\ options \in Options
          BY <2>1, <5>1, PublishType DEF TypeOK
        <5>3. /\ config'[e].desired = Announced
              /\ Pending(config'[e]) = Pending(config[e]) \ Announced
          BY <5>1, <5>2, SetConfiguredType
        <5> QED
          BY <3>2, <5>3
      <4>2. CASE NothingToClean(e) \/ CleanFails(e)
        <5>1. config'[e] = Queued(e) /\ step = "clean" /\ job.device = e
          BY <2>1, <4>2 DEF NothingToClean, CleanFails, TypeOK
        <5> QED
          BY <1>1, <3>2, <5>1, QueuedInv
      <4>3. CASE Clean(e)
        <5>1. /\ config'[e] = CompleteCleanup(Queued(e)) /\ Queued(e).batches # <<>>
              /\ step = "clean" /\ job.device = e
              /\ Clear(e, Head(Queued(e).batches).topics)
          BY <2>1, <4>3 DEF Clean, TypeOK
        <5>2. Queued(e) \in Configuration /\ Tracked(Queued(e)) /\ k \in Pending(Queued(e))
          BY <1>1, <3>2, <5>1, QueuedInv
        <5>3. /\ Pending(Queued(e)) = Pending(config'[e]) \cup Head(Queued(e).batches).topics
              /\ Head(Queued(e).batches).topics \subseteq Key
          BY <5>1, <5>2, CompleteCleanupType, PendingType
        <5> QED
          BY <2>1, <5>1, <5>2, <5>3, ClearType
      <4> QED
        BY <2>4, <4>1, <4>2, <4>3
    <3> QED
      BY <3>1, <3>2
  <2> QED
    BY <1>1, <2>2, <2>3, <2>4
       DEF Next, Grottext, vars, Receive, DiscoverFails, PublishState
<1>2. IInv /\ [Next]_vars => Step
  BY <1>1
<1> HIDE DEF Step
<1>3. Spec => [][Step]_vars
  BY <1>2, Invariant, PTL DEF Spec
<1> QED
  BY <1>3 DEF Step, PendingCarried

-----------------------------------------------------------------------------
(* Payloads. *)

\* Records of one signature ask for the same payloads.
LEMMA SameSignature ==
  ASSUME NEW l \in Layout, NEW m \in Layout, NEW values \in SUBSET Key,
         options \in Options, Signature(l) = Signature(m)
  PROVE  \/ l \in OtherLayout /\ m = l
         \/ l \in ProfileLayout /\ m \in ProfileLayout
            /\ \A v \in SUBSET Key : Components(l, v) = Components(m, values)
<1>1. CASE l \in OtherLayout \/ m \in OtherLayout
  <2>1. m = l
    BY <1>1, LayoutAssumption DEF Signature, Layout
  <2> QED
    BY <1>1, <2>1
<1>2. CASE l \in ProfileLayout /\ m \in ProfileLayout
  <2>1. l \notin OtherLayout /\ m \notin OtherLayout
    BY <1>2, LayoutAssumption
  <2>2. options.profile \in {"standard", "all", "invalid"}
    BY LayoutAssumption
  <2>3. CASE options.profile = "standard"
    BY <1>2, <2>1, <2>3 DEF Components
  <2>4. CASE options.profile # "standard"
    <3>1. l = m
      BY <1>2, <2>2, <2>4, LayoutAssumption DEF Signature
    <3> QED
      BY <1>2, <2>1, <3>1 DEF Components
  <2> QED
    BY <2>3, <2>4
<1> QED
  BY <1>1, <1>2 DEF Layout

LEMMA OtherLayoutValues ==
  ASSUME NEW l \in OtherLayout, NEW values \in SUBSET Key
  PROVE  Identities(l, values) = values
<1>1. Components(l, values) = {[identity |-> k, source |-> k, entry |-> l] : k \in values}
  BY DEF Components
<1>2. ASSUME NEW k \in Identities(l, values) PROVE k \in values
  BY <1>1, <1>2 DEF Identities
<1>3. ASSUME NEW k \in values PROVE k \in Identities(l, values)
  <2>1. [identity |-> k, source |-> k, entry |-> l] \in Components(l, values)
    BY <1>1, <1>3
  <2> QED
    BY <2>1 DEF Identities
<1> QED
  BY <1>2, <1>3

PayloadInv(d) ==
  ~torn[d] => \E l \in Layout, v \in SUBSET Key :
    /\ config[d].signature = Signature(l)
    /\ config[d].desired = Identities(l, v)
    /\ \A k \in config[d].desired : retained[d][k] = PayloadOf(l, v, k)

PInv == \A d \in Device : config[d] # None => PayloadInv(d)

\* The payloads of d's entity set stay as they are.
LEMMA PayloadsKept ==
  ASSUME NEW d \in Device, config[d] # None => PayloadInv(d),
         UNCHANGED options, config[d] # None, torn'[d] => torn[d], torn[d] => torn'[d],
         config'[d].signature = config[d].signature,
         config'[d].desired = config[d].desired,
         \A k \in config[d].desired : torn[d] \/ retained'[d][k] = retained[d][k]
  PROVE  PayloadInv(d)'
<1> SUFFICES ASSUME ~torn'[d] PROVE PayloadInv(d)'
  BY DEF PayloadInv
<1>1. PICK l \in Layout, v \in SUBSET Key :
        /\ config[d].signature = Signature(l)
        /\ config[d].desired = Identities(l, v)
        /\ \A k \in config[d].desired : retained[d][k] = PayloadOf(l, v, k)
  BY DEF PayloadInv
<1>2. /\ Signature(l)' = Signature(l) /\ Identities(l, v)' = Identities(l, v)
      /\ \A k : PayloadOf(l, v, k)' = PayloadOf(l, v, k)
  BY DEF Signature, Identities, Components, ValueKeys, PayloadOf
<1> QED
  BY <1>1, <1>2 DEF PayloadInv

LEMMA PayloadNext == IInv /\ IInv' /\ PInv /\ [Next]_vars => PInv'
<1> SUFFICES ASSUME IInv, IInv', PInv, [Next]_vars, NEW d \in Device, config'[d] # None
             PROVE  PayloadInv(d)'
  BY DEF PInv
<1>1. TypeOK /\ TypeOK' /\ (config[d] # None => PayloadInv(d))
  BY DEF IInv, PInv
<1>2. CASE UNCHANGED <<options, config, retained, torn>>
  BY <1>1, <1>2, PayloadsKept
<1>3. CASE Restart
  BY <1>3 DEF Restart
<1>4. ASSUME NEW e \in Device, e # d, Grottext(e) PROVE PayloadInv(d)'
  <2>1. UNCHANGED options /\ config'[d] = config[d] /\ torn'[d] = torn[d]
        /\ retained'[d] = retained[d]
    BY <1>1, <1>4 DEF Grottext, Discover, DiscoverFails, NothingToClean, Clean, CleanFails,
                      PublishState, Publish, Clear, TypeOK
  <2> QED
    BY <1>1, <2>1, PayloadsKept
<1>5. CASE Discover(d)
  <2>1. /\ config'[d] = SetConfigured(config[d], job.layout, Announced)
        /\ Publish(d, Announced) /\ step = "discover" /\ UNCHANGED options
    BY <1>1, <1>5 DEF Discover, TypeOK
  <2>2. job.layout \in Layout /\ Announced \subseteq Key /\ job.values \in SUBSET Key
    BY <1>1, <2>1, PublishType DEF Record
  <2>3. config'[d].signature = Signature(job.layout) /\ config'[d].desired = Announced
    BY <2>1 DEF SetConfigured
  <2>4. \A k \in Announced : retained'[d][k] = PayloadOf(job.layout, job.values, k)
    BY <1>1, <2>1, <2>2 DEF Publish, TypeOK
  <2>5. \A l, v : /\ Signature(l)' = Signature(l)' /\ Signature(l) = Signature(l)'
                  /\ Identities(l, v) = Identities(l, v)'
                  /\ \A k : PayloadOf(l, v, k) = PayloadOf(l, v, k)'
    BY <2>1 DEF Signature, Identities, Components, ValueKeys, PayloadOf
  <2> DEFINE l == job.layout
             v == job.values
  <2>6. /\ config'[d].signature = Signature(l)'
        /\ config'[d].desired = Identities(l, v)'
        /\ \A k \in config'[d].desired : retained'[d][k] = PayloadOf(l, v, k)'
    BY <2>3, <2>4, <2>5, <1>5 DEF Announced, Discover
  <2> QED
    BY <2>2, <2>6, <1>5 DEF PayloadInv, Discover
<1>6. CASE DiscoverFails(d)
  <2>1. PICK sent \in SUBSET Announced :
          /\ Publish(d, sent)
          /\ torn' = [torn EXCEPT ![d] = @ \/ sent # {}]
    BY <1>6 DEF DiscoverFails
  <2>2. step = "discover" /\ UNCHANGED <<options, config>>
    BY <1>6 DEF DiscoverFails
  <2>3. torn'[d] = (torn[d] \/ sent # {})
    BY <1>1, <2>1 DEF TypeOK
  <2>4. CASE sent = {}
    <3>1. config[d].desired \subseteq Key
      BY <1>1, <2>2 DEF TypeOK, Configuration
    <3>2. \A k \in Key : retained'[d][k] = retained[d][k]
      BY <1>1, <2>1, <2>2, <2>4, PublishType
    <3> QED
      BY <1>1, <2>2, <2>3, <2>4, <3>1, <3>2, PayloadsKept
  <2>5. CASE sent # {}
    BY <2>3, <2>5 DEF PayloadInv
  <2> QED
    BY <2>4, <2>5
<1>7. CASE NothingToClean(d) \/ Clean(d) \/ CleanFails(d)
  <2>1. step = "clean" /\ job.device = d /\ UNCHANGED <<options, torn>>
    BY <1>7 DEF NothingToClean, Clean, CleanFails
  <2>2. /\ config[d] # None /\ Queued(d) \in Configuration /\ Tracked(Queued(d))
        /\ Queued(d).signature = config[d].signature
        /\ Queued(d).desired = config[d].desired
    BY <2>1, QueuedInv
  <2>3. config'[d].signature = config[d].signature /\ config'[d].desired = config[d].desired
    <3>1. CASE NothingToClean(d) \/ CleanFails(d)
      BY <1>1, <2>2, <3>1 DEF NothingToClean, CleanFails, TypeOK
    <3>2. CASE Clean(d)
      <4>1. config'[d] = CompleteCleanup(Queued(d)) /\ Queued(d).batches # <<>>
        BY <1>1, <3>2 DEF Clean, TypeOK
      <4> QED
        BY <2>2, <4>1, CompleteCleanupType
    <3> QED
      BY <1>7, <3>1, <3>2
  <2>4. \A k \in Key : retained'[d][k] \in {None, retained[d][k]}
    BY <1>1, <1>7 DEF NothingToClean, Clean, CleanFails, Clear, TypeOK
  <2>5. \A k \in config[d].desired : k \in Key /\ retained'[d][k] # None
    BY <1>1, <2>2, <2>3 DEF IInv, DeviceInv, TypeOK, Configuration
  <2> QED
    BY <1>1, <2>1, <2>2, <2>3, <2>4, <2>5, PayloadsKept
<1> QED
  BY <1>2, <1>3, <1>4, <1>5, <1>6, <1>7
     DEF Next, Grottext, vars, Receive, PublishState

(* After every record, the device's topics carry the payloads this record
   asks for, unless a discovery batch was torn. *)
THEOREM PayloadsAreCurrent == Spec => []RetainedCurrent
<1>1. Init => PInv
  BY DEF Init, PInv
<1>2. ASSUME IInv, PInv, step = "state", job.layout \in Layout, ~torn[job.device]
      PROVE  LET values == IF job.layout \in OtherLayout THEN config[job.device].desired
                           ELSE job.values
             IN  \A k \in config[job.device].desired :
                   /\ k \in Identities(job.layout, values)
                   /\ retained[job.device][k] = PayloadOf(job.layout, values, k)
  <2>1. job \in Record /\ options \in Options /\ job.layout # NoLayout
    BY <1>2, LayoutAssumption DEF IInv, TypeOK, Layout
  <2>2. config[job.device] # None /\ config[job.device].signature = Signature(job.layout)
    BY <1>2, <2>1 DEF IInv, JobInv
  <2>3. PICK l \in Layout, v \in SUBSET Key :
          /\ config[job.device].signature = Signature(l)
          /\ config[job.device].desired = Identities(l, v)
          /\ \A k \in config[job.device].desired : retained[job.device][k] = PayloadOf(l, v, k)
    BY <1>2, <2>1, <2>2 DEF PInv, PayloadInv, Record
  <2>4. \/ job.layout \in OtherLayout /\ l = job.layout
        \/ job.layout \in ProfileLayout
           /\ Components(job.layout, job.values) = Components(l, v)
    <3>1. job.values \in SUBSET Key /\ Signature(job.layout) = Signature(l)
      BY <2>1, <2>2, <2>3 DEF Record
    <3>2. \/ job.layout \in OtherLayout /\ l = job.layout
          \/ job.layout \in ProfileLayout
             /\ \A w \in SUBSET Key : Components(job.layout, w) = Components(l, v)
      BY <1>2, <2>1, <3>1, SameSignature
    <3> QED
      BY <3>1, <3>2
  <2>5. CASE job.layout \in OtherLayout /\ l = job.layout
    <3>1. config[job.device].desired = v
      BY <2>3, <2>5, OtherLayoutValues
    <3> QED
      BY <2>3, <2>5, <3>1
  <2>6. CASE job.layout \in ProfileLayout
             /\ Components(job.layout, job.values) = Components(l, v)
    <3>1. job.layout \notin OtherLayout
      BY <2>6, LayoutAssumption
    <3> QED
      BY <2>3, <2>6, <3>1 DEF Identities, PayloadOf
  <2> QED
    BY <2>4, <2>5, <2>6
<1>3. IInv /\ PInv => RetainedCurrent
  BY <1>2 DEF RetainedCurrent
<1> QED
  BY <1>1, <1>3, PayloadNext, Invariant, PTL DEF Spec
=============================================================================
