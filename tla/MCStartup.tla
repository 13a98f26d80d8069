------------------------------ MODULE MCStartup ------------------------------
(***************************************************************************)
(* Starts of Grott in four families, each varying what one part of the     *)
(* start depends on over the words that part tells apart.                  *)
(***************************************************************************)
EXTENDS Startup, TLC

One(s, w) == IF w = Absent THEN <<>> ELSE s :> w
Num(s, n) == IF n = Unset THEN <<>> ELSE s :> n

File(state, set, ids) ==
  [state |-> state, set |-> set, systems |-> ids,
   inverters |-> [x \in DOMAIN ids \ {Plain} |-> "inverter of the file"]]

Arguments(c, m, i, flags) ==
  [usage |-> TRUE, c |-> c, m |-> m, i |-> i, flags |-> flags]

NoArguments == Arguments("grott.ini", Absent, Absent, {})

Source(args, ini, env, ids, health, busy) ==
  [args |-> args,
   files |-> [f \in {"grott.ini", "other.ini"} |->
                IF f = "grott.ini" THEN ini ELSE File("ok", Num("grottport", 5281), <<>>)],
   env |-> [set |-> env, systems |-> ids, health |-> health,
            inverters |-> [x \in DOMAIN ids \ {Plain} |-> "inverter of the environment"]],
   json |-> <<>>, recwl |-> FALSE, busy |-> busy]

(* The port and the mode. *)
PortSources ==
  {Source(Arguments(c, m, Absent, {}), File(state, Num("grottport", p) @@ One("mode", im), <<>>),
          Num("grottport", q) @@ One("mode", em), <<>>, h, busy) :
     c \in {"grott.ini", "other.ini"}, m \in {Absent, "proxy", "other"},
     state \in {"ok", "missing", "unreadable", "broken"},
     p \in {Unset, 0, 5280, NotANumber}, q \in {Unset, 5281, 65536},
     im \in {Absent, "odd"}, em \in {Absent, "sniff", "odd"},
     h \in {Unset, 5279}, busy \in {{}, {5281}}}

(* InfluxDB. *)
InfluxSources ==
  {Source(NoArguments,
          File("ok", One("ifip", a) @@ One("influx2", v) @@ One("influx", on), <<>>),
          One("ifip", ea) @@ One("influx2", ev), <<>>, Unset, {}) :
     a \in {Absent, "localhost", "url", "odd", "percent"}, v \in {Absent, "yes", "no", "on"},
     ea \in {Absent, "host", "url", "odd"}, ev \in {Absent, "y", "no", "odd"},
     on \in {Absent, "yes"}}

(* Switches, numbers and texts. *)
WordSources ==
  {Source(Arguments("grott.ini", Absent, i, flags),
          File("ok", One("blockcmd", b) @@ One("verbose", v), <<>>),
          One("blockcmd", eb) @@ One("verbose", ev), <<>>, Unset, {}) :
     i \in {Absent, "none", "XGD6CMM2VY"}, flags \in SUBSET {"verbose", "blockcmd"},
     b \in {Absent, "no", "on", "percent"}, v \in {Absent, "off", "y"},
     eb \in {Absent, "y", "odd"}, ev \in {Absent, "no"}}
  \cup
  {Source(NoArguments,
          File("ok", Num("minrecl", n) @@ Num("pvinverters", k) @@
                 One("mqttinverterintopic", t), [x \in {1, 2, Plain} |-> "system of the file"]),
          Num("minrecl", en) @@ Num("pvinverters", ek) @@
                 One("mqttinverterintopic", et),
          [x \in xs |-> "system of the environment"], Unset, {}) :
     n \in {Unset, 300, NotANumber}, k \in {Unset, 2}, t \in {Absent, "on"},
     en \in {Unset, 50, 300}, ek \in {Unset, 2}, et \in {Absent, "no"},
     xs \in SUBSET {Plain, 0, 2}}
  \cup
  {Source(Arguments("grott.ini", Absent, Absent, flags),
          File("ok", One("trace", t) @@ One("pvurl", t) @@ One("pvoutput", p), <<>>),
          One("trace", et) @@ One("pvurl", et) @@ One("pvoutput", ep), <<>>, Unset, {}) :
     flags \in SUBSET {"trace", "pvoutput"}, t \in {Absent, "on"}, et \in {Absent, "no"},
     p \in {Absent, "no"}, ep \in {Absent, "yes"}}

(* Layout files, the list of records, the sniffer and bad arguments. *)
FileSources ==
  {[Source(Arguments("grott.ini", "sniff", Absent, {}),
           File("ok", One("growattip", g), <<>>), <<>>, <<>>, Unset, {})
      EXCEPT !.json = j, !.recwl = r, !.args.usage = u] :
     g \in {Absent, "address"},
     j \in UNION {[S -> {{}, {"T05NNNN"}, {"T05NNNN", "T06NNNNXMOD"}}] :
                    S \in SUBSET {"a.json", "b.json"}},
     r \in BOOLEAN, u \in BOOLEAN}

MCSources == PortSources \cup InfluxSources \cup WordSources \cup FileSources

MCPackets ==
  [proto : {"tcp", "other"}, port : {5279, 80}, target : {"address"},
   size : {60, 400}, fate : {"cut", "raises", "decoded"}]
=============================================================================
