------------------------------- MODULE Startup -------------------------------
(***************************************************************************)
(* grott.py: the settings are gathered (grottconf.Conf), Grott runs as a   *)
(* proxy or as a sniffer, and the health check of the container            *)
(* (container_healthcheck.py) looks for its port.                          *)
(*                                                                         *)
(* Words stand for the texts a source may hold for a setting:              *)
(*   "yes" "no"   understood by configparser.getboolean and by str2bool    *)
(*   "on" "off"   by getboolean only          "y" "n"   by str2bool only   *)
(*   "host" "localhost" "default"  names      "address" a numeric address  *)
(*   "url"                         an http(s) URL                          *)
(*   "map"        a mapping        "percent"  a text with a single %       *)
(* and "odd" is none of these.  "True", "False" and "()" are the values    *)
(* Python has for a switch.  A number is a number, or NotANumber.          *)
(***************************************************************************)
EXTENDS Integers, FiniteSets

CONSTANTS
  Sources,    \* what the settings may be gathered from, see Init
  Packets,    \* what the sniffer may receive
  BuiltIn,    \* the names of the layouts in grottconf
  Ephemeral   \* the port the system picks for port 0

NotANumber == -1
Plain      == -2     \* the system id without a number
Unset      == -3     \* a port nothing is said about
Absent     == "absent"

PortNumbers == 0..65535           \* what Grott accepts
HealthPorts == PortNumbers \ {0}  \* what the health check accepts

ASSUME StartupAssumption == Ephemeral \in 1..65535
-----------------------------------------------------------------------------
(* The settings, by how they are read. *)
IniBooleans == {"verbose", "decrypt", "compat", "includeall", "layout_strict",
                "layout_auto_family", "diagnostic_logging", "mqttretain", "mqttauth",
                "mqttinverterintopic"}
IniWords    == {"blockcmd", "noipf", "sendbuf", "nomqtt", "mqttmtopic", "pvoutput",
                "pvtemp", "pvdisv1", "influx", "influx2", "extension"}
Switches    == IniBooleans \cup IniWords \cup {"trace"}
Ports       == {"grottport", "growattport", "mqttport", "ifport"}
Numbers     == {"minrecl", "valueoffset", "layout_min_score", "pvinverters", "pvuplimit"}
Hosts       == {"grottip", "growattip", "mqttip"}
Mappings    == {"invtypemap", "extvar"}
Texts       == {"invtype", "inverterid", "tmzone", "mqtttopic", "mqttmtopicname",
                "mqttuser", "mqttpsw", "pvurl", "pvapikey", "ifdbname", "ifuser",
                "ifpsw", "iftoken", "iforg", "ifbucket", "extname"}
Settings    == Switches \cup Ports \cup Numbers \cup Hosts \cup Mappings \cup Texts
                 \cup {"mode", "gtime", "ifip"}

(* Neither procconf nor procenv asks for these two. *)
NeverRead == {"trace", "pvurl"}

Defaults ==
  [s \in Settings |->
     CASE s \in {"decrypt", "layout_auto_family", "sendbuf"} -> "True"
       [] s \in Switches \ {"decrypt", "layout_auto_family", "sendbuf"} -> "False"
       [] s \in {"grottport", "growattport"} -> 5279
       [] s = "mqttport"         -> 1883
       [] s = "ifport"           -> 8086
       [] s = "minrecl"          -> 100
       [] s = "valueoffset"      -> 6
       [] s = "layout_min_score" -> 20
       [] s = "pvinverters"      -> 1
       [] s = "pvuplimit"        -> 5
       [] s = "growattip"        -> "host"
       [] s \in {"mqttip", "ifip"} -> "localhost"
       [] s \in Mappings         -> "map"
       [] s = "mode"             -> "proxy"
       [] s = "gtime"            -> "auto"
       [] s \in Texts \cup {"grottip"} -> "default"]

(* str2bool: what it does not understand becomes an empty tuple. *)
Str2Bool(v) ==
  CASE v \in {"True", "yes", "y"} -> "True"
    [] v \in {"False", "no", "n"} -> "False"
    [] OTHER                      -> "()"

HostWords == {"host", "localhost", "default", "address"}

(* parse_influx_address: a URL needs InfluxDB v2. *)
AddressAccepted(address, influx2) ==
  \/ address \in HostWords
  \/ address = "url" /\ Str2Bool(influx2) = "True"

ReadByBoth(s, w) ==
  CASE s \in Ports    -> w \in PortNumbers
    [] s \in Numbers  -> w # NotANumber
    [] s \in Hosts    -> w \in HostWords
    [] s \in Mappings -> w = "map"
    [] OTHER          -> TRUE

(* A word of the configuration file; its % is an interpolation. *)
IniAccepts(s, w) ==
  /\ ReadByBoth(s, w)
  /\ s \in IniBooleans => w \in {"yes", "no", "on", "off"}
  /\ s \notin Ports \cup Numbers => w # "percent"

IniValue(s, w) ==
  IF s \in IniBooleans THEN (IF w \in {"yes", "on"} THEN "True" ELSE "False") ELSE w

EnvAccepts(s, w) ==
  ReadByBoth(s, w) /\ (s \in {"minrecl", "valueoffset"} => w \in 0..255)

(* Two variables are read only if their word is one of a list. *)
EnvHonours(s, w) ==
  /\ s = "mode"  => w \in {"sniff", "proxy"}
  /\ s = "gtime" => w \in {"auto", "server"}
-----------------------------------------------------------------------------
VARIABLES
  source,     \* the arguments, files and environment of this start
  phase,      \* the step of Conf.__init__ or grott.py that is next
  cfg,        \* the attributes of conf
  systems,    \* conf.pvsystemid
  inverters,  \* conf.pvinverterid
  layouts,    \* conf.recorddict: layout name -> where it is from
  recwl,      \* conf.recwl: where it is from
  port,       \* the port the proxy listens on, or Absent
  why         \* what ended the process, or Absent

vars == <<source, phase, cfg, systems, inverters, layouts, recwl, port, why>>

(* A source is a record of
     args   [usage, c, m, i, flags]: whether the arguments can be parsed, the
            values of -c, -m and -i, and the flags that are given
     files  file name -> [state, set, systems, inverters]; state is "ok",
            "missing", "unreadable" (no permission) or "broken" (no INI file)
     env    [set, systems, inverters, health]: the variables of the settings, of
            the system and inverter ids, and GROTT_HEALTH_PORT, or Unset
     json   layout file -> the layouts it defines, {} if it is no JSON
     recwl  whether there is a file recwl.txt
     busy   the ports other processes of the container listen on. *)
Init ==
  /\ source \in Sources
  /\ phase = "args"
  /\ cfg = Defaults
  /\ systems = [x \in {1} |-> "systemid1"]
  /\ inverters = [x \in {1} |-> "inverter1"]
  /\ layouts = [l \in {} |-> "built in"]
  /\ recwl = "built in"
  /\ port = Absent
  /\ why = Absent

(* What argparse, and the file system, leave no other value for. *)
ASSUME SourceAssumption ==
  \A src \in Sources :
    /\ src.args.flags \subseteq {"verbose", "trace", "nomqtt", "pvoutput", "blockcmd",
                                 "noipf", "diagnostic_logging"}
    /\ src.args.c \in DOMAIN src.files
    /\ DOMAIN src.env.set \subseteq Settings
    /\ \A f \in DOMAIN src.files : /\ DOMAIN src.files[f].set \subseteq Settings
                                  /\ Plain \notin DOMAIN src.files[f].inverters
    /\ Plain \notin DOMAIN src.env.inverters
    /\ src.files["grott.ini"].state \in {"ok", "missing", "unreadable", "broken"}

Args == source.args
Env  == source.env
Ini  == LET file == source.files[Args.c] IN
        IF file.state = "ok" THEN file
        ELSE [file EXCEPT !.set = <<>>, !.systems = <<>>, !.inverters = <<>>]

Gathered == <<cfg, systems, inverters>>

From(here, there) ==
  phase = here /\ phase' = there /\ UNCHANGED <<source, why>>

(* An exception, or SystemExit, ends the process. *)
Exit(here, reason) ==
  /\ phase = here
  /\ phase' = "down" /\ why' = reason /\ port' = Absent
  /\ UNCHANGED <<source, Gathered, layouts, recwl>>

Loaded == <<layouts, recwl, port>>
-----------------------------------------------------------------------------
(* parserinit: two of the arguments are stored at once. *)
ParserInit ==
  /\ Args.usage
  /\ From("args", "ini")
  /\ cfg' = [cfg EXCEPT !.verbose = IF "verbose" \in Args.flags THEN "True" ELSE "False",
                        !.trace   = IF "trace" \in Args.flags THEN "True" ELSE "False"]
  /\ UNCHANGED <<systems, inverters, Loaded>>

UsageError == ~Args.usage /\ Exit("args", "usage")

UpTo(count) == 0..count

(* The numbered ids up to the number of inverters. *)
Numbered(old, given, count) ==
  [x \in DOMAIN old \cup (DOMAIN given \cap UpTo(count)) |->
     IF x \in DOMAIN given \cap UpTo(count) THEN given[x] ELSE old[x]]

SystemIds(old, given, count) ==
  LET ids == Numbered(old, given, count) IN
  IF count = 1 /\ Plain \in DOMAIN given THEN [ids EXCEPT ![1] = given[Plain]] ELSE ids

IniRead == DOMAIN Ini.set \ NeverRead

IniCfg ==
  [s \in Settings |-> IF s \in IniRead THEN IniValue(s, Ini.set[s]) ELSE cfg[s]]

(* Mutant: the address of the file is judged whatever the environment says. *)
JudgedInIni_Always == "ifip" \in DOMAIN Ini.set

(* The address of the file is judged at once only if the environment replaces
   neither it nor influx2. *)
JudgedInIni ==
  "ifip" \in DOMAIN Ini.set /\ {"ifip", "influx2"} \cap DOMAIN Env.set = {}

IniRefused ==
  {s \in IniRead :
     \/ ~IniAccepts(s, Ini.set[s])
     \/ s = "ifip" /\ JudgedInIni /\ ~AddressAccepted(IniCfg.ifip, IniCfg.influx2)}

(* procconf.  A file that cannot be opened is an empty one. *)
ProcConf ==
  /\ source.files[Args.c].state # "broken" /\ IniRefused = {}
  /\ From("ini", "env")
  /\ cfg' = IniCfg
  /\ systems' = SystemIds(systems, Ini.systems, IniCfg.pvinverters)
  /\ inverters' = Numbered(inverters, Ini.inverters, IniCfg.pvinverters)
  /\ UNCHANGED Loaded

(* It ends at the first of them. *)
ProcConfFails ==
  \/ source.files[Args.c].state = "broken" /\ Exit("ini", "broken")
  \/ \E s \in IniRefused : Exit("ini", s)

EnvRead == {s \in DOMAIN Env.set \ NeverRead : EnvHonours(s, Env.set[s])}

EnvCfg == [s \in Settings |-> IF s \in EnvRead THEN Env.set[s] ELSE cfg[s]]

(* The address is judged again, wherever it is from. *)
EnvRefused ==
  {s \in EnvRead : ~EnvAccepts(s, Env.set[s])}
    \cup {s \in {"ifip"} : ~AddressAccepted(EnvCfg.ifip, EnvCfg.influx2)}

(* Mutant: the environment does not replace what the file has set. *)
ProcEnv_FileWins ==
  /\ EnvRefused = {}
  /\ From("env", "set")
  /\ cfg' = [s \in Settings |-> IF s \in EnvRead \ DOMAIN Ini.set THEN Env.set[s] ELSE cfg[s]]
  /\ systems' = SystemIds(systems, Env.systems, EnvCfg.pvinverters)
  /\ inverters' = Numbered(inverters, Env.inverters, EnvCfg.pvinverters)
  /\ UNCHANGED Loaded

ProcEnv ==
  /\ EnvRefused = {}
  /\ From("env", "set")
  /\ cfg' = EnvCfg
  /\ systems' = SystemIds(systems, Env.systems, EnvCfg.pvinverters)
  /\ inverters' = Numbered(inverters, Env.inverters, EnvCfg.pvinverters)
  /\ UNCHANGED Loaded

ProcEnvFails == \E s \in EnvRefused : Exit("env", s)

(* What the arguments override. *)
Overridden(s) ==
  CASE s = "mode" /\ Args.m # Absent -> IF Args.m = "proxy" THEN "proxy" ELSE "sniff"
    [] s = "inverterid" /\ Args.i \notin {Absent, "none"} -> Args.i
    [] s \in Args.flags \ {"verbose", "trace"} -> "True"
    [] OTHER -> cfg[s]

(* parserset; one switch is left as it was read. *)
ParserSet ==
  /\ From("set", "layouts")
  /\ cfg' = [s \in Settings |->
               IF s \in Switches \ {"mqttinverterintopic"}
                 THEN Str2Bool(Overridden(s)) ELSE Overridden(s)]
  /\ UNCHANGED <<systems, inverters, Loaded>>

JsonOf(name) == {file \in DOMAIN source.json : name \in source.json[file]}

(* set_reclayouts: the layout files are read in the order the directory lists
   them, whatever that is. *)
SetRecLayouts ==
  /\ \A file \in DOMAIN source.json : source.json[file] # {}
  /\ From("layouts", "recwl")
  /\ \E place \in [DOMAIN source.json -> 1..Cardinality(DOMAIN source.json)] :
       /\ \A f, g \in DOMAIN place : f # g => place[f] # place[g]
       /\ layouts' =
            [name \in BuiltIn \cup UNION {source.json[f] : f \in DOMAIN place} |->
               IF JsonOf(name) = {} THEN "built in"
               ELSE CHOOSE f \in JsonOf(name) : \A g \in JsonOf(name) : place[g] <= place[f]]
  /\ UNCHANGED <<Gathered, recwl, port>>

SetRecLayoutsFails ==
  /\ \E file \in DOMAIN source.json : source.json[file] = {}
  /\ Exit("layouts", "layouts")

(* set_recwl: the file replaces the list, empty as it may be. *)
SetRecWl ==
  /\ From("recwl", "influx")
  /\ recwl' = IF source.recwl THEN "recwl.txt" ELSE "built in"
  /\ UNCHANGED <<Gathered, layouts, port>>

NoInflux ==
  /\ cfg.influx # "True"
  /\ From("influx", "main")
  /\ UNCHANGED <<Gathered, Loaded>>

(* The client, its database or its bucket; the organisation may be missing. *)
ConnectInflux ==
  /\ cfg.influx = "True"
  /\ From("influx", "main")
  /\ cfg' = [cfg EXCEPT !.ifip = IF @ = "localhost" THEN "address" ELSE @]
  /\ UNCHANGED <<systems, inverters, Loaded>>

InfluxFails == cfg.influx = "True" /\ Exit("influx", "influx")
-----------------------------------------------------------------------------
(* Proxy(conf) binds the port and listens. *)
StartProxy ==
  /\ cfg.mode = "proxy"
  /\ From("main", "proxy")
  /\ port' = IF cfg.grottport = 0 THEN Ephemeral ELSE cfg.grottport
  /\ port' \notin source.busy
  /\ UNCHANGED <<Gathered, layouts, recwl>>

(* The port is in use, or the raw socket is not permitted. *)
StartFails == cfg.mode \in {"proxy", "sniff"} /\ Exit("main", "socket")

StartSniff ==
  /\ cfg.mode = "sniff"
  /\ From("main", "sniff")
  /\ UNCHANGED <<Gathered, Loaded>>

UndefinedMode == cfg.mode \notin {"proxy", "sniff"} /\ Exit("main", "mode")

(* What Sniff.main hands to procdata.  A packet is [proto, port, target, size,
   fate]; its addresses are numeric, and it is cut off in a header ("cut"), or
   procdata raises ("raises"). *)
Sniffed(p) ==
  /\ p.proto = "tcp" /\ p.fate # "cut"
  /\ p.port = cfg.growattport
  /\ p.target = cfg.growattip
  /\ p.size > cfg.minrecl

(* Nothing catches what a packet raises; all other packets leave no trace. *)
SniffFails(p) ==
  /\ p.fate = "cut" \/ (p.fate = "raises" /\ Sniffed(p))
  /\ Exit("sniff", "packet")

(* KeyboardInterrupt, or an error of the event loop. *)
Stop == \E here \in {"proxy", "sniff"} : Exit(here, "stopped")

Next ==
  \/ ParserInit \/ UsageError
  \/ ProcConf \/ ProcConfFails
  \/ ProcEnv \/ ProcEnvFails
  \/ ParserSet
  \/ SetRecLayouts \/ SetRecLayoutsFails
  \/ SetRecWl
  \/ NoInflux \/ ConnectInflux \/ InfluxFails
  \/ StartProxy \/ StartFails \/ StartSniff \/ UndefinedMode
  \/ \E p \in Packets : SniffFails(p)
  \/ Stop

Spec == Init /\ [][Next]_vars
-----------------------------------------------------------------------------
(* The health check. *)
HealthFile == source.files["grott.ini"]

IniPort ==
  CASE HealthFile.state = "missing" -> 5279
    [] HealthFile.state \in {"unreadable", "broken"} -> NotANumber
    [] OTHER -> IF "grottport" \in DOMAIN HealthFile.set
                  THEN HealthFile.set.grottport ELSE 5279

(* Mutant: the file is preferred to Grott's variable. *)
ResolvePort_FileFirst ==
  IF Env.health # Unset THEN Env.health
  ELSE IF HealthFile.state = "ok" /\ "grottport" \in DOMAIN HealthFile.set THEN IniPort
  ELSE IF "grottport" \in DOMAIN Env.set THEN Env.set.grottport
  ELSE IniPort

ResolvePort ==
  IF Env.health # Unset THEN Env.health
  ELSE IF "grottport" \in DOMAIN Env.set THEN Env.set.grottport
  ELSE IniPort

Listening == source.busy \cup (IF phase = "proxy" THEN {port} ELSE {})

(* The exit code: 0 healthy, 1 not, 2 the port is none. *)
HealthCheck ==
  IF ResolvePort \notin HealthPorts THEN 2
  ELSE IF ResolvePort \in Listening THEN 0 ELSE 1
-----------------------------------------------------------------------------
(* What the values of the variables are. *)
TypeOK ==
  /\ source \in Sources
  /\ phase \in {"args", "ini", "env", "set", "layouts", "recwl", "influx", "main",
                "proxy", "sniff", "down"}
  /\ DOMAIN cfg = Settings
  /\ 1 \in DOMAIN systems
  /\ phase # "proxy" => port = Absent
  /\ phase # "down" => why = Absent

Gathering == {"args", "ini", "env", "set"}
Decided   == phase \notin Gathering \cup {"down"}

(* What a word, or a value, of a setting comes to. *)
Meant(s, w) ==
  IF s \in Switches \ {"mqttinverterintopic"} THEN Str2Bool(w) ELSE w

(* The command line. *)
ByArgs(s) ==
  \/ s = "mode" /\ Args.m # Absent
  \/ s = "inverterid" /\ Args.i \notin {Absent, "none"}
  \/ s \in Args.flags

ArgsSay(s) ==
  CASE s = "mode"       -> IF Args.m = "proxy" THEN "proxy" ELSE "sniff"
    [] s = "inverterid" -> Args.i
    [] OTHER            -> "True"

(* What a setting should be: 1. command line, 2. environment, 3. file, 4. the
   default of the program. *)
Strongest(s) ==
  Meant(s, IF ByArgs(s) THEN ArgsSay(s)
           ELSE IF s \in EnvRead THEN Env.set[s]
           ELSE IF s \in IniRead THEN IniValue(s, Ini.set[s])
           ELSE Defaults[s])

IniCount == IF "pvinverters" \in DOMAIN Ini.set THEN Ini.set.pvinverters ELSE 1

(* The ids a source gives when it knows of `count' inverters: with one inverter
   the system id without a number is that of the first. *)
Ids(given, count) ==
  LET plain == IF count = 1 /\ Plain \in DOMAIN given THEN {1} ELSE {}
  IN  [x \in (DOMAIN given \cap UpTo(count)) \cup plain |->
         IF x \in plain THEN given[Plain] ELSE given[x]]

(* Two sources, the later one the stronger, over the default of the first. *)
Merged(first, ini, env) ==
  [x \in {1} \cup DOMAIN ini \cup DOMAIN env |->
     IF x \in DOMAIN env THEN env[x] ELSE IF x \in DOMAIN ini THEN ini[x] ELSE first]

(* Every setting but verbose has the value of the strongest source that has it,
   -m, -i and the other flags included, and so has every system id and inverter
   id: those of the file up to the count of the file, those of the environment
   up to the final one.  localhost becomes a number when InfluxDB is connected. *)
StrongestSource ==
  Decided =>
    /\ \A s \in Settings \ {"verbose"} :
         \/ cfg[s] = Strongest(s)
         \/ /\ s = "ifip" /\ cfg.influx = "True" /\ Strongest(s) = "localhost"
            /\ cfg[s] = "address"
    /\ systems = Merged("systemid1", Ids(Ini.systems, IniCount),
                                     Ids(Env.systems, cfg.pvinverters))
    /\ inverters = Merged("inverter1", Ids(Ini.inverters, IniCount),
                                       Ids(Env.inverters, cfg.pvinverters))

(* "prio: 1.Command line parms": a flag that is given is set, whatever the
   environment and the file say.  The code does not keep it for -v, which is
   stored before the file is read. *)
CommandLineFirst == Decided => \A s \in Args.flags : cfg[s] = "True"

EffectiveAddress ==
  CASE "ifip" \in DOMAIN Env.set -> Env.set.ifip
    [] "ifip" \in DOMAIN Ini.set \ DOMAIN Env.set -> Ini.set.ifip
    [] OTHER -> "localhost"

EffectiveInflux2 ==
  CASE "influx2" \in DOMAIN Env.set -> Env.set.influx2
    [] "influx2" \in DOMAIN Ini.set \ DOMAIN Env.set -> Ini.set.influx2
    [] OTHER -> "no"

(* The address of InfluxDB and the version it is for, each from the file or the
   environment, are judged together as they will be used: a start fails for the
   address only if this pair is wrong, or the file's text itself, and none
   gets past the environment with a wrong one. *)
InfluxJudgedOnce ==
  /\ why = "ifip" => \/ ~AddressAccepted(EffectiveAddress, EffectiveInflux2)
                     \/ "ifip" \in DOMAIN Ini.set /\ Ini.set.ifip = "percent"
  /\ Decided => AddressAccepted(EffectiveAddress, EffectiveInflux2)

(* The health check, which gathers the port on its own, finds the proxy: while
   it listens it is healthy, if both read the same file and the port is not
   left to the system; and what is healthy is the proxy, if the port is not
   another process's. *)
HealthFollowsProxy ==
  /\ (/\ phase = "proxy" /\ Env.health = Unset /\ Args.c = "grott.ini"
      /\ HealthFile.state # "unreadable" /\ cfg.grottport # 0)
     => HealthCheck = 0
  /\ (HealthCheck = 0 /\ ResolvePort \notin source.busy)
     => (phase = "proxy" /\ port = ResolvePort)
=============================================================================
