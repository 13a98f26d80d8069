----------------------------- MODULE StartupProofs -----------------------------
(***************************************************************************)
(* Proofs about Startup, for every set of sources.                         *)
(***************************************************************************)
EXTENDS Startup, TLAPS

LEMMA TypeStep ==
  ASSUME TypeOK, [Next]_vars
  PROVE  TypeOK'
<1>. USE DEF TypeOK
<1>1. ASSUME NEW here, NEW reason, Exit(here, reason) PROVE TypeOK'
  BY <1>1 DEF Exit, Gathered
<1>2. CASE UsageError \/ SetRecLayoutsFails \/ InfluxFails \/ StartFails \/ UndefinedMode
  BY <1>1, <1>2 DEF UsageError, SetRecLayoutsFails, InfluxFails, StartFails, UndefinedMode
<1>3. CASE ProcConfFails \/ ProcEnvFails
  BY <1>1, <1>3 DEF ProcConfFails, ProcEnvFails
<1>4. CASE (\E p \in Packets : SniffFails(p)) \/ Stop
  BY <1>1, <1>4 DEF SniffFails, Stop
<1>5. CASE ParserInit
  BY <1>5 DEF ParserInit, From, Loaded
<1>6. ASSUME NEW given, NEW count PROVE 1 \in DOMAIN SystemIds(systems, given, count)
  BY DEF SystemIds, Numbered
<1>7. CASE ProcConf
  BY <1>6, <1>7 DEF ProcConf, From, Loaded, IniCfg
<1>8. CASE ProcEnv
  BY <1>6, <1>8 DEF ProcEnv, From, Loaded, EnvCfg
<1>9. CASE ParserSet
  BY <1>9 DEF ParserSet, From, Loaded
<1>10. CASE SetRecLayouts \/ SetRecWl
  BY <1>10 DEF SetRecLayouts, SetRecWl, From, Gathered
<1>11. CASE NoInflux \/ StartSniff
  BY <1>11 DEF NoInflux, StartSniff, From, Gathered, Loaded
<1>12. CASE ConnectInflux
  BY <1>12 DEF ConnectInflux, From, Loaded
<1>13. CASE StartProxy
  BY <1>13 DEF StartProxy, From, Gathered
<1>14. CASE UNCHANGED vars
  BY <1>14 DEF vars
<1>. QED BY <1>2, <1>3, <1>4, <1>5, <1>7, <1>8, <1>9, <1>10, <1>11, <1>12, <1>13,
            <1>14 DEF Next

(* Every variable keeps its type. *)
THEOREM TypeCorrect == Spec => []TypeOK
<1>1. Init => TypeOK
  BY DEF Init, TypeOK, Defaults
<1>. QED BY <1>1, TypeStep, PTL DEF Spec
-----------------------------------------------------------------------------
(* Each step but an exit moves phase on by one place and keeps the source; the
   steps behind the environment keep what it decided. *)
Reads == ParserInit \/ ProcConf \/ ProcEnv \/ ParserSet

Ends ==
  /\ phase' = "down" /\ source' = source /\ port' = Absent
  /\ UNCHANGED <<cfg, systems, inverters>>

Later ==
  /\ phase \in {"layouts", "recwl", "influx", "main"}
  /\ phase' \in {"recwl", "influx", "main", "proxy", "sniff"}
  /\ source' = source /\ why' = why
  /\ systems' = systems /\ inverters' = inverters
  /\ \A s \in Settings \ {"ifip"} : cfg'[s] = cfg[s]
  /\ \/ cfg'["ifip"] = cfg["ifip"]
     \/ cfg.influx = "True" /\ cfg["ifip"] = "localhost" /\ cfg'["ifip"] = "address"

LEMMA EndsOf ==
  ASSUME NEW here, NEW reason, Exit(here, reason)
  PROVE  Ends /\ why' = reason /\ phase = here
  BY DEF Exit, Ends, Gathered

(* Every reason but a refused setting is one of these. *)
Reasons == {"usage", "broken", "layouts", "influx", "socket", "mode", "packet", "stopped"}

LEMMA Steps ==
  ASSUME TypeOK, Next
  PROVE  \/ Reads
         \/ Later
         \/ Ends /\ why' \in Reasons
         \/ phase = "ini" /\ Ends /\ why' \in IniRefused
         \/ phase = "env" /\ Ends /\ why' \in EnvRefused
<1>1. CASE Reads
  BY <1>1
<1>2. CASE UsageError \/ SetRecLayoutsFails \/ InfluxFails \/ StartFails \/ UndefinedMode
  BY <1>2, EndsOf DEF UsageError, SetRecLayoutsFails, InfluxFails, StartFails,
       UndefinedMode, Reasons
<1>3. CASE ProcConfFails
  BY <1>3, EndsOf DEF ProcConfFails, Reasons
<1>4. CASE ProcEnvFails
  BY <1>4, EndsOf DEF ProcEnvFails
<1>5. CASE (\E p \in Packets : SniffFails(p)) \/ Stop
  BY <1>5, EndsOf DEF SniffFails, Stop, Reasons
<1>6. CASE SetRecLayouts \/ SetRecWl \/ NoInflux \/ StartProxy \/ StartSniff
  BY <1>6 DEF SetRecLayouts, SetRecWl, NoInflux, StartProxy, StartSniff, From,
       Gathered, Later
<1>7. CASE ConnectInflux
  BY <1>7 DEF ConnectInflux, From, Later, TypeOK
<1>. QED BY <1>1, <1>2, <1>3, <1>4, <1>5, <1>6, <1>7 DEF Next, Reads
-----------------------------------------------------------------------------
LEMMA DefaultWords ==
  /\ Defaults.ifip = "localhost"
  /\ Defaults.influx2 = "False"
  /\ Defaults.grottport = 5279
  /\ Defaults.pvinverters = 1
  /\ Defaults["trace"] = "False"
<1>. USE DEF Switches, IniBooleans, IniWords, Ports, Mappings, Texts
<1>1. Defaults["ifip"] = "localhost"
  BY DEF Defaults, Settings
<1>2. Defaults["influx2"] = "False"
  BY DEF Defaults, Settings
<1>3. Defaults["grottport"] = 5279
  BY DEF Defaults, Settings
<1>4. Defaults["pvinverters"] = 1
  BY DEF Defaults, Settings, Numbers
<1>5. Defaults["trace"] = "False"
  BY DEF Defaults, Settings
<1>. QED BY <1>1, <1>2, <1>3, <1>4, <1>5

(* The words for the address and the version of InfluxDB at each step. *)
FileAddress == IF "ifip" \in DOMAIN Ini.set THEN Ini.set.ifip ELSE "localhost"
FileInflux2 == IF "influx2" \in DOMAIN Ini.set THEN Ini.set.influx2 ELSE "no"

AddressInv ==
  /\ phase \in {"args", "ini"} => cfg.ifip = "localhost" /\ cfg.influx2 = "False"
  /\ phase = "env" => /\ cfg.ifip = FileAddress
                      /\ Str2Bool(cfg.influx2) = Str2Bool(FileInflux2)
  /\ phase = "set" => AddressAccepted(EffectiveAddress, EffectiveInflux2)
  /\ InfluxJudgedOnce

LEMMA IfipAccepted ==
  /\ \A w : ~IniAccepts("ifip", w) => w = "percent"
  /\ \A w : EnvAccepts("ifip", w) /\ EnvHonours("ifip", w) /\ EnvHonours("influx2", w)
  /\ \A w : IniValue("ifip", w) = w /\ IniValue("influx2", w) = w
  /\ "ifip" \in Settings /\ "influx2" \in Settings /\ "ifip" \notin Reasons
  /\ "ifip" \notin NeverRead /\ "influx2" \notin NeverRead
  BY DEF NeverRead, IniAccepts, EnvAccepts, ReadByBoth, EnvHonours, IniValue, Ports, Numbers, Hosts,
     Mappings, IniBooleans, Settings, Switches, IniWords, Reasons

LEMMA AddressByVersion ==
  ASSUME NEW a, NEW v, NEW w, Str2Bool(v) = Str2Bool(w)
  PROVE  AddressAccepted(a, v) <=> AddressAccepted(a, w)
  BY DEF AddressAccepted

LEMMA SameWord == Str2Bool("False") = Str2Bool("no")
  BY DEF Str2Bool

(* What the settings come to behind the file and behind the environment. *)
LEMMA Gathering1 ==
  ASSUME AddressInv, phase = "ini"
  PROVE  IniCfg.ifip = FileAddress /\ Str2Bool(IniCfg.influx2) = Str2Bool(FileInflux2)
  BY IfipAccepted, SameWord DEF IniCfg, IniRead, AddressInv, FileAddress, FileInflux2

LEMMA Gathering2 ==
  ASSUME AddressInv, phase = "env"
  PROVE  /\ EnvCfg.ifip = EffectiveAddress
         /\ Str2Bool(EnvCfg.influx2) = Str2Bool(EffectiveInflux2)
<1>1. /\ "ifip" \in EnvRead <=> "ifip" \in DOMAIN Env.set
      /\ "influx2" \in EnvRead <=> "influx2" \in DOMAIN Env.set
  BY IfipAccepted DEF EnvRead
<1>2. EnvCfg.ifip = EffectiveAddress
  BY <1>1, IfipAccepted DEF EnvCfg, AddressInv, FileAddress, EffectiveAddress
<1>3. Str2Bool(EnvCfg.influx2) = Str2Bool(EffectiveInflux2)
  BY <1>1, IfipAccepted DEF EnvCfg, AddressInv, FileInflux2, EffectiveInflux2
<1>. QED BY <1>2, <1>3

LEMMA AddressStep ==
  ASSUME TypeOK, AddressInv, [Next]_vars
  PROVE  AddressInv'
<1>. DEFINE Fixed == /\ Ini' = Ini /\ Env' = Env
                     /\ EffectiveAddress' = EffectiveAddress
                     /\ EffectiveInflux2' = EffectiveInflux2
                     /\ FileAddress' = FileAddress
                     /\ FileInflux2' = FileInflux2
<1>0. source' = source => Fixed
  BY DEF Ini, Env, Args, EffectiveAddress, EffectiveInflux2, FileAddress, FileInflux2
<1>. HIDE DEF Fixed
<1>1. CASE UNCHANGED vars
  BY <1>1, <1>0 DEF vars, AddressInv, InfluxJudgedOnce, Decided, Fixed
<1>2. CASE Later
  BY <1>2, <1>0 DEF Later, AddressInv, InfluxJudgedOnce, Decided, Gathering, Fixed
<1>3. CASE Ends /\ why' \in Reasons
  BY <1>3, <1>0, IfipAccepted DEF Ends, AddressInv, InfluxJudgedOnce, Decided, Fixed
<1>4. CASE phase = "ini" /\ Ends /\ why' \in IniRefused
  <2>1. ASSUME why' = "ifip"
        PROVE  \/ ~AddressAccepted(EffectiveAddress, EffectiveInflux2)
               \/ "ifip" \in DOMAIN Ini.set /\ Ini.set.ifip = "percent"
    <3>1. CASE ~IniAccepts("ifip", Ini.set["ifip"])
      BY <1>4, <2>1, <3>1, IfipAccepted DEF IniRefused, IniRead
    <3>2. CASE JudgedInIni /\ ~AddressAccepted(IniCfg.ifip, IniCfg.influx2)
      <4>1. EffectiveAddress = FileAddress /\ EffectiveInflux2 = FileInflux2
        BY <3>2 DEF JudgedInIni, EffectiveAddress, EffectiveInflux2, FileAddress, FileInflux2
      <4>. QED BY <1>4, <3>2, <4>1, Gathering1, AddressByVersion
    <3>. QED BY <1>4, <2>1, <3>1, <3>2 DEF IniRefused
  <2>. QED BY <1>4, <1>0, <2>1 DEF Ends, AddressInv, InfluxJudgedOnce, Decided, Fixed
<1>5. CASE phase = "env" /\ Ends /\ why' \in EnvRefused
  <2>1. ASSUME why' = "ifip"
        PROVE  ~AddressAccepted(EffectiveAddress, EffectiveInflux2)
    <3>1. ~AddressAccepted(EnvCfg.ifip, EnvCfg.influx2)
      BY <1>5, <2>1, IfipAccepted DEF EnvRefused
    <3>. QED BY <1>5, <3>1, Gathering2, AddressByVersion
  <2>. QED BY <1>5, <1>0, <2>1 DEF Ends, AddressInv, InfluxJudgedOnce, Decided, Fixed
<1>6. CASE ParserInit
  <2>1. cfg'.ifip = cfg.ifip /\ cfg'.influx2 = cfg.influx2
    BY <1>6, IfipAccepted DEF ParserInit, TypeOK
  <2>. QED BY <1>6, <1>0, <2>1 DEF ParserInit, From, AddressInv, InfluxJudgedOnce, Decided,
              Gathering, Fixed
<1>7. CASE ProcConf
  <2>1. phase = "ini" /\ phase' = "env" /\ cfg' = IniCfg /\ source' = source /\ why' = why
    BY <1>7 DEF ProcConf, From
  <2>. QED BY <1>0, <2>1, Gathering1 DEF AddressInv, InfluxJudgedOnce, Decided, Gathering,
              Fixed
<1>8. CASE ProcEnv
  <2>1. phase = "env" /\ phase' = "set" /\ source' = source /\ why' = why
    BY <1>8 DEF ProcEnv, From
  <2>2. AddressAccepted(EnvCfg.ifip, EnvCfg.influx2)
    BY <1>8 DEF ProcEnv, EnvRefused
  <2>3. AddressAccepted(EffectiveAddress, EffectiveInflux2)
    BY <2>1, <2>2, Gathering2, AddressByVersion
  <2>. QED BY <1>0, <2>1, <2>3 DEF AddressInv, InfluxJudgedOnce, Decided, Gathering, Fixed
<1>9. CASE ParserSet
  <2>1. phase = "set" /\ phase' = "layouts" /\ source' = source /\ why' = why
    BY <1>9 DEF ParserSet, From
  <2>. QED BY <1>0, <2>1 DEF AddressInv, InfluxJudgedOnce, Decided, Gathering, Fixed
<1>. QED BY <1>1, <1>2, <1>3, <1>4, <1>5, <1>6, <1>7, <1>8, <1>9, Steps DEF Reads

(* The address of InfluxDB is refused if, and only if, what it comes to is. *)
THEOREM AddressIsJudgedOnce == Spec => []InfluxJudgedOnce
<1>1. Init => AddressInv
  <2>. SUFFICES ASSUME Init PROVE AddressInv
    OBVIOUS
  <2>1. phase = "args" /\ cfg = Defaults /\ why # "ifip"
    BY DEF Init, Absent
  <2>2. cfg.ifip = "localhost" /\ cfg.influx2 = "False"
    BY <2>1, DefaultWords
  <2>. QED BY <2>1, <2>2 DEF AddressInv, InfluxJudgedOnce, Decided, Gathering
<1>2. TypeOK /\ AddressInv /\ [Next]_vars => AddressInv'
  BY AddressStep
<1>3. AddressInv => InfluxJudgedOnce
  BY DEF AddressInv
<1>. QED BY <1>1, <1>2, <1>3, TypeCorrect, PTL DEF Spec
-----------------------------------------------------------------------------
(* The words for the port at each step. *)
FilePort == IF "grottport" \in DOMAIN Ini.set THEN Ini.set.grottport ELSE 5279

EffectivePort ==
  IF "grottport" \in DOMAIN Env.set THEN Env.set.grottport ELSE FilePort

PortInv ==
  /\ phase \in {"args", "ini"} => cfg.grottport = 5279
  /\ phase = "env" => cfg.grottport = FilePort /\ cfg.grottport \in PortNumbers
  /\ phase = "set" \/ Decided =>
       cfg.grottport = EffectivePort /\ cfg.grottport \in PortNumbers
  /\ phase \notin {"args", "ini", "down"} => source.files[Args.c].state # "broken"
  /\ phase = "proxy" => port = (IF cfg.grottport = 0 THEN Ephemeral ELSE cfg.grottport)

LEMMA GrottPort ==
  /\ "grottport" \in Settings \ (Switches \cup {"ifip", "mode", "inverterid"})
  /\ \A w : IniAccepts("grottport", w) \/ EnvAccepts("grottport", w) => w \in PortNumbers
  /\ \A w : EnvHonours("grottport", w) /\ IniValue("grottport", w) = w
  /\ "grottport" \notin NeverRead
<1>1. "grottport" \in Settings \ (Switches \cup {"ifip", "mode", "inverterid"})
  BY DEF Settings, Switches, IniBooleans, IniWords, Ports
<1>2. \A w : ReadByBoth("grottport", w) <=> w \in PortNumbers
  BY DEF ReadByBoth, Ports, Numbers, Hosts, Mappings
<1>3. \A w : EnvHonours("grottport", w) /\ IniValue("grottport", w) = w
  BY DEF EnvHonours, IniValue, IniBooleans
<1>. QED BY <1>1, <1>2, <1>3 DEF IniAccepts, EnvAccepts, NeverRead

LEMMA PortStep ==
  ASSUME TypeOK, PortInv, [Next]_vars
  PROVE  PortInv'
<1>. DEFINE Fixed == /\ source' = source /\ Args' = Args
                     /\ FilePort' = FilePort /\ EffectivePort' = EffectivePort
<1>0. source' = source => Fixed
  BY DEF Ini, Env, Args, FilePort, EffectivePort
<1>. HIDE DEF Fixed
<1>1. CASE UNCHANGED vars
  BY <1>1, <1>0 DEF vars, PortInv, Decided, Fixed
<1>2. CASE StartProxy
  <2>1. /\ phase = "main" /\ phase' = "proxy" /\ source' = source /\ cfg' = cfg
        /\ port' = (IF cfg.grottport = 0 THEN Ephemeral ELSE cfg.grottport)
    BY <1>2 DEF StartProxy, From, Gathered
  <2>. QED BY <1>0, <2>1 DEF PortInv, Decided, Gathering, Fixed
<1>3. CASE Later /\ phase' # "proxy"
  <2>1. cfg'.grottport = cfg.grottport
    BY <1>3, GrottPort DEF Later
  <2>. QED BY <1>3, <1>0, <2>1 DEF Later, PortInv, Decided, Gathering, Fixed
<1>4. CASE Ends
  BY <1>4 DEF Ends, PortInv, Decided
<1>5. CASE ParserInit
  <2>1. cfg'.grottport = cfg.grottport
    BY <1>5, GrottPort DEF ParserInit, TypeOK
  <2>. QED BY <1>5, <1>0, <2>1 DEF ParserInit, From, PortInv, Decided, Gathering, Fixed
<1>6. CASE ProcConf
  <2>1. /\ phase = "ini" /\ phase' = "env" /\ cfg' = IniCfg /\ source' = source
        /\ source.files[Args.c].state # "broken"
    BY <1>6 DEF ProcConf, From
  <2>2. IniCfg.grottport = FilePort
    BY <2>1, GrottPort DEF IniCfg, IniRead, FilePort, PortInv
  <2>3. FilePort \in PortNumbers
    <3>1. "grottport" \in DOMAIN Ini.set => IniAccepts("grottport", Ini.set["grottport"])
      BY <1>6, GrottPort DEF ProcConf, IniRefused, IniRead
    <3>2. 5279 \in PortNumbers
      BY DEF PortNumbers
    <3>. QED BY <3>1, <3>2, GrottPort DEF FilePort
  <2>. QED BY <1>0, <2>1, <2>2, <2>3 DEF PortInv, Decided, Gathering, Fixed
<1>7. CASE ProcEnv
  <2>1. phase = "env" /\ phase' = "set" /\ cfg' = EnvCfg /\ source' = source
    BY <1>7 DEF ProcEnv, From
  <2>2. "grottport" \in EnvRead <=> "grottport" \in DOMAIN Env.set
    BY GrottPort DEF EnvRead
  <2>3. EnvCfg.grottport = EffectivePort
    BY <2>1, <2>2, GrottPort DEF EnvCfg, EffectivePort, PortInv
  <2>4. EffectivePort \in PortNumbers
    <3>1. "grottport" \in EnvRead => EnvAccepts("grottport", Env.set["grottport"])
      BY <1>7 DEF ProcEnv, EnvRefused
    <3>. QED BY <2>1, <2>2, <3>1, GrottPort DEF EffectivePort, PortInv
  <2>. QED BY <1>0, <2>1, <2>3, <2>4 DEF PortInv, Decided, Gathering, Fixed
<1>8. CASE ParserSet
  <2>1. phase = "set" /\ phase' = "layouts" /\ source' = source
    BY <1>8 DEF ParserSet, From
  <2>2. "grottport" \notin Args.flags
    BY SourceAssumption DEF TypeOK, Args
  <2>3. cfg'.grottport = cfg.grottport
    BY <1>8, <2>2, GrottPort DEF ParserSet, Overridden
  <2>. QED BY <1>0, <2>1, <2>3 DEF PortInv, Decided, Gathering, Fixed
<1>9. Later /\ phase' = "proxy" => StartProxy
  <2>1. phase' = "proxy" /\ Next => StartProxy
    BY EndsOf DEF Next, ParserInit, UsageError, ProcConf, ProcConfFails, ProcEnv, ProcEnvFails,
       ParserSet, SetRecLayouts, SetRecLayoutsFails, SetRecWl, NoInflux, ConnectInflux,
       InfluxFails, StartFails, StartSniff, UndefinedMode, SniffFails, Stop, From, Ends
  <2>. QED BY <2>1 DEF Later, vars
<1>. QED BY <1>1, <1>2, <1>3, <1>4, <1>5, <1>6, <1>7, <1>8, <1>9, Steps DEF Reads

(* The port the health check looks at is the one the settings come to. *)
LEMMA HealthPort ==
  ASSUME TypeOK, PortInv, phase = "proxy", Env.health = Unset, Args.c = "grott.ini",
         HealthFile.state # "unreadable"
  PROVE  ResolvePort = EffectivePort
<1>1. HealthFile.state \in {"ok", "missing"}
  BY SourceAssumption DEF TypeOK, HealthFile, PortInv
<1>2. CASE HealthFile.state = "ok"
  BY <1>2 DEF ResolvePort, IniPort, EffectivePort, FilePort, Ini, HealthFile
<1>3. CASE HealthFile.state = "missing"
  <2>1. DOMAIN Ini.set = {}
    BY <1>3 DEF Ini, HealthFile
  <2>. QED BY <1>3, <2>1 DEF ResolvePort, IniPort, EffectivePort, FilePort
<1>. QED BY <1>1, <1>2, <1>3

LEMMA Positive == \A p \in PortNumbers : p # 0 => p \in HealthPorts
  BY DEF HealthPorts

LEMMA Verdict ==
  \A A, B \in BOOLEAN : (IF A THEN 2 ELSE IF B THEN 0 ELSE 1) = 0 => B
  OBVIOUS

(* The health check finds the proxy, and nothing else. *)
THEOREM HealthIsTheProxys == Spec => []HealthFollowsProxy
<1>1. Init => PortInv
  <2>. SUFFICES ASSUME Init PROVE PortInv
    OBVIOUS
  <2>1. phase = "args" /\ cfg = Defaults
    BY DEF Init
  <2>2. cfg.grottport = 5279
    BY <2>1, DefaultWords
  <2>. QED BY <2>1, <2>2 DEF PortInv, Decided, Gathering
<1>2. TypeOK /\ PortInv /\ [Next]_vars => PortInv'
  BY PortStep
<1>3. TypeOK /\ PortInv => HealthFollowsProxy
  <2>. SUFFICES ASSUME TypeOK, PortInv PROVE HealthFollowsProxy
    OBVIOUS
  <2>1. ASSUME phase = "proxy", Env.health = Unset, Args.c = "grott.ini",
               HealthFile.state # "unreadable", cfg.grottport # 0
        PROVE  HealthCheck = 0
    <3>1. cfg.grottport = EffectivePort /\ cfg.grottport \in PortNumbers /\ port = cfg.grottport
      BY <2>1 DEF PortInv, Decided, Gathering
    <3>2. ResolvePort = port
      BY <2>1, <3>1, HealthPort
    <3>3. port \in HealthPorts
      BY <2>1, <3>1, Positive
    <3>. QED BY <2>1, <3>2, <3>3 DEF HealthCheck, Listening
  <2>2. ASSUME HealthCheck = 0, ResolvePort \notin source.busy
        PROVE  phase = "proxy" /\ port = ResolvePort
    <3>1. ResolvePort \in Listening
      BY <2>2, Verdict DEF HealthCheck
    <3>. QED BY <2>2, <3>1 DEF Listening
  <2>. QED BY <2>1, <2>2 DEF HealthFollowsProxy
<1>. QED BY <1>1, <1>2, <1>3, TypeCorrect, PTL DEF Spec
-----------------------------------------------------------------------------
(* What the settings but verbose, and the ids, are at each step: each source goes
   over what the weaker ones have left. *)
Ranked == Settings \ {"verbose"}

AfterArgs(s) == IF s = "trace" /\ s \in Args.flags THEN "True" ELSE Defaults[s]

AfterIni(s) == IF s \in IniRead THEN IniValue(s, Ini.set[s]) ELSE AfterArgs(s)

AfterEnv(s) == IF s \in EnvRead THEN Env.set[s] ELSE AfterIni(s)

IdsUnread ==
  systems = [x \in {1} |-> "systemid1"] /\ inverters = [x \in {1} |-> "inverter1"]

IdsOfIni ==
  /\ systems = Merged("systemid1", Ids(Ini.systems, IniCount), <<>>)
  /\ inverters = Merged("inverter1", Ids(Ini.inverters, IniCount), <<>>)

IdsOfBoth ==
  /\ systems = Merged("systemid1", Ids(Ini.systems, IniCount),
                                   Ids(Env.systems, cfg.pvinverters))
  /\ inverters = Merged("inverter1", Ids(Ini.inverters, IniCount),
                                     Ids(Env.inverters, cfg.pvinverters))

SettingInv ==
  /\ phase = "args" => cfg = Defaults /\ IdsUnread
  /\ phase = "ini"  => (\A s \in Ranked : cfg[s] = AfterArgs(s)) /\ IdsUnread
  /\ phase = "env"  => (\A s \in Ranked : cfg[s] = AfterIni(s)) /\ IdsOfIni
  /\ phase = "set"  => (\A s \in Ranked : cfg[s] = AfterEnv(s)) /\ IdsOfBoth
  /\ StrongestSource

LEMMA CountNames ==
  /\ "pvinverters" \in Ranked \ (Switches \cup {"trace", "mode", "inverterid", "ifip"})
  /\ "pvinverters" \notin NeverRead
  /\ \A w : IniValue("pvinverters", w) = w
<1>1. "pvinverters" \notin Switches
  BY DEF Switches, IniBooleans, IniWords
<1>2. "pvinverters" \in Settings
  BY DEF Settings, Numbers
<1>. QED BY <1>1, <1>2 DEF Ranked, NeverRead, IniValue, Switches

LEMMA FlagNames ==
  ASSUME TypeOK
  PROVE  /\ Args.flags \subseteq Switches
         /\ "mqttinverterintopic" \notin Args.flags
         /\ Plain \notin DOMAIN Ini.inverters /\ Plain \notin DOMAIN Env.inverters
<1>1. Args.flags \subseteq {"verbose", "trace", "nomqtt", "pvoutput", "blockcmd",
                            "noipf", "diagnostic_logging"}
  BY SourceAssumption DEF TypeOK, Args
<1>2. Plain \notin DOMAIN Ini.inverters
  <2>1. source.files[Args.c].state # "ok" => DOMAIN Ini.inverters = {}
    BY DEF Ini
  <2>2. source.files[Args.c].state = "ok" => Ini = source.files[Args.c]
    BY DEF Ini
  <2>. QED BY <2>1, <2>2, SourceAssumption DEF TypeOK, Args
<1>3. Plain \notin DOMAIN Env.inverters
  BY SourceAssumption DEF TypeOK, Env
<1>. QED BY <1>1, <1>2, <1>3 DEF Switches, IniBooleans, IniWords

(* What one source adds to the ids, in the words of Ids. *)
Over(old, new) ==
  [x \in DOMAIN old \cup DOMAIN new |-> IF x \in DOMAIN new THEN new[x] ELSE old[x]]

LEMMA SystemIdsOver ==
  ASSUME NEW old, 1 \in DOMAIN old, NEW given, NEW count
  PROVE  SystemIds(old, given, count) = Over(old, Ids(given, count))
<1>. DEFINE known == DOMAIN given \cap UpTo(count)
<1>1. CASE count = 1 /\ Plain \in DOMAIN given
  <2>1. /\ DOMAIN Ids(given, count) = known \cup {1}
        /\ \A x \in known \cup {1} :
             Ids(given, count)[x] = IF x = 1 THEN given[Plain] ELSE given[x]
    BY <1>1 DEF Ids
  <2>2. SystemIds(old, given, count) = [Numbered(old, given, count) EXCEPT ![1] = given[Plain]]
    BY <1>1 DEF SystemIds
  <2>3. SystemIds(old, given, count)
          = [x \in DOMAIN old \cup known |->
               IF x = 1 THEN given[Plain] ELSE IF x \in known THEN given[x] ELSE old[x]]
    BY <2>2 DEF Numbered
  <2>4. DOMAIN old \cup known = DOMAIN old \cup DOMAIN Ids(given, count)
    BY <2>1
  <2>. QED BY <2>1, <2>3, <2>4 DEF Over
<1>2. CASE ~(count = 1 /\ Plain \in DOMAIN given)
  <2>1. /\ DOMAIN Ids(given, count) = known
        /\ \A x \in known : Ids(given, count)[x] = given[x]
    BY <1>2 DEF Ids
  <2>2. SystemIds(old, given, count) = Numbered(old, given, count)
    BY <1>2 DEF SystemIds
  <2>. QED BY <2>1, <2>2 DEF Over, Numbered
<1>. QED BY <1>1, <1>2

LEMMA NumberedOver ==
  ASSUME NEW old, NEW given, Plain \notin DOMAIN given, NEW count
  PROVE  Numbered(old, given, count) = Over(old, Ids(given, count))
<1>1. /\ DOMAIN Ids(given, count) = DOMAIN given \cap UpTo(count)
      /\ \A x \in DOMAIN given \cap UpTo(count) : Ids(given, count)[x] = given[x]
  BY DEF Ids
<1>. QED BY <1>1 DEF Over, Numbered

LEMMA MergedOver ==
  ASSUME NEW first, NEW ini, NEW env
  PROVE  /\ Over([x \in {1} |-> first], ini) = Merged(first, ini, <<>>)
         /\ Over(Merged(first, ini, <<>>), env) = Merged(first, ini, env)
<1>1. DOMAIN <<>> = {}
  OBVIOUS
<1>2. Over([x \in {1} |-> first], ini) = Merged(first, ini, <<>>)
  BY <1>1 DEF Over, Merged
<1>3. /\ DOMAIN Merged(first, ini, <<>>) = {1} \cup DOMAIN ini
      /\ \A x \in {1} \cup DOMAIN ini :
           Merged(first, ini, <<>>)[x] = IF x \in DOMAIN ini THEN ini[x] ELSE first
  BY <1>1 DEF Merged
<1>4. Over(Merged(first, ini, <<>>), env) = Merged(first, ini, env)
  BY <1>3 DEF Over, Merged
<1>. QED BY <1>2, <1>4

LEMMA SettingStep ==
  ASSUME TypeOK, SettingInv, [Next]_vars
  PROVE  SettingInv'
<1>. DEFINE Fixed == /\ Args' = Args /\ Ini' = Ini /\ Env' = Env /\ IniCount' = IniCount
                     /\ EnvRead' = EnvRead /\ IniRead' = IniRead
                     /\ \A s \in Settings : /\ Strongest(s)' = Strongest(s)
                                            /\ AfterArgs(s)' = AfterArgs(s)
                                            /\ AfterIni(s)' = AfterIni(s)
                                            /\ AfterEnv(s)' = AfterEnv(s)
<1>0. source' = source => Fixed
  BY DEF Ini, Env, Args, IniCount, EnvRead, IniRead, Strongest, ByArgs, ArgsSay, AfterArgs,
     AfterIni, AfterEnv
<1>. HIDE DEF Fixed
<1>1. CASE UNCHANGED vars
  <2>1. Fixed
    BY <1>1, <1>0 DEF vars
  <2>. QED BY <1>1, <2>1 DEF vars, SettingInv, StrongestSource, Decided, IdsUnread, IdsOfIni,
              IdsOfBoth, Ranked, Fixed
<1>2. CASE Later
  <2>1. \A s \in Settings \ {"ifip"} : cfg'[s] = cfg[s]
    BY <1>2 DEF Later
  <2>2. /\ systems' = systems /\ inverters' = inverters /\ Decided /\ Fixed
        /\ phase' \notin {"args", "ini", "env", "set"}
    BY <1>2, <1>0 DEF Later, Decided, Gathering
  <2>3. \/ cfg'["ifip"] = cfg["ifip"]
        \/ cfg.influx = "True" /\ cfg["ifip"] = "localhost" /\ cfg'["ifip"] = "address"
    BY <1>2 DEF Later
  <2>4. /\ "pvinverters" \in Settings \ {"ifip"} /\ "influx" \in Settings \ {"ifip"}
        /\ "ifip" \in Ranked
    BY DEF Ranked, Settings, Numbers, Switches, IniWords
  <2>5. cfg'.pvinverters = cfg.pvinverters /\ cfg'.influx = cfg.influx
    BY <2>1, <2>4
  <2>6. StrongestSource
    BY DEF SettingInv
  <2>7. StrongestSource'
    <3>1. \A s \in Ranked \ {"ifip"} : cfg'[s] = Strongest(s)'
      BY <2>1, <2>2, <2>6 DEF StrongestSource, Ranked, Fixed
    <3>2. \/ cfg'["ifip"] = Strongest("ifip")'
          \/ /\ cfg'.influx = "True" /\ Strongest("ifip")' = "localhost"
             /\ cfg'["ifip"] = "address"
      BY <2>2, <2>3, <2>4, <2>5, <2>6 DEF StrongestSource, Ranked, Fixed
    <3>. QED BY <2>2, <2>5, <2>6, <3>1, <3>2 DEF StrongestSource, Ranked, Fixed
  <2>. QED BY <2>2, <2>7 DEF SettingInv
<1>3. CASE Ends
  BY <1>3 DEF Ends, SettingInv, StrongestSource, Decided
<1>4. CASE ParserInit
  <2>1. /\ phase = "args" /\ phase' = "ini" /\ Fixed
        /\ systems' = systems /\ inverters' = inverters
    BY <1>4, <1>0 DEF ParserInit, From
  <2>2. \A s \in Ranked : cfg'[s] = AfterArgs(s)
    <3>1. cfg = Defaults
      BY <2>1 DEF SettingInv
    <3>2. Defaults["trace"] = "False"
      BY DefaultWords
    <3>3. cfg' = [cfg EXCEPT !.verbose = IF "verbose" \in Args.flags THEN "True" ELSE "False",
                             !.trace   = IF "trace" \in Args.flags THEN "True" ELSE "False"]
      BY <1>4 DEF ParserInit
    <3>. QED BY <3>1, <3>2, <3>3 DEF Ranked, AfterArgs, TypeOK
  <2>. QED BY <2>1, <2>2 DEF SettingInv, StrongestSource, Decided, Gathering, IdsUnread,
              Ranked, Fixed
<1>5. CASE ProcConf
  <2>1. /\ phase = "ini" /\ phase' = "env" /\ cfg' = IniCfg /\ Fixed
        /\ systems' = SystemIds(systems, Ini.systems, IniCfg.pvinverters)
        /\ inverters' = Numbered(inverters, Ini.inverters, IniCfg.pvinverters)
    BY <1>5, <1>0 DEF ProcConf, From
  <2>2. \A s \in Ranked : cfg'[s] = AfterIni(s)
    BY <2>1 DEF IniCfg, SettingInv, AfterIni, Ranked
  <2>3. IniCfg.pvinverters = IniCount
    <3>1. cfg.pvinverters = 1
      BY <2>1, CountNames, DefaultWords DEF SettingInv, AfterArgs
    <3>. QED BY <3>1, CountNames DEF IniCfg, IniRead, IniCount, Ranked
  <2>4. IdsOfIni'
    <3>1. /\ systems = [x \in {1} |-> "systemid1"] /\ 1 \in DOMAIN systems
          /\ inverters = [x \in {1} |-> "inverter1"]
      BY <2>1 DEF SettingInv, IdsUnread
    <3>2. systems' = Over(systems, Ids(Ini.systems, IniCount))
      BY <2>1, <2>3, <3>1, SystemIdsOver
    <3>3. inverters' = Over(inverters, Ids(Ini.inverters, IniCount))
      BY <2>1, <2>3, FlagNames, NumberedOver
    <3>. QED BY <2>1, <3>1, <3>2, <3>3, MergedOver DEF IdsOfIni, Fixed
  <2>. QED BY <2>1, <2>2, <2>4 DEF SettingInv, StrongestSource, Decided, Gathering, Ranked,
              Fixed
<1>6. CASE ProcEnv
  <2>1. /\ phase = "env" /\ phase' = "set" /\ cfg' = EnvCfg /\ Fixed
        /\ systems' = SystemIds(systems, Env.systems, EnvCfg.pvinverters)
        /\ inverters' = Numbered(inverters, Env.inverters, EnvCfg.pvinverters)
    BY <1>6, <1>0 DEF ProcEnv, From
  <2>2. \A s \in Ranked : cfg'[s] = AfterEnv(s)
    BY <2>1 DEF EnvCfg, SettingInv, AfterEnv, Ranked
  <2>3. IdsOfBoth'
    <3>1. IdsOfIni /\ 1 \in DOMAIN systems
      BY <2>1 DEF SettingInv, TypeOK
    <3>2. systems' = Over(systems, Ids(Env.systems, EnvCfg.pvinverters))
      BY <2>1, <3>1, SystemIdsOver
    <3>3. inverters' = Over(inverters, Ids(Env.inverters, EnvCfg.pvinverters))
      BY <2>1, FlagNames, NumberedOver
    <3>. QED BY <2>1, <3>1, <3>2, <3>3, MergedOver DEF IdsOfIni, IdsOfBoth, Fixed
  <2>. QED BY <2>1, <2>2, <2>3 DEF SettingInv, StrongestSource, Decided, Gathering, Ranked,
              Fixed
<1>7. CASE ParserSet
  <2>1. /\ phase = "set" /\ phase' = "layouts" /\ Fixed
        /\ systems' = systems /\ inverters' = inverters
        /\ \A s \in Settings : cfg'[s] = Meant(s, Overridden(s))
    BY <1>7, <1>0 DEF ParserSet, From, Meant
  <2>2. \A s \in Ranked : cfg[s] = AfterEnv(s)
    BY <2>1 DEF SettingInv
  <2>3. ASSUME NEW s \in Ranked, ByArgs(s), s # "trace"
        PROVE  Overridden(s) = ArgsSay(s)
    <3>1. "mode" \notin Args.flags /\ "inverterid" \notin Args.flags
      BY FlagNames DEF Switches, IniBooleans, IniWords
    <3>2. CASE s = "mode"
      BY <2>3, <3>1, <3>2 DEF ByArgs, Overridden, ArgsSay
    <3>3. CASE s = "inverterid"
      BY <2>3, <3>1, <3>3 DEF ByArgs, Overridden, ArgsSay
    <3>4. CASE s \in Args.flags
      <4>1. s \notin {"mode", "inverterid", "verbose", "trace"}
        BY <2>3, <3>1, <3>4 DEF Ranked
      <4>. QED BY <3>4, <4>1 DEF Overridden, ArgsSay
    <3>. QED BY <2>3, <3>2, <3>3, <3>4 DEF ByArgs
  <2>4. ASSUME NEW s \in Ranked, ~ByArgs(s) \/ s = "trace"
        PROVE  Overridden(s) = cfg[s]
    BY <2>4 DEF ByArgs, Overridden
  <2>5. \A s \in Ranked : cfg'[s] = Strongest(s)
    <3>. SUFFICES ASSUME NEW s \in Ranked PROVE cfg'[s] = Strongest(s)
      OBVIOUS
    <3>1. cfg'[s] = Meant(s, Overridden(s))
      BY <2>1 DEF Ranked
    <3>2. CASE ByArgs(s) /\ s # "trace"
      BY <2>3, <3>1, <3>2 DEF Strongest
    <3>3. CASE ~ByArgs(s)
      <4>1. AfterArgs(s) = Defaults[s]
        BY <3>3 DEF ByArgs, AfterArgs
      <4>. QED BY <2>2, <2>4, <3>1, <3>3, <4>1 DEF Strongest, AfterEnv, AfterIni
    <3>4. CASE ByArgs(s) /\ s = "trace"
      <4>1. s \in Args.flags /\ s \notin EnvRead /\ s \notin IniRead
        BY <3>4 DEF ByArgs, EnvRead, IniRead, NeverRead
      <4>2. cfg[s] = "True"
        BY <2>2, <3>4, <4>1 DEF AfterEnv, AfterIni, AfterArgs
      <4>3. ArgsSay(s) = "True"
        BY <3>4 DEF ArgsSay
      <4>. QED BY <2>4, <3>1, <3>4, <4>2, <4>3 DEF Strongest
    <3>. QED BY <3>2, <3>3, <3>4
  <2>6. cfg'.pvinverters = cfg.pvinverters
    <3>1. Overridden("pvinverters") = cfg["pvinverters"]
      BY <2>4, CountNames, FlagNames DEF ByArgs
    <3>. QED BY <2>1, <3>1, CountNames DEF Meant, Ranked
  <2>7. IdsOfBoth
    BY <2>1 DEF SettingInv
  <2>8. StrongestSource'
    BY <2>1, <2>5, <2>6, <2>7 DEF StrongestSource, IdsOfBoth, Ranked, Fixed
  <2>. QED BY <2>1, <2>8 DEF SettingInv
<1>. QED BY <1>1, <1>2, <1>3, <1>4, <1>5, <1>6, <1>7, Steps DEF Reads

(* Every setting but verbose, and every id of an inverter, comes from the
   strongest source that has it. *)
THEOREM StrongestSourceDecides == Spec => []StrongestSource
<1>1. Init => SettingInv
  BY DEF Init, SettingInv, IdsUnread, StrongestSource, Decided, Gathering
<1>2. TypeOK /\ SettingInv /\ [Next]_vars => SettingInv'
  BY SettingStep
<1>3. SettingInv => StrongestSource
  BY DEF SettingInv
<1>. QED BY <1>1, <1>2, <1>3, TypeCorrect, PTL DEF Spec
=============================================================================
