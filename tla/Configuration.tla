---------------------------- MODULE Configuration ----------------------------
(***************************************************************************)
(* What a configuration means: which are accepted, and what they ask of    *)
(* every switch, of the listener and of the log (package config, and the   *)
(* code that builds the parts of a process from it).                       *)
(*                                                                         *)
(* A configuration is a record of decoded fields, with None for a field    *)
(* that is not there; files is what the paths it names lead to.  Durations *)
(* are in seconds.                                                         *)
(***************************************************************************)
EXTENDS Integers, Sequences

None == "none"

\* No password can be read from these.
NoSecret == {"missing", "directory", "empty"}

MaxSwitches == 1000
ReservedTarget == "internal"

CollectKeys ==
  {"processes", "temperature", "power", "cooling", "ntp", "capacity",
   "interfaces", "bgp", "vxlan", "evpn", "esi", "transceiver", "phy"}

-----------------------------------------------------------------------------
(* One switch                                                              *)

Label(sw) == IF sw.name # None THEN sw.name ELSE sw.host

\* Not the code: the fleet's file for every switch that names none.
FleetFileFirst(sw, fleetDefault) ==
  IF sw.passwordFile # None THEN sw.passwordFile ELSE fleetDefault

\* An inline password wins over a file, and a file of its own over the fleet's.
EffectivePasswordFile(sw, fleetDefault) ==
  IF sw.password # None THEN None
  ELSE IF sw.passwordFile # None THEN sw.passwordFile
  ELSE fleetDefault

DefaultModuleInterval(module) ==
  CASE module = "ntp" -> 60
    [] module \in {"capacity", "transceiver"} -> 300
    [] module \in {"esi", "phy"} -> 900
    [] OTHER -> 0

\* The poll interval is a floor.
resolveInterval(module, explicit, pollInterval) ==
  LET d == IF explicit = 0 THEN DefaultModuleInterval(module) ELSE explicit
  IN  IF d < pollInterval THEN pollInterval ELSE d

\* The modules enabled on a switch, each with its interval: an entry of the
\* switch replaces the fleet's, whether it enables or disables.
EffectiveCollect(sw, defaults, pollInterval) ==
  LET entry(k) == IF k \in DOMAIN sw.collect THEN sw.collect[k] ELSE defaults[k]
  IN  [k \in { m \in DOMAIN sw.collect \cup DOMAIN defaults : entry(m).enabled = "yes" } |->
         resolveInterval(k, entry(k).interval, pollInterval)]

\* The overlay takes several commands to a module.
CommandCount(module) == CASE module = "vxlan" -> 3 [] module = "evpn" -> 2 [] OTHER -> 1

Scoped == {"interfaces", "transceiver", "phy"}

\* What NewStore has a switch asked: show version at every tick, and the commands
\* of its modules, those about interfaces within its scope.
commandsFor(sw, cfg) ==
  LET collect == EffectiveCollect(sw, cfg.collect, cfg.pollInterval) IN
  {[module |-> "version", nth |-> 1, interval |-> cfg.pollInterval, scope |-> None]} \cup
  UNION {{[module   |-> k,
           nth      |-> n,
           interval |-> IF collect[k] <= 0 THEN cfg.pollInterval ELSE collect[k],
           scope    |-> IF k \in Scoped THEN sw.interfaceScope ELSE None]
          : n \in 1 .. CommandCount(k)} : k \in DOMAIN collect}

-----------------------------------------------------------------------------
(* Load                                                                    *)

\* An entry of a collect block says whether it is enabled; an interval is positive
\* (0 is none given).
DecodesCollect(set) ==
  \A k \in DOMAIN set : set[k].enabled \in {"yes", "no"} /\ set[k].interval >= 0

\* The file is YAML, of known fields with values of their types.
Decodes(cfg) ==
  /\ cfg.parses
  /\ DecodesCollect(cfg.collect)
  /\ \A i \in DOMAIN cfg.switches : DecodesCollect(cfg.switches[i].collect)

applyDefaults(cfg) ==
  LET poll == IF cfg.pollInterval = 0 THEN 30 ELSE cfg.pollInterval
  IN  [cfg EXCEPT !.pollInterval = poll,
                  !.listenAddress = IF @ = None THEN ":9100" ELSE @,
                  !.scrapeTimeout = IF @ = 0 THEN 10 ELSE @,
                  !.stalenessLimit = IF @ = 0 THEN 3 * poll ELSE @]

\* Not the code: any interval will do.
KnownKeys(set, pollInterval) == DOMAIN set \subseteq CollectKeys

\* Known modules only, and no interval that the loop cannot keep.
validateCollect(set, pollInterval) ==
  \A k \in DOMAIN set : /\ k \in CollectKeys
                        /\ ~(set[k].interval > 0 /\ set[k].interval < pollInterval)

checkPasswordFile(path, files) == files[path] \notin NoSecret

\* The files of the listener are only looked for, not into.
validateListen(cfg, files) ==
  /\ ~(cfg.probeAddress # None /\ cfg.probeAddress = cfg.listenAddress)
  /\ (cfg.certFile # None) = (cfg.keyFile # None)
  /\ cfg.clientCAFile # None => cfg.certFile # None
  /\ \A path \in {cfg.certFile, cfg.keyFile, cfg.clientCAFile} \ {None} : files[path] # "missing"
  /\ cfg.hasBasic =>
       /\ cfg.basicUsername # None /\ cfg.basicPasswordFile # None
       /\ checkPasswordFile(cfg.basicPasswordFile, files)

hasCA(sw) == sw.caFile # None
hasPin(sw) == sw.pinnedCertSha256 # None

\* Exactly one way to deal with the certificate of the switch.
OneWayToVerify(sw) ==
  /\ ~(hasCA(sw) /\ hasPin(sw))
  /\ ~(sw.tlsSkipVerify /\ (hasCA(sw) \/ hasPin(sw)))
  /\ hasCA(sw) \/ hasPin(sw) \/ sw.tlsSkipVerify

validateSwitch(sw, cfg, files) ==
  LET file == EffectivePasswordFile(sw, cfg.passwordFile) IN
  /\ sw.host # None /\ sw.username # None
  /\ ~(sw.password # None /\ sw.passwordFile # None)
  /\ sw.password # None \/ file # None
  /\ file # None => checkPasswordFile(file, files)
  /\ Label(sw) # ReservedTarget
  /\ validateCollect(sw.collect, cfg.pollInterval)
  /\ sw.interfaceScope # "control character"
  /\ OneWayToVerify(sw)

\* The names of the levels and how they compare.
Levels == [debug |-> -4, info |-> 0, warn |-> 4, warning |-> 4, error |-> 8]
ParseLogLevel(name) == name \in DOMAIN Levels

validate(cfg, files) ==
  /\ ~cfg.globalSkipVerify
  /\ Len(cfg.switches) \in 1 .. MaxSwitches
  /\ cfg.hasCollect
  /\ validateCollect(cfg.collect, cfg.pollInterval)
  /\ cfg.logLevel # None => ParseLogLevel(cfg.logLevel)
  /\ validateListen(cfg, files)
  /\ \A i \in DOMAIN cfg.switches : validateSwitch(cfg.switches[i], cfg, files)

Loads(cfg, files) == Decodes(cfg) /\ validate(applyDefaults(cfg), files)

-----------------------------------------------------------------------------
(* The parts of a process                                                  *)

\* Labels are compared in NewStore, and nowhere before.
UniqueLabels(cfg) ==
  \A i, j \in DOMAIN cfg.switches : Label(cfg.switches[i]) = Label(cfg.switches[j]) => i = j

\* The password of a client is inline or re-read from its file, its way to verify
\* the certificate a pin before a bundle before none at all.  A timeout that is not
\* positive is none.
newClient(sw, cfg) ==
  LET file == EffectivePasswordFile(sw, cfg.passwordFile) IN
  [switch       |-> Label(sw),
   password     |-> IF file = None THEN sw.password ELSE None,
   passwordFile |-> file,
   timeout      |-> cfg.scrapeTimeout,
   verifies     |-> CASE hasPin(sw) -> "pin"
                      [] ~hasPin(sw) /\ hasCA(sw) -> "bundle"
                      [] ~hasPin(sw) /\ ~hasCA(sw) /\ sw.tlsSkipVerify -> "nothing"
                      [] OTHER -> "system"]

\* What makes newClient fail, before anything connects.
ClientBuilds(sw, cfg, files) ==
  LET file == EffectivePasswordFile(sw, cfg.passwordFile) IN
  /\ file # None => files[file] \notin NoSecret
  /\ ~(hasCA(sw) /\ hasPin(sw))
  /\ sw.pinnedCertSha256 # "malformed"
  /\ hasCA(sw) => files[sw.caFile] = "certificates"

\* protect: the password of the listener is read.
ProtectBuilds(cfg, files) == cfg.hasBasic => files[cfg.basicPasswordFile] \notin NoSecret

\* TLSConfig: the pair is loaded, so that its halves have to match, and the bundle
\* for client certificates is read.
TLSBuilds(cfg, files) ==
  /\ cfg.certFile = None /\ cfg.keyFile = None => cfg.clientCAFile = None
  /\ cfg.certFile # None =>
       /\ files[cfg.certFile] \in {"pair 1", "pair 2"}
       /\ files[cfg.keyFile] = files[cfg.certFile]
  /\ cfg.certFile # None /\ cfg.clientCAFile # None => files[cfg.clientCAFile] = "certificates"

resolveDebug(fromConfig, fromFlag) == IF fromFlag = None THEN fromConfig ELSE fromFlag = "true"

\* A flag before the configuration before the default; -debug before them all, and
\* -debug=false never leaves the level at debug.
resolveLevel(fromConfig, fromFlag, debug, debugOff) ==
  LET level == IF fromFlag # None THEN Levels[fromFlag]
               ELSE IF fromConfig # None THEN Levels[fromConfig]
               ELSE Levels.info
  IN  IF debug THEN Levels.debug
      ELSE IF debugOff /\ level < Levels.info THEN Levels.info
      ELSE level
=============================================================================
