---------------------------- MODULE ProcessProofs ----------------------------
(***************************************************************************)
(* What a process does about its configuration and its last scrapes, for   *)
(* every configuration, command line and content of the files.             *)
(***************************************************************************)
EXTENDS Process, TLAPS

Early == {"main", "load", "level", "store", "pollers"}

-----------------------------------------------------------------------------
(* The way down                                                            *)

DownInv ==
  /\ scrapes \in Nat
  /\ pc = "deferred" => server \in {"failed", "closed"}
  /\ pc = "deferred" /\ server = "closed" /\ scrapes > 0 => expired
  /\ exit = "ok" => pc = "deferred" /\ server = "closed"

LEMMA DownStep == DownInv /\ [Next]_vars => DownInv'
<1> SUFFICES ASSUME DownInv, [Next]_vars PROVE DownInv'
  OBVIOUS
<1> USE DEF DownInv, At, Running
<1>1. CASE Check
  BY <1>1 DEF Check, goroutines
<1>2. CASE Terminate
  BY <1>2 DEF Terminate, Kill, goroutines
<1>3. CASE Hangup
  BY <1>3 DEF Hangup, Kill, goroutines
<1>4. ASSUME NEW path \in Breakable, Break(path) PROVE DownInv'
  BY <1>4 DEF Break, goroutines
<1>5. CASE Starting
  <2>1. pc' # "deferred" /\ scrapes' = scrapes /\ exit' # "ok"
    BY <1>5 DEF Starting, Main, Load, ResolveLevel, NewStore, StartPoller, AllPollersStarted,
      protect, TLSConfig, startProbes, Serve, Step, Fail, goroutines
  <2>2. QED
    BY <2>1
<1>6. CASE Select
  BY <1>6 DEF Select, SelectServeErr, SelectDone, goroutines
<1>7. CASE SelectHangup
  BY <1>7 DEF SelectHangup, goroutines
<1>8. CASE GraceExpires
  BY <1>8 DEF GraceExpires, goroutines
<1>9. CASE Stop
  BY <1>9 DEF Stop
<1>10. CASE Shutdown
  BY <1>10 DEF Shutdown, ShutdownOver
<1>11. CASE Return
  BY <1>11 DEF Return
<1>12. CASE Listen \/ Scrape \/ EndScrape
  BY <1>12 DEF Listen, Scrape, EndScrape, OnlyServer
<1>13. ASSUME NEW i \in Indices, PollStep(i) PROVE DownInv'
  BY <1>13 DEF PollStep, Poll, Polled, StopPoller, OnlyPollers
<1>14. CASE UNCHANGED vars
  BY <1>14 DEF vars, goroutines
<1>15. QED
  BY <1>1, <1>2, <1>3, <1>4, <1>5, <1>6, <1>7, <1>8, <1>9, <1>10, <1>11, <1>12, <1>13, <1>14
    DEF Next, Stopping

\* Whatever the order of signals, scrapes and failures, a process that exits with 0
\* has let every scrape finish or has waited shutdownGrace (run, main.go).
THEOREM ScrapesMayFinish == Spec => []ScrapesAreDrained
<1>1. Init => DownInv
  BY DEF Init, DownInv
<1>2. DownInv => ScrapesAreDrained
  BY DEF DownInv, ScrapesAreDrained
<1>3. QED
  BY <1>1, <1>2, DownStep, PTL DEF Spec

-----------------------------------------------------------------------------
(* The check and the start                                                 *)

\* The check has refused the configuration, and the start reads what it read.
Refused == checked = "failed" /\ ~changed

Verdict == LevelFlagParses /\ checkConfig

BuildsSwitch(i) == ClientBuilds(start.config.switches[i], applyDefaults(start.config), files)

\* What a start that has come so far has found to be in order.
StartInv ==
  /\ start \in Starts
  /\ clients \in Seq(Clients)
  /\ pc # "main" => LevelFlagParses
  /\ pc \notin {"main", "load"} => cfg = applyDefaults(start.config)
  /\ pc \in Early \ {"pollers"} => clients = <<>>
  /\ pc \in Early => server = "none" /\ probes = "none"

RefusedInv ==
  Refused =>
    /\ ~Verdict
    /\ pc \in Early
    /\ pc \notin {"main", "load"} => Loads(start.config, files)
    /\ \A i \in 1 .. Len(clients) : BuildsSwitch(i)

LEMMA SwitchesStay ==
  ASSUME start \in Starts
  PROVE  /\ applyDefaults(start.config).switches = start.config.switches
         /\ Indices = 1 .. Len(start.config.switches) /\ Len(start.config.switches) \in Nat
BY ProcessAssumption DEF applyDefaults, Indices

LEMMA StartStep == StartInv /\ [Next]_vars => StartInv'
<1> SUFFICES ASSUME StartInv, [Next]_vars PROVE StartInv'
  OBVIOUS
<1> USE DEF StartInv, At, Running, Early
<1>1. start' = start
  BY DEF Next, Check, Terminate, Kill, Hangup, Break, Starting, Main, Load, ResolveLevel,
     NewStore,
    StartPoller, AllPollersStarted, protect, TLSConfig, startProbes, Serve, Step, Select,
    SelectServeErr, SelectDone, SelectHangup, GraceExpires, Stopping, Stop, Shutdown, Return,
    Listen, Scrape, EndScrape, OnlyServer, PollStep, Poll, Polled, StopPoller, OnlyPollers, vars, env
<1>2. Clients' = Clients /\ LevelFlagParses' = LevelFlagParses
  BY <1>1 DEF Clients, Indices, LevelFlagParses
<1>3. ASSUME UNCHANGED <<pc, cfg, clients, probes>>, server' = server \/ server # "none"
      PROVE  StartInv'
  BY <1>1, <1>2, <1>3
<1>4. ASSUME UNCHANGED <<pc, parts, goroutines>>
      PROVE  StartInv'
  BY <1>3, <1>4 DEF parts, goroutines
<1>5. CASE Check \/ Terminate \/ Hangup \/ SelectHangup \/ GraceExpires
  BY <1>4, <1>5 DEF Check, Terminate, Hangup, Kill, SelectHangup, GraceExpires, parts,
     goroutines
<1>6. ASSUME NEW path \in Breakable, Break(path) PROVE StartInv'
  BY <1>4, <1>6 DEF Break
<1>7. CASE Main
  BY <1>1, <1>2, <1>7 DEF Main, Step, Fail, parts, goroutines
<1>8. CASE Load
  <2>1. UNCHANGED <<clients, server, probes>> /\ cfg' = applyDefaults(start.config) /\ pc = "load"
    BY <1>8 DEF Load, Step, goroutines
  <2>2. pc' \in {"load", "level"}
    BY <1>8 DEF Load, Step, Fail
  <2>3. QED
    BY <1>1, <1>2, <2>1, <2>2
<1>9. CASE ResolveLevel \/ NewStore
  BY <1>1, <1>2, <1>9 DEF ResolveLevel, NewStore, Step, Fail, goroutines
<1>10. CASE StartPoller
  <2>1. /\ pc = "pollers" /\ pc' = "pollers" /\ UNCHANGED <<cfg, server, probes>>
        /\ \/ clients' = clients
           \/ /\ Len(clients) + 1 \in Indices
              /\ clients' = Append(clients, newClient(cfg.switches[Len(clients) + 1], cfg))
    BY <1>10 DEF StartPoller, Fail
  <2>2. clients' \in Seq(Clients)
    <3>1. ASSUME NEW i \in Indices
          PROVE  newClient(cfg.switches[i], cfg) \in Clients
      BY <2>1, SwitchesStay DEF Clients
    <3>2. QED
      BY <2>1, <3>1
  <2>3. QED
    BY <1>1, <1>2, <2>1, <2>2
<1>11. CASE AllPollersStarted \/ protect \/ TLSConfig \/ startProbes \/ Serve
  BY <1>1, <1>2, <1>11 DEF AllPollersStarted, protect, TLSConfig, startProbes, Serve,
     Step, Fail,
    parts, goroutines
<1>12. CASE Select \/ Stopping
  BY <1>1, <1>2, <1>12 DEF Select, SelectServeErr, SelectDone, Stopping, Stop, Shutdown, Return,
    parts, goroutines
<1>13. CASE Listen \/ Scrape \/ EndScrape
  BY <1>3, <1>13 DEF Listen, Scrape, EndScrape, OnlyServer, parts
<1>14. ASSUME NEW i \in Indices, PollStep(i) PROVE StartInv'
  BY <1>3, <1>14 DEF PollStep, Poll, Polled, StopPoller, OnlyPollers, parts
<1>15. CASE UNCHANGED vars
  BY <1>4, <1>15 DEF vars
<1>16. QED
  BY <1>5, <1>6, <1>7, <1>8, <1>9, <1>10, <1>11, <1>12, <1>13, <1>14, <1>15 DEF Next, Starting

\* Nothing but the check itself refuses, and files that change undo a refusal.
LEMMA RefusedBefore ==
  ASSUME [Next]_vars, ~Check
  PROVE  /\ Refused' => Refused /\ files' = files /\ start' = start
<1>1. ASSUME UNCHANGED env
      PROVE  Refused' => Refused /\ files' = files /\ start' = start
  BY <1>1, Zenon DEF env, Refused
<1>2. ASSUME NEW path \in Breakable, Break(path)
      PROVE  ~Refused'
  BY <1>2, Zenon DEF Break, Refused
<1>3. ASSUME ~\E path \in Breakable : Break(path)
      PROVE  UNCHANGED env
  BY <1>3 DEF Next, Terminate, Kill, Hangup, Starting, Main, Load, ResolveLevel, NewStore,
    StartPoller, AllPollersStarted, protect, TLSConfig, startProbes, Serve, Step, Select,
    SelectServeErr, SelectDone, SelectHangup, GraceExpires, Stopping, Stop, Shutdown, Return,
    Listen, Scrape, EndScrape, OnlyServer, PollStep, Poll, Polled, StopPoller, OnlyPollers, vars, env
<1>4. QED
  BY <1>1, <1>2, <1>3

LEMMA RefusedStep == StartInv /\ RefusedInv /\ [Next]_vars => RefusedInv'
<1> SUFFICES ASSUME StartInv, RefusedInv, [Next]_vars, Refused'
             PROVE  /\ ~Verdict'
                    /\ pc' \in Early
                    /\ pc' \notin {"main", "load"} => Loads(start.config, files)'
                    /\ \A i \in 1 .. Len(clients') : BuildsSwitch(i)'
  BY DEF RefusedInv
<1>1. CASE Check
  <2>1. /\ pc = "main" /\ pc' = pc /\ clients' = clients /\ clients = <<>>
        /\ start' = start /\ files' = files
    BY <1>1 DEF Check, At, parts, StartInv, Early
  <2>2. checked' = IF Verdict THEN "passed" ELSE "failed"
    BY <1>1 DEF Check, Verdict
  <2>3. ~Verdict
    BY <2>2 DEF Refused
  <2>4. ~Verdict'
    BY <2>1, <2>3 DEF Verdict, LevelFlagParses, checkConfig, CheckedClientBuilds, Indices
  <2>5. QED
    BY <2>1, <2>4 DEF Early
<1>2. CASE ~Check
  <2>1. Refused /\ files' = files /\ start' = start
    BY <1>2, RefusedBefore
  <2>2. /\ ~Verdict
        /\ pc \in Early
        /\ pc \notin {"main", "load"} => Loads(start.config, files)
        /\ \A i \in 1 .. Len(clients) : BuildsSwitch(i)
    BY <2>1 DEF RefusedInv
  <2>3. ~Verdict'
    BY <2>1, <2>2 DEF Verdict, LevelFlagParses, checkConfig, CheckedClientBuilds, Indices
  <2>4. \A i : BuildsSwitch(i)' = BuildsSwitch(i)
    BY <2>1 DEF BuildsSwitch
  <2>5. CASE UNCHANGED <<pc, clients>>
    BY <2>1, <2>2, <2>3, <2>4, <2>5
  <2>6. CASE Main \/ Load \/ ResolveLevel \/ NewStore
    <3>1. clients' = clients /\ pc' \in Early
      BY <2>2, <2>6 DEF Main, Load, ResolveLevel, NewStore, Step, Fail, parts, Early
    <3>2. pc' \notin {"main", "load"} => Loads(start.config, files)
      BY <2>2, <2>6 DEF Main, Load, ResolveLevel, NewStore, Step, Fail, At
    <3>3. QED
      BY <2>1, <2>2, <2>3, <2>4, <3>1, <3>2
  <2>7. CASE StartPoller
    <3>1. pc = "pollers" /\ pc' = "pollers"
      BY <2>7 DEF StartPoller, Fail, At
    <3>2. \/ clients' = clients
          \/ /\ clients' = Append(clients, newClient(cfg.switches[Len(clients) + 1], cfg))
             /\ ClientBuilds(cfg.switches[Len(clients) + 1], cfg, files)
      BY <2>7 DEF StartPoller, Fail
    <3>3. cfg = applyDefaults(start.config) /\ cfg.switches = start.config.switches
      BY <3>1, SwitchesStay DEF StartInv
    <3>4. \A i \in 1 .. Len(clients') : BuildsSwitch(i)
      <4>1. CASE clients' = clients
        BY <2>2, <4>1
      <4>2. CASE clients' # clients
        <5>1. Len(clients) \in Nat /\ Len(clients') = Len(clients) + 1
          BY <3>2, <4>2, <3>1, StartStep DEF StartInv
        <5>2. BuildsSwitch(Len(clients) + 1)
          BY <3>2, <3>3, <4>2 DEF BuildsSwitch
        <5>3. QED
          BY <2>2, <5>1, <5>2
      <4>3. QED
        BY <4>1, <4>2
    <3>5. QED
      BY <2>1, <2>2, <2>3, <2>4, <3>1, <3>4 DEF Early
  <2>8. CASE AllPollersStarted
    <3>1. pc = "pollers" /\ Len(clients) = Len(cfg.switches)
      BY <2>8 DEF AllPollersStarted, Step, At
    <3>2. cfg.switches = start.config.switches /\ Indices = 1 .. Len(clients)
      BY <3>1, SwitchesStay DEF StartInv
    <3>3. Verdict
      BY <2>2, <3>1, <3>2 DEF Verdict, checkConfig, CheckedClientBuilds, BuildsSwitch, StartInv
    <3>4. QED
      BY <2>2, <3>3
  <2>9. ~(protect \/ TLSConfig \/ startProbes \/ Serve \/ Select \/ Stopping)
    BY <2>2 DEF protect, TLSConfig, startProbes, Serve, Step, Select, SelectServeErr,
       SelectDone,
      Stopping, Stop, Shutdown, Return, At, Early
  <2>10. QED
    <3>1. ASSUME ~(Main \/ Load \/ ResolveLevel \/ NewStore \/ StartPoller \/ AllPollersStarted)
          PROVE  UNCHANGED <<pc, clients>>
      BY <1>2, <2>9, <3>1 DEF Next, Starting, Terminate, Kill, Hangup, Break, SelectHangup,
        GraceExpires, Listen, Scrape, EndScrape, OnlyServer, PollStep, Poll, Polled, StopPoller,
        OnlyPollers, parts, vars
    <3>2. QED
      BY <2>5, <2>6, <2>7, <2>8, <3>1
<1>3. QED
  BY <1>1, <1>2

\* A configuration that -check refuses does not start with the same files and
\* command line, whichever of its hundred settings is the reason: the check asks
\* for nothing that the start does not ask for (checkConfig and run, main.go).
THEOREM CheckRefusesRightly == Spec => []CheckAgrees
<1>1. Init => StartInv /\ RefusedInv
  <2> SUFFICES ASSUME Init PROVE StartInv /\ RefusedInv
    OBVIOUS
  <2>1. StartInv
    BY DEF Init, StartInv, Early
  <2>2. RefusedInv
    BY DEF Init, RefusedInv, Refused
  <2>3. QED
    BY <2>1, <2>2
<1>2. StartInv /\ RefusedInv => CheckAgrees
  BY DEF StartInv, RefusedInv, Refused, CheckAgrees, Early
<1>3. QED
  BY <1>1, <1>2, StartStep, RefusedStep, PTL DEF Spec

-----------------------------------------------------------------------------
(* What is built is what was configured                                    *)

\* What applyDefaults fills in, and what it leaves.
LEMMA DefaultsFilledIn ==
  ASSUME NEW config, \E s \in Starts : config = s.config
  PROVE  /\ applyDefaults(config).pollInterval \in Int /\ applyDefaults(config).pollInterval # 0
         /\ applyDefaults(config).stalenessLimit # 0
         /\ applyDefaults(config).listenAddress # None
         /\ applyDefaults(config).scrapeTimeout =
              IF config.scrapeTimeout = 0 THEN 10 ELSE config.scrapeTimeout
         /\ applyDefaults(config).switches = config.switches
         /\ applyDefaults(config).collect = config.collect
         /\ applyDefaults(config).passwordFile = config.passwordFile
<1>1. /\ {"collect", "passwordFile", "logLevel", "pollInterval", "scrapeTimeout",
          "stalenessLimit", "listenAddress", "switches"} \subseteq DOMAIN config
      /\ config.pollInterval \in Int /\ config.stalenessLimit \in Int
  BY FieldsAssumption, ProcessAssumption
<1> DEFINE poll == IF config.pollInterval = 0 THEN 30 ELSE config.pollInterval
<1>2. poll \in Int /\ poll # 0 /\ 3 * poll # 0
  BY <1>1
<1>3. /\ applyDefaults(config).pollInterval = poll
      /\ applyDefaults(config).listenAddress =
           IF config.listenAddress = None THEN ":9100" ELSE config.listenAddress
      /\ applyDefaults(config).scrapeTimeout =
           IF config.scrapeTimeout = 0 THEN 10 ELSE config.scrapeTimeout
      /\ applyDefaults(config).stalenessLimit =
           IF config.stalenessLimit = 0 THEN 3 * poll ELSE config.stalenessLimit
      /\ applyDefaults(config).switches = config.switches
      /\ applyDefaults(config).collect = config.collect
      /\ applyDefaults(config).passwordFile = config.passwordFile
  BY <1>1 DEF applyDefaults
<1>4. ":9100" # None
  BY DEF None
<1> HIDE DEF poll
<1>5. QED
  BY <1>2, <1>3, <1>4

\* An entry that names an interval is polled at it, and every module that is enabled
\* at no less than the poll interval.
LEMMA IntervalResolved ==
  ASSUME NEW module, NEW explicit \in Int, NEW pollInterval \in Int, explicit >= 0,
         ~(explicit > 0 /\ explicit < pollInterval)
  PROVE  /\ resolveInterval(module, explicit, pollInterval) \in Int
         /\ resolveInterval(module, explicit, pollInterval) >= pollInterval
         /\ explicit # 0 => resolveInterval(module, explicit, pollInterval) = explicit
<1>1. DefaultModuleInterval(module) \in Int
  BY DEF DefaultModuleInterval
<1>2. QED
  BY <1>1 DEF resolveInterval

\* The commands of a switch whose collect blocks were accepted.
LEMMA CommandsAccepted ==
  ASSUME NEW sw, NEW conf, conf.pollInterval \in Int,
         \A k \in DOMAIN sw.collect : sw.collect[k].interval \in Int,
         \A k \in DOMAIN conf.collect : conf.collect[k].interval \in Int,
         DecodesCollect(sw.collect), DecodesCollect(conf.collect),
         validateCollect(sw.collect, conf.pollInterval),
         validateCollect(conf.collect, conf.pollInterval),
         NEW c \in commandsFor(sw, conf)
  PROVE  LET entry == IF c.module \in DOMAIN sw.collect THEN sw.collect[c.module]
                                                        ELSE conf.collect[c.module]
         IN  /\ c.interval >= conf.pollInterval
             /\ c.module # "version" =>
                  /\ entry.enabled = "yes"
                  /\ entry.interval # 0 => c.interval = entry.interval
                  /\ c.module \in Scoped => c.scope = sw.interfaceScope
<1> DEFINE collect == EffectiveCollect(sw, conf.collect, conf.pollInterval)
<1>1. CASE c = [module |-> "version", nth |-> 1, interval |-> conf.pollInterval, scope |-> None]
  BY <1>1
<1>2. ASSUME NEW k \in DOMAIN collect, NEW n \in 1 .. CommandCount(k),
             c = [module   |-> k,
                  nth      |-> n,
                  interval |-> IF collect[k] <= 0 THEN conf.pollInterval ELSE collect[k],
                  scope    |-> IF k \in Scoped THEN sw.interfaceScope ELSE None]
      PROVE  LET entry == IF k \in DOMAIN sw.collect THEN sw.collect[k] ELSE conf.collect[k]
             IN  /\ c.interval >= conf.pollInterval
                 /\ entry.enabled = "yes"
                 /\ entry.interval # 0 => c.interval = entry.interval
                 /\ k \in Scoped => c.scope = sw.interfaceScope
  <2> DEFINE entry == IF k \in DOMAIN sw.collect THEN sw.collect[k] ELSE conf.collect[k]
  <2>1. collect = [m \in { m \in DOMAIN sw.collect \cup DOMAIN conf.collect :
                           (IF m \in DOMAIN sw.collect THEN sw.collect[m]
                                                       ELSE conf.collect[m]).enabled = "yes" } |->
                    resolveInterval(m, (IF m \in DOMAIN sw.collect THEN sw.collect[m]
                                        ELSE conf.collect[m]).interval, conf.pollInterval)]
    BY DEF EffectiveCollect
  <2> HIDE DEF collect
  <2>2. k \in DOMAIN sw.collect \cup DOMAIN conf.collect /\ entry.enabled = "yes"
    BY <1>2, <2>1
  <2>4. collect[k] = resolveInterval(k, entry.interval, conf.pollInterval)
    BY <2>1, <2>2
  <2>5. /\ entry.interval \in Int /\ entry.interval >= 0
        /\ ~(entry.interval > 0 /\ entry.interval < conf.pollInterval)
    <3>1. CASE k \in DOMAIN sw.collect
      BY <3>1 DEF DecodesCollect, validateCollect
    <3>2. CASE k \notin DOMAIN sw.collect
      BY <2>2, <3>2 DEF DecodesCollect, validateCollect
    <3>3. QED
      BY <3>1, <3>2
  <2> HIDE DEF entry
  <2>6. /\ collect[k] \in Int /\ collect[k] >= conf.pollInterval
        /\ entry.interval # 0 => collect[k] = entry.interval
    BY <2>4, <2>5, IntervalResolved
  <2>7. /\ c.interval = IF collect[k] <= 0 THEN conf.pollInterval ELSE collect[k]
        /\ k \in Scoped => c.scope = sw.interfaceScope
    BY <1>2
  <2>8. c.interval >= conf.pollInterval /\ (entry.interval # 0 => c.interval = entry.interval)
    BY <2>5, <2>6, <2>7
  <2>9. QED
    BY <2>2, <2>7, <2>8 DEF entry
<1>3. \/ c = [module |-> "version", nth |-> 1, interval |-> conf.pollInterval, scope |-> None]
      \/ \E k \in DOMAIN collect : \E n \in 1 .. CommandCount(k) :
           c = [module   |-> k,
                nth      |-> n,
                interval |-> IF collect[k] <= 0 THEN conf.pollInterval ELSE collect[k],
                scope    |-> IF k \in Scoped THEN sw.interfaceScope ELSE None]
  <2> HIDE DEF collect
  <2>1. commandsFor(sw, conf) =
          {[module |-> "version", nth |-> 1, interval |-> conf.pollInterval, scope |-> None]} \cup
          UNION {{[module   |-> k,
                   nth      |-> n,
                   interval |-> IF collect[k] <= 0 THEN conf.pollInterval ELSE collect[k],
                   scope    |-> IF k \in Scoped THEN sw.interfaceScope ELSE None]
                  : n \in 1 .. CommandCount(k)} : k \in DOMAIN collect}
    BY DEF commandsFor, collect
  <2>2. QED
    BY <2>1
<1>4. CASE \E k \in DOMAIN collect : \E n \in 1 .. CommandCount(k) :
           c = [module   |-> k,
                nth      |-> n,
                interval |-> IF collect[k] <= 0 THEN conf.pollInterval ELSE collect[k],
                scope    |-> IF k \in Scoped THEN sw.interfaceScope ELSE None]
  <2> HIDE DEF collect
  <2>1. PICK k \in DOMAIN collect : \E n \in 1 .. CommandCount(k) :
           c = [module   |-> k,
                nth      |-> n,
                interval |-> IF collect[k] <= 0 THEN conf.pollInterval ELSE collect[k],
                scope    |-> IF k \in Scoped THEN sw.interfaceScope ELSE None]
    BY <1>4
  <2>2. c.module = k
    BY <2>1
  <2>3. QED
    BY <1>2, <2>1, <2>2
<1>5. QED
  BY <1>1, <1>3, <1>4

\* A client that passed validation uses the switch's own password before the fleet's
\* and skips verification only where that is asked for.
LEMMA ClientAccepted ==
  ASSUME NEW sw, NEW conf, sw.tlsSkipVerify \in BOOLEAN,
         ~(sw.password # None /\ sw.passwordFile # None),
         sw.password # None \/ EffectivePasswordFile(sw, conf.passwordFile) # None,
         OneWayToVerify(sw)
  PROVE  LET client == newClient(sw, conf) IN
         /\ (client.verifies = "nothing") = sw.tlsSkipVerify
         /\ client.verifies # "system"
         /\ client.password = sw.password
         /\ client.passwordFile = IF sw.password # None \/ sw.passwordFile # None
                                   THEN sw.passwordFile ELSE conf.passwordFile
         /\ client.password # None \/ client.passwordFile # None
<1> DEFINE client == newClient(sw, conf)
           file == EffectivePasswordFile(sw, conf.passwordFile)
<1>1. /\ client.password = IF file = None THEN sw.password ELSE None
      /\ client.passwordFile = file
      /\ client.verifies = CASE hasPin(sw) -> "pin"
                             [] ~hasPin(sw) /\ hasCA(sw) -> "bundle"
                             [] ~hasPin(sw) /\ ~hasCA(sw) /\ sw.tlsSkipVerify -> "nothing"
                             [] OTHER -> "system"
  BY DEF newClient
<1>2. (client.verifies = "nothing") = sw.tlsSkipVerify /\ client.verifies # "system"
  <2>1. sw.tlsSkipVerify = TRUE \/ sw.tlsSkipVerify = FALSE
    BY Zenon
  <2>2. CASE sw.tlsSkipVerify = TRUE
    BY <1>1, <2>2 DEF OneWayToVerify
  <2>3. CASE sw.tlsSkipVerify = FALSE
    BY <1>1, <2>3 DEF OneWayToVerify
  <2>4. QED
    BY <2>1, <2>2, <2>3
<1>3. /\ client.password = sw.password
      /\ client.passwordFile = IF sw.password # None \/ sw.passwordFile # None
                                THEN sw.passwordFile ELSE conf.passwordFile
      /\ client.password # None \/ client.passwordFile # None
  BY <1>1 DEF EffectivePasswordFile
<1>4. QED
  BY <1>2, <1>3

\* What Load lets through.
LEMMA LoadLetsThrough ==
  ASSUME start \in Starts, Loads(start.config, files)
  PROVE  LET conf == applyDefaults(start.config) IN
         /\ Decodes(start.config)
         /\ conf.logLevel # None => ParseLogLevel(conf.logLevel)
         /\ validateCollect(conf.collect, conf.pollInterval)
         /\ \A i \in Indices :
              LET sw == conf.switches[i] IN
              /\ ~(sw.password # None /\ sw.passwordFile # None)
              /\ sw.password # None \/ EffectivePasswordFile(sw, conf.passwordFile) # None
              /\ validateCollect(sw.collect, conf.pollInterval)
              /\ OneWayToVerify(sw)
<1> DEFINE conf == applyDefaults(start.config)
<1>1. Decodes(start.config) /\ validate(conf, files)
  BY DEF Loads
<1>2. DOMAIN conf.switches = Indices
  BY DefaultsFilledIn DEF Indices
<1> HIDE DEF conf
<1>3. \A i \in Indices : validateSwitch(conf.switches[i], conf, files)
  BY <1>1, <1>2 DEF validate
<1>4. ASSUME NEW sw, validateSwitch(sw, conf, files)
      PROVE  /\ ~(sw.password # None /\ sw.passwordFile # None)
             /\ sw.password # None \/ EffectivePasswordFile(sw, conf.passwordFile) # None
             /\ validateCollect(sw.collect, conf.pollInterval)
             /\ OneWayToVerify(sw)
  BY <1>4 DEF validateSwitch
<1>5. /\ conf.logLevel # None => ParseLogLevel(conf.logLevel)
      /\ validateCollect(conf.collect, conf.pollInterval)
  BY <1>1 DEF validate
<1>6. QED
  BY <1>1, <1>3, <1>4, <1>5 DEF conf

\* The log has a level, whoever named it.
LEMMA LevelResolved ==
  ASSUME NEW fromConfig, NEW fromFlag, NEW debug, NEW debugOff,
         fromConfig # None => ParseLogLevel(fromConfig),
         fromFlag # None => ParseLogLevel(fromFlag)
  PROVE  resolveLevel(fromConfig, fromFlag, debug, debugOff) \in {-4, 0, 4, 8}
<1>1. \A name \in DOMAIN Levels : Levels[name] \in {-4, 0, 4, 8}
  BY DEF Levels
<1>2. Levels.info \in {-4, 0, 4, 8} /\ Levels.debug \in {-4, 0, 4, 8}
  BY DEF Levels
<1>3. QED
  BY <1>1, <1>2 DEF resolveLevel, ParseLogLevel

-----------------------------------------------------------------------------
\* A step that leaves what has been built alone.
LEMMA PartsStay ==
  ASSUME IInv, start' = start, cfg' = cfg, clients' = clients, schedule' = schedule,
         Loaded' <=> Loaded
  PROVE  LoadedInv' /\ PartsInv'
<1>1. Indices' = Indices
  BY DEF Indices
<1>2. LoadedInv'
  BY <1>1 DEF IInv, LoadedInv
<1>3. PartsInv'
  BY <1>1 DEF IInv, PartsInv
<1>4. QED
  BY <1>2, <1>3

LEMMA StartStays == [Next]_vars => start' = start
BY DEF Next, Check, Terminate, Kill, Hangup, Break, Starting, Main, Load, ResolveLevel,
   NewStore,
  StartPoller, AllPollersStarted, protect, TLSConfig, startProbes, Serve, Step, Select,
  SelectServeErr, SelectDone, SelectHangup, GraceExpires, Stopping, Stop, Shutdown, Return,
  Listen, Scrape, EndScrape, OnlyServer, PollStep, Poll, Polled, StopPoller, OnlyPollers, vars, env

\* What Load, NewStore and StartPoller build; nobody else builds anything.
LEMMA PartsStep ==
  ASSUME IInv, [Next]_vars
  PROVE  LoadedInv' /\ PartsInv'
<1>0. start' = start /\ Indices' = Indices /\ start \in Starts
  BY StartStays DEF Indices, IInv
<1> USE DEF At, Running
<1>1. CASE Load
  <2>1. /\ clients' = clients /\ schedule' = schedule /\ cfg' = applyDefaults(start.config)
        /\ pc = "load" /\ pc' \in {"load", "level"}
        /\ pc' = "level" => Loads(start.config, files)
    BY <1>1 DEF Load, Step, Fail
  <2>2. LoadedInv'
    <3>1. CASE pc' = "load"
      BY <3>1 DEF LoadedInv, Loaded
    <3>2. CASE pc' = "level"
      BY <1>0, <2>1, <3>2, LoadLetsThrough DEF LoadedInv
    <3>3. QED
      BY <2>1, <3>1, <3>2
  <2>3. PartsInv'
    BY <2>1 DEF IInv, PartsInv, Loaded
  <2>4. QED
    BY <2>2, <2>3
<1>2. CASE NewStore
  <2>1. /\ cfg' = cfg /\ clients' = clients /\ pc = "store" /\ pc' \in {"store", "pollers"}
        /\ schedule' = [i \in Indices |-> commandsFor(cfg.switches[i], cfg)]
    BY <1>2 DEF NewStore, Step, Fail
  <2>2. Loaded /\ Loaded'
    BY <2>1 DEF Loaded
  <2>3. LoadedInv'
    BY <1>0, <2>1, <2>2 DEF IInv, LoadedInv
  <2>4. PartsInv'
    BY <1>0, <2>1, <2>2 DEF IInv, PartsInv
  <2>5. QED
    BY <2>3, <2>4
<1>3. CASE StartPoller
  <2>1. /\ cfg' = cfg /\ schedule' = schedule /\ pc = "pollers" /\ pc' = "pollers"
        /\ Len(clients) + 1 \in Indices
        /\ \/ clients' = clients
           \/ clients' = Append(clients, newClient(cfg.switches[Len(clients) + 1], cfg))
    BY <1>3 DEF StartPoller, Fail
  <2>2. Loaded /\ Loaded'
    BY <2>1 DEF Loaded
  <2>3. LoadedInv'
    BY <1>0, <2>1, <2>2 DEF IInv, LoadedInv
  <2>4. ASSUME NEW i \in DOMAIN clients'
        PROVE  i \in Indices /\ clients'[i] = newClient(cfg.switches[i], cfg)
    <3>1. \A j \in DOMAIN clients : j \in Indices /\ clients[j] = newClient(cfg.switches[j], cfg)
      BY DEF IInv, PartsInv
    <3>2. clients \in Seq(Clients)
      BY DEF IInv, TypeOK
    <3>3. CASE clients' = clients
      BY <2>4, <3>1, <3>3
    <3>4. CASE clients' = Append(clients, newClient(cfg.switches[Len(clients) + 1], cfg))
      <4>1. \/ i \in DOMAIN clients /\ clients'[i] = clients[i]
            \/ i = Len(clients) + 1 /\ clients'[i] = newClient(cfg.switches[Len(clients) + 1], cfg)
        BY <2>4, <3>2, <3>4
      <4>2. QED
        BY <2>1, <3>1, <4>1
    <3>5. QED
      BY <2>1, <3>3, <3>4
  <2>5. PartsInv'
    BY <1>0, <2>1, <2>2, <2>4 DEF IInv, PartsInv
  <2>6. QED
    BY <2>3, <2>5
<1>4. CASE ~(Load \/ NewStore \/ StartPoller)
  <2>1. UNCHANGED <<cfg, clients, schedule>>
    BY <1>4 DEF Next, Check, Terminate, Kill, Hangup, Break, Starting, Main, ResolveLevel,
      AllPollersStarted, protect, TLSConfig, startProbes, Serve, Step, Select,
      SelectServeErr, SelectDone, SelectHangup, GraceExpires, Stopping, Stop, Shutdown, Return,
      Listen, Scrape, EndScrape, OnlyServer, PollStep, Poll, Polled, StopPoller, OnlyPollers,
      vars, parts
  <2>2. Loaded' <=> Loaded
    BY <1>4 DEF Next, Check, Terminate, Kill, Hangup, Break, Starting, Main, ResolveLevel,
      AllPollersStarted, protect, TLSConfig, startProbes, Serve, Step, Fail, Select,
      SelectServeErr, SelectDone, SelectHangup, GraceExpires, Stopping, Stop, Shutdown, Return,
      Listen, Scrape, EndScrape, OnlyServer, PollStep, Poll, Polled, StopPoller, OnlyPollers,
      vars, Loaded
  <2>3. QED
    BY <1>0, <2>1, <2>2, PartsStay
<1>5. QED
  BY <1>1, <1>2, <1>3, <1>4

-----------------------------------------------------------------------------
\* The types, by who changes what.
PlaceType ==
  pc \in {"main", "load", "level", "store", "pollers", "protect", "tls", "probes",
          "serve", "select", "stop", "shutdown", "deferred"}

ServiceType ==
  /\ probes \in {"none", "serving", "closed"}
  /\ server \in {"none", "starting", "serving", "failed", "draining", "closed"}
  /\ scrapes \in 0 .. MaxScrapes
  /\ exit \in {"none", "ok", "error", "crash", "killed"}
  /\ checked \in {"none", "passed", "failed"}

HistoryType ==
  cancelled \in BOOLEAN /\ hup \in BOOLEAN /\ changed \in BOOLEAN /\ expired \in BOOLEAN

PollerType ==
  poller \in [Indices -> {"none", "offset", "first", "idle", "polling", "stopped"}]

ClientType == clients \in Seq(Clients) /\ Len(clients) <= Len(start.config.switches)

LEMMA PlaceStep ==
  ASSUME IInv, [Next]_vars
  PROVE  PlaceType'
BY DEF Next, Check, Terminate, Kill, Hangup, Break, Starting, Main, Load, ResolveLevel,
   NewStore,
  StartPoller, AllPollersStarted, protect, TLSConfig, startProbes, Serve, Step, Fail, Select,
  SelectServeErr, SelectDone, SelectHangup, GraceExpires, Stopping, Stop, Shutdown, Return,
  Listen, Scrape, EndScrape, OnlyServer, PollStep, Poll, Polled, StopPoller, OnlyPollers, vars,
  IInv, TypeOK, PlaceType

LEMMA ServiceStep ==
  ASSUME IInv, [Next]_vars
  PROVE  ServiceType'
<1>0. ServiceType /\ MaxScrapes \in Nat
  BY ProcessAssumption DEF IInv, TypeOK, ServiceType
<1> USE DEF ServiceType
<1>1. CASE Check
  BY <1>0, <1>1 DEF Check, goroutines
<1>2. CASE Terminate \/ Hangup \/ SelectHangup \/ GraceExpires
  BY <1>0, <1>2 DEF Terminate, Kill, Hangup, SelectHangup, GraceExpires, env, goroutines
<1>3. ASSUME NEW path \in Breakable, Break(path) PROVE ServiceType'
  BY <1>0, <1>3 DEF Break, goroutines
<1>4. CASE Starting
  BY <1>0, <1>4 DEF Starting, Main, Load, ResolveLevel, NewStore, StartPoller,
     AllPollersStarted,
    protect, TLSConfig, startProbes, Serve, Step, Fail, env, goroutines
<1>5. CASE Select \/ Stopping
  BY <1>0, <1>5 DEF Select, SelectServeErr, SelectDone, Stopping, Stop, Shutdown, Return,
     env, goroutines
<1>6. CASE Listen \/ Scrape \/ EndScrape
  BY <1>0, <1>6 DEF Listen, Scrape, EndScrape, OnlyServer, env
<1>7. ASSUME NEW i \in Indices, PollStep(i) PROVE ServiceType'
  BY <1>0, <1>7 DEF PollStep, Poll, Polled, StopPoller, OnlyPollers, env
<1>8. CASE UNCHANGED vars
  BY <1>0, <1>8 DEF vars, env, goroutines
<1>9. QED
  BY <1>1, <1>2, <1>3, <1>4, <1>5, <1>6, <1>7, <1>8 DEF Next

LEMMA HistoryStep ==
  ASSUME IInv, [Next]_vars
  PROVE  HistoryType'
<1>0. /\ cancelled \in BOOLEAN /\ hup \in BOOLEAN /\ changed \in BOOLEAN /\ expired \in BOOLEAN
  BY Zenon DEF IInv, TypeOK
<1>1. /\ cancelled' = cancelled \/ cancelled' = TRUE
      /\ hup' = hup \/ hup' = TRUE \/ hup' = FALSE
      /\ expired' = expired \/ expired' = TRUE
  BY DEF Next, Check, Terminate, Kill, Hangup, Break, Starting, Main, Load, ResolveLevel,
     NewStore,
    StartPoller, AllPollersStarted, protect, TLSConfig, startProbes, Serve, Step, Select,
    SelectServeErr, SelectDone, SelectHangup, GraceExpires, Stopping, Stop, Shutdown, Return,
    Listen, Scrape, EndScrape, OnlyServer, PollStep, Poll, Polled, StopPoller, OnlyPollers,
    vars, signals
<1>2. changed' \in BOOLEAN
  <2>1. CASE \E path \in Breakable : Break(path)
    BY <2>1, Zenon DEF Break
  <2>2. CASE ~\E path \in Breakable : Break(path)
    <3>1. changed' = changed
      BY <2>2 DEF Next, Check, Terminate, Kill, Hangup, Starting, Main, Load,
         ResolveLevel, NewStore,
        StartPoller, AllPollersStarted, protect, TLSConfig, startProbes, Serve, Step, Select,
        SelectServeErr, SelectDone, SelectHangup, GraceExpires, Stopping, Stop, Shutdown, Return,
        Listen, Scrape, EndScrape, OnlyServer, PollStep, Poll, Polled, StopPoller, OnlyPollers,
        vars, env
    <3>2. QED
      BY <1>0, <3>1, Zenon
  <2>3. QED
    BY <2>1, <2>2
<1>3. QED
  BY <1>0, <1>1, <1>2, Zenon DEF HistoryType

LEMMA BuiltStep ==
  ASSUME IInv, [Next]_vars
  PROVE  PollerType' /\ ClientType' /\ level' \in {-4, 0, 4, 8}
<1>0. /\ PollerType /\ ClientType /\ level \in {-4, 0, 4, 8} /\ start \in Starts
      /\ Clients' = Clients /\ Indices' = Indices /\ start' = start
  BY StartStays DEF IInv, TypeOK, PollerType, ClientType, Clients, Indices
<1>1. PollerType'
  BY <1>0 DEF PollerType, Next, Check, Terminate, Kill, Hangup, Break, Starting, Main, Load,
    ResolveLevel, NewStore,
    StartPoller, AllPollersStarted, protect, TLSConfig, startProbes, Serve, Step, Fail, Select,
    SelectServeErr, SelectDone, SelectHangup, GraceExpires, Stopping, Stop, Shutdown, Return,
    Listen, Scrape, EndScrape, OnlyServer, PollStep, Poll, Polled, StopPoller, OnlyPollers,
    vars, goroutines
<1>2. ClientType'
  <2>1. CASE StartPoller
    <3>1. /\ cfg = applyDefaults(start.config) /\ Len(clients) + 1 \in Indices
          /\ \/ clients' = clients
             \/ clients' = Append(clients, newClient(cfg.switches[Len(clients) + 1], cfg))
      BY <2>1 DEF StartPoller, At, Fail, IInv, LoadedInv, Loaded
    <3>2. newClient(cfg.switches[Len(clients) + 1], cfg) \in Clients
      BY <1>0, <3>1, SwitchesStay DEF Clients
    <3>3. Len(clients) + 1 <= Len(start.config.switches)
      BY <1>0, <3>1, SwitchesStay
    <3>4. QED
      BY <1>0, <3>1, <3>2, <3>3 DEF ClientType
  <2>2. CASE ~StartPoller
    <3>1. clients' = clients
      BY <2>2 DEF Next, Check, Terminate, Kill, Hangup, Break, Starting, Main, Load,
         ResolveLevel,
        NewStore, AllPollersStarted, protect, TLSConfig, startProbes, Serve, Select,
        SelectServeErr, SelectDone, SelectHangup, GraceExpires, Stopping, Stop, Shutdown, Return,
        Listen, Scrape, EndScrape, OnlyServer, PollStep, Poll, Polled, StopPoller, OnlyPollers,
        vars, parts
    <3>2. QED
      BY <1>0, <3>1 DEF ClientType
  <2>3. QED
    BY <2>1, <2>2
<1>3. level' \in {-4, 0, 4, 8}
  <2>1. CASE ResolveLevel
    <3>1. /\ cfg.logLevel # None => ParseLogLevel(cfg.logLevel)
          /\ start.level # None => ParseLogLevel(start.level)
          /\ level' = resolveLevel(cfg.logLevel, start.level, resolveDebug(cfg.debug, start.debug),
                                   start.debug = "false")
      BY <2>1 DEF ResolveLevel, Step, At, IInv, LoadedInv, Loaded, LevelFlagParses
    <3>2. QED
      BY <3>1, LevelResolved
  <2>2. CASE ~ResolveLevel
    <3>1. level' = level
      BY <2>2 DEF Next, Check, Terminate, Kill, Hangup, Break, Starting, Main, Load, NewStore,
        StartPoller, AllPollersStarted, protect, TLSConfig, startProbes, Serve, Select,
        SelectServeErr, SelectDone, SelectHangup, GraceExpires, Stopping, Stop, Shutdown, Return,
        Listen, Scrape, EndScrape, OnlyServer, PollStep, Poll, Polled, StopPoller, OnlyPollers,
        vars, parts
    <3>2. QED
      BY <1>0, <3>1
  <2>3. QED
    BY <2>1, <2>2
<1>4. QED
  BY <1>1, <1>2, <1>3

\* Whatever the configuration and whatever happens, every part of the process is of
\* its type and made of the configuration that was loaded.
THEOREM Invariance == Spec => []IInv
<1>1. Init => IInv
  <2> SUFFICES ASSUME Init PROVE IInv
    OBVIOUS
  <2>1. LoadedInv /\ PartsInv
    BY DEF Init, LoadedInv, PartsInv, Loaded
  <2>2. cancelled \in BOOLEAN /\ hup \in BOOLEAN /\ changed \in BOOLEAN /\ expired \in BOOLEAN
    BY Zenon DEF Init
  <2>3. TypeOK
    BY <2>2, ProcessAssumption, SwitchesStay DEF Init, TypeOK
  <2>4. QED
    BY <2>1, <2>3 DEF Init, IInv
<1>2. IInv /\ [Next]_vars => IInv'
  <2>1. SUFFICES ASSUME IInv, [Next]_vars
                 PROVE  IInv'
    OBVIOUS
  <2>2. LoadedInv' /\ PartsInv' /\ start' \in Starts
    BY <2>1, PartsStep, StartStays DEF IInv
  <2>3. pc' # "main" => LevelFlagParses'
    <3>1. LevelFlagParses' = LevelFlagParses
      BY <2>1, StartStays DEF LevelFlagParses
    <3>2. pc' # "main" => pc # "main" \/ LevelFlagParses
      BY <2>1 DEF Next, Check, Terminate, Kill, Hangup, Break, Starting, Main, Load,
         ResolveLevel,
        NewStore, StartPoller, AllPollersStarted, protect, TLSConfig, startProbes, Serve, Step, Fail,
        Select, SelectServeErr, SelectDone, SelectHangup, GraceExpires, Stopping, Stop, Shutdown,
        Return, Listen, Scrape, EndScrape, OnlyServer, PollStep, Poll, Polled, StopPoller,
        OnlyPollers, vars, At
    <3>3. QED
      BY <2>1, <3>1, <3>2 DEF IInv
  <2>4. pc' \notin {"main", "load"} =>
          cfg'.pollInterval # 0 /\ cfg'.stalenessLimit # 0 /\ cfg'.listenAddress # None
    BY <2>2, DefaultsFilledIn DEF LoadedInv, Loaded
  <2>5. PlaceType' /\ ServiceType' /\ HistoryType' /\ PollerType' /\ ClientType'
        /\ level' \in {-4, 0, 4, 8}
    BY <2>1, PlaceStep, ServiceStep, HistoryStep, BuiltStep
  <2>6. TypeOK'
    BY <2>4, <2>5 DEF TypeOK, PlaceType, ServiceType, HistoryType, PollerType, ClientType
  <2>7. QED
    BY <2>2, <2>3, <2>6 DEF IInv
<1>3. QED
  BY <1>1, <1>2, PTL DEF Spec

\* Every variable keeps its type: the log always has a level, and once loaded the
\* configuration no zero that stands for a default.
THEOREM TypeCorrect == Spec => []TypeOK
<1>1. IInv => TypeOK
  BY DEF IInv
<1>2. QED
  BY <1>1, Invariance, PTL

\* No configuration makes a client skip verification unasked or takes the fleet's
\* password before the switch's own.
THEOREM ClientsAreAsConfigured == Spec => []ClientsAsConfigured
<1>1. ASSUME IInv, NEW i \in DOMAIN clients
      PROVE  LET sw == start.config.switches[i] IN
             /\ (clients[i].verifies = "nothing") = sw.tlsSkipVerify
             /\ clients[i].verifies # "system"
             /\ clients[i].password = sw.password
             /\ clients[i].passwordFile = IF sw.password # None \/ sw.passwordFile # None
                                           THEN sw.passwordFile ELSE start.config.passwordFile
             /\ clients[i].password # None \/ clients[i].passwordFile # None
             /\ clients[i].timeout # 0
             /\ start.config.scrapeTimeout # 0 => clients[i].timeout = start.config.scrapeTimeout
  <2> DEFINE sw == cfg.switches[i]
  <2>1. Loaded /\ i \in Indices /\ clients[i] = newClient(sw, cfg)
    BY <1>1 DEF IInv, PartsInv
  <2>2. cfg = applyDefaults(start.config)
    BY <1>1, <2>1 DEF IInv, LoadedInv
  <2>3. sw = start.config.switches[i] /\ cfg.passwordFile = start.config.passwordFile
    BY <1>1, <2>2, DefaultsFilledIn DEF IInv
  <2>t. clients[i].timeout = IF start.config.scrapeTimeout = 0 THEN 10
                                                               ELSE start.config.scrapeTimeout
    BY <1>1, <2>1, <2>2, DefaultsFilledIn DEF IInv, newClient
  <2>4. sw.tlsSkipVerify \in BOOLEAN
    BY <1>1, <2>1, <2>3, FieldsAssumption DEF IInv, Indices
  <2>5. /\ ~(sw.password # None /\ sw.passwordFile # None)
        /\ sw.password # None \/ EffectivePasswordFile(sw, cfg.passwordFile) # None
        /\ OneWayToVerify(sw)
    BY <1>1, <2>1 DEF IInv, LoadedInv
  <2> HIDE DEF sw
  <2>6. QED
    BY <2>1, <2>3, <2>t, <2>4, <2>5, ClientAccepted
<1>2. IInv => ClientsAsConfigured
  BY <1>1 DEF ClientsAsConfigured
<1>3. QED
  BY <1>2, Invariance, PTL

\* No configuration makes a poller ask for a module that is disabled, at another
\* interval than was asked for, or for interfaces out of the switch's scope.
THEOREM SchedulesAreAsConfigured == Spec => []AcceptedSchedule
<1>1. ASSUME IInv, NEW i \in DOMAIN schedule, NEW c \in schedule[i]
      PROVE  /\ c.interval >= cfg.pollInterval
             /\ c.module # "version" =>
                  /\ Entry(i, c.module).enabled = "yes"
                  /\ Entry(i, c.module).interval # 0 => c.interval = Entry(i, c.module).interval
                  /\ c.module \in Scoped => c.scope = start.config.switches[i].interfaceScope
  <2> DEFINE sw == cfg.switches[i]
  <2>1. Loaded /\ i \in Indices /\ c \in commandsFor(sw, cfg)
    BY <1>1 DEF IInv, PartsInv
  <2>2. cfg = applyDefaults(start.config) /\ Decodes(start.config)
    BY <1>1, <2>1 DEF IInv, LoadedInv
  <2>3. /\ sw = start.config.switches[i] /\ cfg.collect = start.config.collect
        /\ cfg.pollInterval \in Int
    BY <1>1, <2>2, DefaultsFilledIn DEF IInv
  <2>4. /\ \A k \in DOMAIN sw.collect : sw.collect[k].interval \in Int
        /\ \A k \in DOMAIN cfg.collect : cfg.collect[k].interval \in Int
    BY <1>1, <2>1, <2>3, FieldsAssumption DEF IInv, Indices
  <2>5. DecodesCollect(sw.collect) /\ DecodesCollect(cfg.collect)
    BY <2>1, <2>2, <2>3 DEF Decodes, Indices
  <2>6. /\ validateCollect(sw.collect, cfg.pollInterval)
        /\ validateCollect(cfg.collect, cfg.pollInterval)
    BY <1>1, <2>1 DEF IInv, LoadedInv
  <2> HIDE DEF sw
  <2>7. Entry(i, c.module) = IF c.module \in DOMAIN sw.collect THEN sw.collect[c.module]
                                                               ELSE cfg.collect[c.module]
    BY <2>3 DEF Entry
  <2>8. LET entry == IF c.module \in DOMAIN sw.collect THEN sw.collect[c.module]
                                                       ELSE cfg.collect[c.module]
        IN  /\ c.interval >= cfg.pollInterval
            /\ c.module # "version" =>
                 /\ entry.enabled = "yes"
                 /\ entry.interval # 0 => c.interval = entry.interval
                 /\ c.module \in Scoped => c.scope = sw.interfaceScope
    BY <2>1, <2>3, <2>4, <2>5, <2>6, CommandsAccepted
  <2>9. QED
    BY <2>3, <2>7, <2>8
<1>2. IInv => AcceptedSchedule
  BY <1>1 DEF AcceptedSchedule
<1>3. QED
  BY <1>2, Invariance, PTL
=============================================================================
