------------------------------- MODULE Process -------------------------------
(***************************************************************************)
(* The life of a process (main.go): the check of a configuration that the  *)
(* service manager runs first, the start of every part of the exporter in  *)
(* turn, and the way down after a signal or a failure, with pollers and    *)
(* scrapes under way.                                                      *)
(***************************************************************************)
EXTENDS Configuration

CONSTANTS
  Starts,        \* a configuration file and a command line each
  Contents,      \* of every path: what it may lead to at the start
  Breakable,     \* paths that may stop being readable while a process starts
  BindMayFail,   \* whether an address may be taken
  MaxScrapes     \* the bound on scrapes at the same time, for TLC

ASSUME ProcessAssumption ==
  /\ BindMayFail \in BOOLEAN /\ MaxScrapes \in Nat
  /\ Breakable \subseteq DOMAIN Contents
  /\ \A s \in Starts :
       /\ "switches" \in DOMAIN s.config
       /\ Len(s.config.switches) \in Nat
       /\ DOMAIN s.config.switches = 1 .. Len(s.config.switches)

\* A configuration has all the fields of its type, whatever the file leaves out, with
\* values of theirs.
ASSUME FieldsAssumption ==
  \A s \in Starts :
    /\ {"collect", "passwordFile", "logLevel", "pollInterval", "scrapeTimeout", "stalenessLimit",
        "listenAddress"} \subseteq DOMAIN s.config
    /\ s.config.pollInterval \in Int /\ s.config.stalenessLimit \in Int
    /\ s.config.scrapeTimeout \in Int
    /\ \A k \in DOMAIN s.config.collect : s.config.collect[k].interval \in Int
    /\ \A i \in DOMAIN s.config.switches :
         LET sw == s.config.switches[i] IN
         /\ sw.tlsSkipVerify \in BOOLEAN
         /\ \A k \in DOMAIN sw.collect : sw.collect[k].interval \in Int

VARIABLES
  start,      \* the configuration as it is written, and the command line
  files,      \* what the paths lead to
  checked,    \* the verdict of arex -check
  changed,    \* history: a file was changed after the check
  pc,         \* how far main is
  cfg,        \* the configuration that was loaded
  level,      \* of the log
  schedule,   \* of every switch in the store: what it is asked
  clients,    \* built so far, in the order of the switches
  poller,     \* of every switch: its goroutine
  probes,     \* the probe listener
  server,     \* the listener of /metrics
  scrapes,    \* requests in progress
  cancelled,  \* the context of run
  hup,        \* a SIGHUP nobody has read yet
  expired,    \* history: the grace of the shutdown has passed
  exit        \* what the process ended with

env == <<start, files, checked, changed>>
parts == <<cfg, level, schedule, clients>>
goroutines == <<poller, probes, server, scrapes>>
signals == <<cancelled, hup>>
vars == <<env, pc, parts, goroutines, signals, expired, exit>>

Indices == DOMAIN start.config.switches
Clients == { newClient(start.config.switches[i], applyDefaults(start.config)) : i \in Indices }

Running == exit = "none"
At(place) == pc = place /\ Running

TypeOK ==
  /\ checked \in {"none", "passed", "failed"}
  /\ pc \in {"main", "load", "level", "store", "pollers", "protect", "tls", "probes",
             "serve", "select", "stop", "shutdown", "deferred"}
  /\ pc \notin {"main", "load"} =>
       cfg.pollInterval # 0 /\ cfg.stalenessLimit # 0 /\ cfg.listenAddress # None
  /\ level \in {-4, 0, 4, 8}
  /\ poller \in [Indices -> {"none", "offset", "first", "idle", "polling", "stopped"}]
  /\ clients \in Seq(Clients) /\ Len(clients) <= Len(start.config.switches)
  /\ probes \in {"none", "serving", "closed"}
  /\ server \in {"none", "starting", "serving", "failed", "draining", "closed"}
  /\ scrapes \in 0 .. MaxScrapes
  /\ cancelled \in BOOLEAN /\ hup \in BOOLEAN /\ changed \in BOOLEAN /\ expired \in BOOLEAN
  /\ exit \in {"none", "ok", "error", "crash", "killed"}

Init ==
  /\ start \in Starts
  /\ files = Contents
  /\ checked = "none" /\ changed = FALSE
  /\ pc = "main"
  /\ cfg = start.config /\ level = 0 /\ schedule = <<>> /\ clients = <<>>
  /\ poller = [i \in Indices |-> "none"]
  /\ probes = "none" /\ server = "none" /\ scrapes = 0
  /\ cancelled = FALSE /\ hup = FALSE /\ expired = FALSE
  /\ exit = "none"

-----------------------------------------------------------------------------
(* Around the process                                                      *)

\* main refuses a level no log has, checking or not.
LevelFlagParses == start.level # None => ParseLogLevel(start.level)

\* Not the code: the fleet's file is tried whether or not the switch reads it.
FleetFileReads(sw, loaded) == loaded.passwordFile # None => files[loaded.passwordFile] \notin NoSecret

CheckedClientBuilds(sw, loaded) == ClientBuilds(sw, loaded, files)

\* arex -check, on the same command line and with the same files.
checkConfig ==
  LET loaded == applyDefaults(start.config) IN
  /\ Loads(start.config, files)
  /\ \A i \in Indices : CheckedClientBuilds(start.config.switches[i], loaded)

Check ==
  /\ At("main") /\ checked = "none"
  /\ checked' = IF LevelFlagParses /\ checkConfig THEN "passed" ELSE "failed"
  /\ UNCHANGED <<start, files, changed, pc, parts, goroutines, signals, expired, exit>>

\* A file is removed, or its directory is remounted; once everything is started,
\* nothing of this module reads one again.
Break(path) ==
  /\ Running /\ pc # "select"
  /\ path \in Breakable /\ files[path] # "missing"
  /\ files' = [files EXCEPT ![path] = "missing"]
  /\ changed' = (checked # "none")
  /\ UNCHANGED <<start, checked, pc, parts, goroutines, signals, expired, exit>>

\* From its beginning run is told of signals, until it calls stop; a second one in
\* that time is dropped.
Notified == pc \notin {"main", "shutdown"} /\ server # "closed"

Kill ==
  /\ exit' = "killed"
  /\ UNCHANGED <<env, pc, parts, goroutines, signals, expired>>

Terminate ==
  /\ Running
  /\ IF Notified
     THEN cancelled' = TRUE /\ UNCHANGED <<env, pc, parts, goroutines, hup, expired, exit>>
     ELSE Kill

\* The channel holds one; SIGHUP stays caught until run returns.
Hangup ==
  /\ Running
  /\ IF pc # "main"
     THEN hup' = TRUE /\ UNCHANGED <<env, pc, parts, goroutines, cancelled, expired, exit>>
     ELSE Kill

-----------------------------------------------------------------------------
(* The start                                                               *)

Fail == exit' = "error" /\ UNCHANGED pc
Step(from, to, builds) ==
  /\ At(from)
  /\ IF builds THEN pc' = to /\ UNCHANGED exit ELSE Fail
  /\ UNCHANGED <<env, signals, expired>>

Main ==
  /\ Step("main", "load", LevelFlagParses)
  /\ UNCHANGED <<parts, goroutines>>

Load ==
  /\ Step("load", "level", Loads(start.config, files))
  /\ cfg' = applyDefaults(start.config)
  /\ UNCHANGED <<level, schedule, clients, goroutines>>

ResolveLevel ==
  /\ Step("level", "store", TRUE)
  /\ level' = resolveLevel(cfg.logLevel, start.level, resolveDebug(cfg.debug, start.debug),
                           start.debug = "false")
  /\ UNCHANGED <<cfg, schedule, clients, goroutines>>

NewStore ==
  /\ Step("store", "pollers", UniqueLabels(cfg))
  /\ schedule' = [i \in Indices |-> commandsFor(cfg.switches[i], cfg)]
  /\ UNCHANGED <<cfg, level, clients, goroutines>>

\* The next switch gets its client and its poller.
StartPoller ==
  LET i == Len(clients) + 1
      builds == ClientBuilds(cfg.switches[i], cfg, files)
  IN
  /\ At("pollers") /\ i \in Indices
  /\ IF builds
     THEN /\ clients' = Append(clients, newClient(cfg.switches[i], cfg))
          /\ poller' = [poller EXCEPT ![i] = "offset"]
          /\ UNCHANGED <<pc, exit>>
     ELSE Fail /\ UNCHANGED <<clients, poller>>
  /\ UNCHANGED <<env, signals, cfg, level, schedule, probes, server, scrapes, expired>>

AllPollersStarted ==
  /\ Len(clients) = Len(cfg.switches)
  /\ Step("pollers", "protect", TRUE)
  /\ UNCHANGED <<parts, goroutines>>

protect ==
  /\ Step("protect", "tls", ProtectBuilds(cfg, files))
  /\ UNCHANGED <<parts, goroutines>>

TLSConfig ==
  /\ Step("tls", "probes", TLSBuilds(cfg, files))
  /\ UNCHANGED <<parts, goroutines>>

\* The probe listener is bound before anything is served; its address may be taken.
startProbes ==
  /\ \E bound \in (IF BindMayFail /\ cfg.probeAddress # None THEN BOOLEAN ELSE {TRUE}) :
       /\ Step("probes", "serve", bound)
       /\ probes' = IF bound /\ cfg.probeAddress # None THEN "serving" ELSE probes
  /\ UNCHANGED <<parts, poller, server, scrapes>>

Serve ==
  /\ Step("serve", "select", TRUE)
  /\ server' = "starting"
  /\ UNCHANGED <<parts, poller, probes, scrapes>>

-----------------------------------------------------------------------------
(* The goroutines: pollers, the server and its scrapes                     *)

OnlyPollers == UNCHANGED <<env, pc, parts, probes, server, scrapes, signals, expired>>

\* PollLoop; a context that is done stops it between polls, and the select may
\* take a tick instead if there is one.
Poll(i) ==
  /\ Running
  /\ \/ /\ poller[i] = "offset"
        /\ poller' = [poller EXCEPT ![i] = "first"]
     \/ /\ poller[i] = "idle"
        /\ poller' = [poller EXCEPT ![i] = "polling"]
  /\ OnlyPollers /\ UNCHANGED exit

\* NewTicker panics for an interval that is not positive.
Polled(i) ==
  /\ Running
  /\ \/ /\ poller[i] = "first" /\ cfg.pollInterval <= 0
        /\ exit' = "crash"
        /\ UNCHANGED poller
     \/ /\ poller[i] = "polling" \/ (poller[i] = "first" /\ cfg.pollInterval > 0)
        /\ poller' = [poller EXCEPT ![i] = "idle"]
        /\ UNCHANGED exit
  /\ OnlyPollers

\* The wait for the offset is over at once if the context is done; an offset of 0
\* is not waited for.
StopPoller(i) ==
  /\ Running /\ cancelled
  /\ poller[i] = "idle" \/ (poller[i] = "offset" /\ i # 1)
  /\ poller' = [poller EXCEPT ![i] = "stopped"]
  /\ OnlyPollers /\ UNCHANGED exit

OnlyServer == UNCHANGED <<env, pc, parts, poller, probes, signals, expired, exit>>

\* ListenAndServe binds the address, or reports that it cannot.
Listen ==
  /\ Running /\ server = "starting"
  /\ server' \in {"serving"} \cup (IF BindMayFail THEN {"failed"} ELSE {})
  /\ UNCHANGED scrapes /\ OnlyServer

Scrape ==
  /\ Running /\ server = "serving" /\ scrapes < MaxScrapes
  /\ scrapes' = scrapes + 1
  /\ UNCHANGED server /\ OnlyServer

\* A scrape takes as long as its client reads.
EndScrape ==
  /\ Running /\ scrapes > 0
  /\ scrapes' = scrapes - 1
  /\ UNCHANGED server /\ OnlyServer

-----------------------------------------------------------------------------
(* The way down                                                            *)

\* The select of run, whichever of its cases is ready.
SelectServeErr ==
  /\ At("select") /\ server = "failed"
  /\ pc' = "deferred"
  /\ UNCHANGED <<env, parts, goroutines, signals, expired, exit>>

SelectHangup ==
  /\ At("select") /\ hup
  /\ hup' = FALSE
  /\ UNCHANGED <<env, pc, parts, goroutines, cancelled, expired, exit>>

SelectDone ==
  /\ At("select") /\ cancelled
  /\ pc' = "stop"
  /\ UNCHANGED <<env, parts, goroutines, signals, expired, exit>>

\* stop, and Shutdown closes the listener; it may not have been bound yet.
Stop ==
  /\ At("stop")
  /\ pc' = "shutdown"
  /\ server' = IF server = "failed" THEN "failed" ELSE "draining"
  /\ UNCHANGED <<env, parts, poller, probes, scrapes, signals, expired, exit>>

\* shutdownGrace passes while scrapes are in progress.
GraceExpires ==
  /\ At("shutdown") /\ scrapes > 0 /\ ~expired
  /\ expired' = TRUE
  /\ UNCHANGED <<env, pc, parts, goroutines, signals, exit>>

\* Not the code: what is in progress is dropped.
AtOnce == TRUE

\* Not the code: a shutdown is only over when nothing is in progress.
OnceDrained == scrapes = 0

ShutdownOver == scrapes = 0 \/ expired

Shutdown ==
  /\ At("shutdown") /\ ShutdownOver
  /\ server' = "closed"
  /\ pc' = "deferred"
  /\ UNCHANGED <<env, parts, poller, probes, scrapes, signals, expired, exit>>

\* run returns: the probe listener is shut down and the process ends, whatever its
\* goroutines are doing.
Return ==
  /\ At("deferred")
  /\ probes' = IF probes = "serving" THEN "closed" ELSE probes
  /\ exit' = IF server = "failed" THEN "error" ELSE "ok"
  /\ UNCHANGED <<env, pc, parts, poller, server, scrapes, signals, expired>>

-----------------------------------------------------------------------------
Starting ==
  \/ Main \/ Load \/ ResolveLevel \/ NewStore \/ StartPoller \/ AllPollersStarted
  \/ protect \/ TLSConfig \/ startProbes \/ Serve

Stopping == Stop \/ Shutdown \/ Return

Select == SelectServeErr \/ SelectDone

PollStep(i) == Poll(i) \/ Polled(i) \/ StopPoller(i)

Next ==
  \/ Check \/ Terminate \/ Hangup \/ \E path \in Breakable : Break(path)
  \/ Starting \/ Select \/ SelectHangup \/ GraceExpires \/ Stopping
  \/ Listen \/ Scrape \/ EndScrape
  \/ \E i \in Indices : PollStep(i)

Spec == Init /\ [][Next]_vars

\* main and the server run, the grace passes, and a select that has several cases
\* ready picks each of them again and again.  Nothing is assumed of scrapes, of
\* polls or of those who send signals.
Fairness ==
  /\ WF_vars(Starting) /\ WF_vars(Stopping) /\ WF_vars(Listen) /\ WF_vars(GraceExpires)
  /\ SF_vars(Select)

FairSpec == Spec /\ Fairness

-----------------------------------------------------------------------------
(* Correctness                                                             *)

\* Every client there is treats its switch the way the file says: verification is
\* off where that was asked for and nowhere else, and the password is the
\* switch's own, inline or in its file, before the fleet's.  A request has no limit
\* only where the file gives a negative one.
ClientsAsConfigured ==
  \A i \in DOMAIN clients :
    LET sw == start.config.switches[i] IN
    /\ (clients[i].verifies = "nothing") = sw.tlsSkipVerify
    /\ clients[i].verifies # "system"
    /\ clients[i].password = sw.password
    /\ clients[i].passwordFile = IF sw.password # None \/ sw.passwordFile # None
                                  THEN sw.passwordFile ELSE start.config.passwordFile
    /\ clients[i].password # None \/ clients[i].passwordFile # None
    /\ clients[i].timeout # 0
    /\ start.config.scrapeTimeout # 0 => clients[i].timeout = start.config.scrapeTimeout

\* The entry of a switch for a module, or that of the fleet.
Entry(i, module) ==
  LET sw == start.config.switches[i] IN
  IF module \in DOMAIN sw.collect THEN sw.collect[module] ELSE start.config.collect[module]

\* What a poller is given was asked for: a module that is enabled, at the interval
\* the file names if it names one, never between two ticks, and within the scope
\* if it is about interfaces.
AcceptedSchedule ==
  \A i \in DOMAIN schedule : \A c \in schedule[i] :
    /\ c.interval >= cfg.pollInterval
    /\ c.module # "version" =>
         /\ Entry(i, c.module).enabled = "yes"
         /\ Entry(i, c.module).interval # 0 => c.interval = Entry(i, c.module).interval
         /\ c.module \in Scoped => c.scope = start.config.switches[i].interfaceScope

\* What the check refuses does not run: with the same files and command line the
\* start fails as well, before anything is served.
CheckAgrees ==
  checked = "failed" /\ ~changed =>
    /\ pc \in {"main", "load", "level", "store", "pollers"}
    /\ server = "none" /\ probes = "none"

\* A process that ends in good order has finished every scrape, or given it
\* shutdownGrace to finish.
ScrapesAreDrained == exit = "ok" /\ scrapes > 0 => expired

\* Told to stop at any time of its life, or left without its listener, a process
\* ends: while it starts, through a flood of SIGHUPs, with a scrape that never
\* ends and with polls under way.
StopsWhenTold == cancelled \/ server = "failed" ~> ~Running

\* docs/operations.md of -check: it catches "the failures that otherwise surface
\* as a service that starts and immediately exits".
CheckedConfigStarts ==
  checked = "passed" /\ ~changed => exit \notin {"error", "crash"}

-----------------------------------------------------------------------------
(* The inductive invariant behind the first three                          *)

Loaded == pc \notin {"main", "load"}

\* What Load found to be in order and no file can undo.
LoadedInv ==
  Loaded =>
    /\ cfg = applyDefaults(start.config)
    /\ Decodes(start.config)
    /\ cfg.logLevel # None => ParseLogLevel(cfg.logLevel)
    /\ validateCollect(cfg.collect, cfg.pollInterval)
    /\ \A i \in Indices :
         LET sw == cfg.switches[i] IN
         /\ ~(sw.password # None /\ sw.passwordFile # None)
         /\ sw.password # None \/ EffectivePasswordFile(sw, cfg.passwordFile) # None
         /\ validateCollect(sw.collect, cfg.pollInterval)
         /\ OneWayToVerify(sw)

\* Every client and every part of the schedule was made of the loaded configuration.
PartsInv ==
  /\ \A i \in DOMAIN clients :
       Loaded /\ i \in Indices /\ clients[i] = newClient(cfg.switches[i], cfg)
  /\ \A i \in DOMAIN schedule :
       Loaded /\ i \in Indices /\ schedule[i] = commandsFor(cfg.switches[i], cfg)

IInv ==
  /\ start \in Starts /\ TypeOK
  /\ pc # "main" => LevelFlagParses
  /\ LoadedInv /\ PartsInv
=============================================================================
