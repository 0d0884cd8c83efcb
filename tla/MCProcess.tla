------------------------------ MODULE MCProcess ------------------------------
(***************************************************************************)
(* Process for configurations that differ from a sound one in a setting or *)
(* in several that bear on each other.                                     *)
(***************************************************************************)
EXTENDS Process

Nothing == [k \in {} |-> 0]
On(interval) == [enabled |-> "yes", interval |-> interval]
Off == [enabled |-> "no", interval |-> 0]
Unsaid == [enabled |-> "unsaid", interval |-> 0]

\* The paths a configuration may name.
Files ==
  [own |-> "secret", fleet |-> "secret", scraper |-> "secret", blank |-> "empty",
   cert |-> "pair 1", key |-> "pair 1", otherKey |-> "pair 2",
   bundle |-> "certificates", junk |-> "text", gone |-> "missing"]

Spine(name) ==
  [host |-> name, name |-> None, username |-> "monitor", password |-> "inline", passwordFile |-> None,
   tlsSkipVerify |-> FALSE, caFile |-> None, pinnedCertSha256 |-> "pin", collect |-> Nothing,
   interfaceScope |-> None]

Sound ==
  [parses |-> TRUE, globalSkipVerify |-> FALSE, hasCollect |-> TRUE,
   collect |-> [interfaces |-> On(0), phy |-> On(0)], pollInterval |-> 0, scrapeTimeout |-> 0,
   stalenessLimit |-> 0, debug |-> FALSE, logLevel |-> None, passwordFile |-> None,
   listenAddress |-> None, probeAddress |-> None,
   certFile |-> None, keyFile |-> None, clientCAFile |-> None,
   hasBasic |-> FALSE, basicUsername |-> None, basicPasswordFile |-> None,
   switches |-> <<Spine("a")>>]

\* The configuration with one switch, as it is or beside another.
Of(switches) == { [Sound EXCEPT !.switches = <<sw>>] : sw \in switches }
Beside(switches) == { [Sound EXCEPT !.switches = <<Spine("a"), sw>>] : sw \in switches }

Credentials ==
  { [Sound EXCEPT !.passwordFile = fleet,
                  !.switches = <<[Spine("a") EXCEPT !.password = inline, !.passwordFile = own]>>]
    : inline \in {None, "inline"}, own \in {None, "own", "blank"}, fleet \in {None, "fleet", "gone"} }

Verification ==
  Of({ [Spine("a") EXCEPT !.tlsSkipVerify = skip, !.caFile = ca, !.pinnedCertSha256 = pin]
       : skip \in BOOLEAN, ca \in {None, "bundle", "junk"}, pin \in {None, "pin", "malformed"} })

Listeners ==
  { [Sound EXCEPT !.certFile = cert, !.keyFile = key, !.clientCAFile = ca]
    : cert \in {None, "cert", "gone"}, key \in {None, "key", "otherKey"}, ca \in {None, "bundle", "junk"} }
  \cup
  { [Sound EXCEPT !.hasBasic = TRUE, !.basicUsername = user, !.basicPasswordFile = file]
    : user \in {None, "prometheus"}, file \in {None, "scraper", "blank"} }
  \cup
  { [Sound EXCEPT !.probeAddress = probe] : probe \in {":9100", ":9101"} }

\* The fleet's settings of a module and those of a switch, with the intervals to
\* keep; 20 is less than the poll interval, and 1000 more than any default.
Schedules ==
  { [Sound EXCEPT !.pollInterval = poll, !.collect = [phy |-> fleet],
                  !.switches = <<[Spine("a") EXCEPT !.collect = own, !.interfaceScope = "Ethernet1"]>>]
    : poll \in {0, 1000, -5},
      fleet \in {Off, On(0), On(20), On(2000)},
      own \in {Nothing, [phy |-> Off], [phy |-> On(20)], [vxlan |-> On(0), evpn |-> On(60)]} }

\* More than one poll interval, and less than nothing.
Timeouts == { [Sound EXCEPT !.scrapeTimeout = t] : t \in {45, -5} }

Rejected ==
  { [Sound EXCEPT !.parses = FALSE], [Sound EXCEPT !.globalSkipVerify = TRUE],
    [Sound EXCEPT !.hasCollect = FALSE], [Sound EXCEPT !.switches = <<>>],
    [Sound EXCEPT !.collect = [typo |-> On(0)]], [Sound EXCEPT !.collect = [phy |-> Unsaid]],
    [Sound EXCEPT !.collect = [phy |-> On(-1)]] }
  \cup Beside({ [Spine("b") EXCEPT !.username = None], [Spine("b") EXCEPT !.host = None],
                [Spine("b") EXCEPT !.interfaceScope = "control character"],
                [Spine("b") EXCEPT !.name = "internal"] })

Pairs == Beside({ Spine("b"), [Spine("b") EXCEPT !.name = "a"], [Spine("b") EXCEPT !.pinnedCertSha256 = "malformed"] })

Logging ==
  { [config |-> [Sound EXCEPT !.logLevel = configured, !.debug = debug], level |-> flag, debug |-> debugFlag]
    : configured \in {None, "debug", "loud"}, debug \in BOOLEAN,
      flag \in {None, "debug", "loud"}, debugFlag \in {None, "true", "false"} }

AllStarts ==
  { [config |-> config, level |-> None, debug |-> None]
    : config \in Credentials \cup Verification \cup Listeners \cup Schedules \cup Timeouts
                 \cup Rejected \cup Pairs }
  \cup Logging
=============================================================================
