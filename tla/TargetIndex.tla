----------------------------- MODULE TargetIndex -----------------------------
(***************************************************************************)
(* Which switch a scrape of /metrics?target=... means: the index that      *)
(* metrics.TargetIndex builds at startup, from the configured switches in  *)
(* their order, and the handler looks a target up in.                      *)
(*                                                                         *)
(* A name and a host are the same kind of thing, a key: an address, with a *)
(* scheme or bare.  The configuration may be any that passes validation    *)
(* and NewStore.                                                           *)
(***************************************************************************)
EXTENDS Integers, Sequences, Functions

CONSTANTS
  Addresses,    \* what may follow the scheme, Internal and Empty among them
  MaxSwitches   \* the bound on the number of switches, for TLC

Empty == "empty"
Internal == "internal"

ASSUME TargetAssumption == Empty \in Addresses /\ Internal \in Addresses /\ MaxSwitches \in Nat

Keys == [scheme : {"https", "bare"}, address : Addresses]

EmptyKey == [scheme |-> "bare", address |-> Empty]
InternalTarget == [scheme |-> "bare", address |-> Internal]

\* A switch: `name' is EmptyKey if the configuration gives none.
SwitchConfigs == [name : Keys, host : Keys]

Label(sw) == IF sw.name # EmptyKey THEN sw.name ELSE sw.host

\* Not the code: a host is as good with its scheme.
WithScheme(key) == key

stripScheme(key) == [key EXCEPT !.scheme = "bare"]

\* What Load and NewStore let through.
Valid(switches) ==
  /\ \A i \in DOMAIN switches : /\ switches[i].host # EmptyKey
                                /\ Label(switches[i]) # InternalTarget
  /\ \A i, j \in DOMAIN switches : Label(switches[i]) = Label(switches[j]) => i = j

-----------------------------------------------------------------------------
VARIABLES
  switches,     \* the configuration
  next,         \* the next switch to index, or one more than there are
  index,        \* the labels, by key
  ambiguous,    \* the keys that two switches claimed
  serving       \* the handler is set up

vars == <<switches, next, index, ambiguous, serving>>

Init ==
  /\ \E n \in 0 .. MaxSwitches : switches \in [1 .. n -> SwitchConfigs]
  /\ Valid(switches)
  /\ next = 1
  /\ index = <<>>
  /\ ambiguous = {}
  /\ serving = FALSE

Result(i, a) == [index |-> i, ambiguous |-> a]

\* Not the code: the last to claim a key has it.
AddLast(r, key, label) ==
  IF key = EmptyKey THEN r
  ELSE Result([k \in DOMAIN r.index \cup {key} |-> IF k = key THEN label ELSE r.index[k]],
              r.ambiguous)

\* The first to claim a key has it; another label makes it ambiguous.
Add(r, key, label) ==
  IF key = EmptyKey THEN r
  ELSE IF key \in DOMAIN r.index /\ r.index[key] # label
  THEN Result(r.index, r.ambiguous \cup {key})
  ELSE Result([k \in DOMAIN r.index \cup {key} |-> IF k = key THEN label ELSE r.index[k]],
              r.ambiguous)

\* One round of the loop: the label, the host, and the host without its scheme.
AddSwitch ==
  /\ next <= Len(switches)
  /\ LET sw == switches[next]
         r1 == Add(Result(index, ambiguous), Label(sw), Label(sw))
         r2 == Add(r1, sw.host, Label(sw))
         r3 == Add(r2, stripScheme(sw.host), Label(sw))
     IN  index' = r3.index /\ ambiguous' = r3.ambiguous
  /\ next' = next + 1
  /\ UNCHANGED <<switches, serving>>

\* Ambiguous keys are dropped, but for a key that stands for itself.
DropAmbiguous ==
  /\ next > Len(switches) /\ ~serving
  /\ index' = Restrict(index, { k \in DOMAIN index : k \in ambiguous => index[k] = k })
  /\ serving' = TRUE
  /\ UNCHANGED <<switches, next, ambiguous>>

Next == AddSwitch \/ DropAmbiguous

Spec == Init /\ [][Next]_vars

\* NewHandler: the switches a target selects.  Without a target it is every
\* one; `internal' never reaches the index; an unknown target is refused.
Selected(target) ==
  IF target = EmptyKey THEN { Label(switches[i]) : i \in DOMAIN switches }
  ELSE IF target = InternalTarget THEN {}
  ELSE IF target \in DOMAIN index THEN {index[target]} ELSE {}

-----------------------------------------------------------------------------
(* Correctness                                                             *)

\* What a switch goes by: its label, its host, and its address alone.
Spellings(sw) ==
  {Label(sw), sw.host, [scheme |-> "bare", address |-> sw.host.address]} \ {EmptyKey}

Configured == { switches[i] : i \in DOMAIN switches }
Claimants(key) == { sw \in Configured : key \in Spellings(sw) }
Targets == Keys \ {EmptyKey, InternalTarget}

\* A target never selects a switch that does not go by it, and if several do,
\* none but the one it is the label of.
NoMisattribution ==
  serving => \A key \in Targets, sw \in Configured :
     Selected(key) = {Label(sw)} => /\ sw \in Claimants(key)
                                    /\ Claimants(key) = {sw} \/ key = Label(sw)

\* A spelling only one switch goes by selects it.
UniqueSpellingsResolve ==
  serving => \A key \in Targets, sw \in Configured :
     Claimants(key) = {sw} => Selected(key) = {Label(sw)}

\* handler.go: labels are unique, so they always resolve.
LabelsAlwaysResolve ==
  serving => \A sw \in Configured : Selected(Label(sw)) = {Label(sw)}

-----------------------------------------------------------------------------
(* The inductive invariant behind the first two                            *)

\* The keys each switch before n has claimed.
Claimed(n) == [i \in DOMAIN switches |-> IF i < n THEN Spellings(switches[i]) ELSE {}]

\* What an index and its ambiguous keys say of the claims made so far: a key leads
\* to one of its claimants; a key is ambiguous if it has two; and any other key
\* that was claimed is there and leads to whoever claimed it.
Reflects(r, claimed) ==
  /\ \A k \in DOMAIN r.index : \E i \in DOMAIN switches :
       k \in claimed[i] /\ r.index[k] = Label(switches[i])
  /\ \A k \in r.ambiguous : \E i, j \in DOMAIN switches :
       i # j /\ k \in claimed[i] /\ k \in claimed[j]
  /\ \A i \in DOMAIN switches : \A k \in claimed[i] \ r.ambiguous :
       k \in DOMAIN r.index /\ r.index[k] = Label(switches[i])

IInv ==
  /\ switches \in Seq(SwitchConfigs) /\ Valid(switches)
  /\ next \in 1 .. Len(switches) + 1
  /\ Reflects(Result(index, ambiguous), Claimed(next))
  /\ serving => next > Len(switches) /\ \A k \in DOMAIN index : k \in ambiguous => index[k] = k
=============================================================================
