-------------------------- MODULE TargetIndexProofs --------------------------
(***************************************************************************)
(* Which switch a target means, for every configuration that is accepted:  *)
(* any number of switches, with any names and hosts.                       *)
(***************************************************************************)
EXTENDS TargetIndex, SequenceTheorems, TLAPS

\* One more claim is reflected: Add is right whoever claimed the key before.
LEMMA AddReflects ==
  ASSUME NEW r, NEW claimed, NEW n \in DOMAIN switches, NEW key,
         claimed \in [DOMAIN switches -> SUBSET Keys], key \in Keys \ {EmptyKey},
         Reflects(r, claimed)
  PROVE  Reflects(Add(r, key, Label(switches[n])), [claimed EXCEPT ![n] = @ \cup {key}])
  <1> DEFINE label == Label(switches[n])
             r1 == Add(r, key, label)
             claimed1 == [claimed EXCEPT ![n] = @ \cup {key}]
  <1>0. /\ \A i \in DOMAIN switches : claimed1[i] = IF i = n THEN claimed[i] \cup {key} ELSE claimed[i]
        /\ label = Label(switches[n])
    OBVIOUS
  <1>r. /\ \A k \in DOMAIN r.index : \E i \in DOMAIN switches :
             k \in claimed[i] /\ r.index[k] = Label(switches[i])
        /\ \A k \in r.ambiguous : \E i, j \in DOMAIN switches :
             i # j /\ k \in claimed[i] /\ k \in claimed[j]
        /\ \A i \in DOMAIN switches : \A k \in claimed[i] \ r.ambiguous :
             k \in DOMAIN r.index /\ r.index[k] = Label(switches[i])
    BY DEF Reflects
  <1>1. CASE key \in DOMAIN r.index /\ r.index[key] # label
    <2>1. r1.index = r.index /\ r1.ambiguous = r.ambiguous \cup {key}
      BY <1>1 DEF Add, Result
    <2>2. PICK j \in DOMAIN switches : key \in claimed[j] /\ r.index[key] = Label(switches[j])
      BY <1>1, <1>r
    <2>3. j # n /\ key \in claimed1[j] /\ key \in claimed1[n]
      BY <1>1, <2>2, <1>0
    <2> HIDE DEF r1, claimed1, label
    <2>4. QED
      BY <1>0, <1>r, <2>1, <2>3 DEF Reflects, r1, claimed1, label
  <1>2. CASE ~(key \in DOMAIN r.index /\ r.index[key] # label)
    <2>1. /\ r1.index = [k \in DOMAIN r.index \cup {key} |-> IF k = key THEN label ELSE r.index[k]]
          /\ r1.ambiguous = r.ambiguous
      BY <1>2 DEF Add, Result
    <2>2. QED
      BY <1>0, <1>r, <1>2, <2>1 DEF Reflects
  <1>3. QED
    BY <1>1, <1>2

\* A key that is empty claims nothing.
LEMMA AddEmpty ==
  ASSUME NEW r, NEW label
  PROVE  Add(r, EmptyKey, label) = r
  BY DEF Add

\* Either way.
LEMMA AddClaims ==
  ASSUME NEW r, NEW claimed, NEW n \in DOMAIN switches, NEW key \in Keys,
         claimed \in [DOMAIN switches -> SUBSET Keys], Reflects(r, claimed)
  PROVE  Reflects(Add(r, key, Label(switches[n])),
                  [claimed EXCEPT ![n] = @ \cup ({key} \ {EmptyKey})])
  <1>1. CASE key = EmptyKey
    <2>1. [claimed EXCEPT ![n] = @ \cup ({key} \ {EmptyKey})] = claimed
      BY <1>1
    <2>2. QED
      BY <1>1, <2>1, AddEmpty
  <1>2. CASE key # EmptyKey
    <2>1. {key} \ {EmptyKey} = {key}
      BY <1>2
    <2>2. QED
      BY <1>2, <2>1, AddReflects
  <1>3. QED
    BY <1>1, <1>2
-----------------------------------------------------------------------------
\* What a switch goes by are keys.
LEMMA SpellingsAreKeys ==
  ASSUME NEW sw \in SwitchConfigs
  PROVE  /\ Label(sw) \in Keys /\ sw.host \in Keys /\ stripScheme(sw.host) \in Keys
         /\ Spellings(sw) = ({Label(sw)} \ {EmptyKey}) \cup ({sw.host} \ {EmptyKey})
                            \cup ({stripScheme(sw.host)} \ {EmptyKey})
  <1>1. Label(sw) \in Keys /\ sw.host \in Keys
    BY DEF SwitchConfigs, Label
  <1>2. /\ stripScheme(sw.host) = [scheme |-> "bare", address |-> sw.host.address]
        /\ stripScheme(sw.host) \in Keys
    BY <1>1 DEF stripScheme, Keys
  <1>3. QED
    BY <1>1, <1>2 DEF Spellings

LEMMA ClaimedType ==
  ASSUME switches \in Seq(SwitchConfigs), NEW n
  PROVE  Claimed(n) \in [DOMAIN switches -> SUBSET Keys]
  <1>1. ASSUME NEW i \in DOMAIN switches
        PROVE  Spellings(switches[i]) \in SUBSET Keys
    <2>1. switches[i] \in SwitchConfigs
      OBVIOUS
    <2>2. QED
      BY <2>1, SpellingsAreKeys
  <1>2. QED
    BY <1>1 DEF Claimed

\* The next switch claims all it goes by in one round.
LEMMA OneMoreClaims ==
  ASSUME switches \in Seq(SwitchConfigs), next \in 1 .. Len(switches)
  PROVE  Claimed(next + 1) = [Claimed(next) EXCEPT ![next] = Spellings(switches[next])]
  <1>1. DOMAIN switches = 1 .. Len(switches)
    OBVIOUS
  <1>2. \A i \in DOMAIN switches : i < next + 1 <=> i < next \/ i = next
    BY <1>1
  <1>3. QED
    BY <1>1, <1>2 DEF Claimed

-----------------------------------------------------------------------------
LEMMA InitReflects ==
  ASSUME Init
  PROVE  IInv
  <1>1. switches \in Seq(SwitchConfigs)
    <2>1. PICK n \in 0 .. MaxSwitches : switches \in [1 .. n -> SwitchConfigs]
      BY DEF Init
    <2>2. n \in Nat
      BY TargetAssumption
    <2>3. QED
      BY <2>1, <2>2
  <1>2. DOMAIN switches = 1 .. Len(switches) /\ Len(switches) \in Nat
    BY <1>1
  <1>3. \A i \in DOMAIN switches : Claimed(next)[i] = {}
    BY <1>2 DEF Init, Claimed
  <1>4. Reflects(Result(index, ambiguous), Claimed(next))
    BY <1>3 DEF Init, Reflects, Result
  <1>5. QED
    BY <1>1, <1>2, <1>4 DEF Init, IInv

LEMMA AddSwitchReflects ==
  ASSUME IInv, AddSwitch
  PROVE  IInv'
  <1> DEFINE sw == switches[next]
             r0 == Result(index, ambiguous)
             r1 == Add(r0, Label(sw), Label(sw))
             r2 == Add(r1, sw.host, Label(sw))
             r3 == Add(r2, stripScheme(sw.host), Label(sw))
             c0 == Claimed(next)
             c1 == [c0 EXCEPT ![next] = @ \cup ({Label(sw)} \ {EmptyKey})]
             c2 == [c1 EXCEPT ![next] = @ \cup ({sw.host} \ {EmptyKey})]
             c3 == [c2 EXCEPT ![next] = @ \cup ({stripScheme(sw.host)} \ {EmptyKey})]
  <1>1. /\ switches \in Seq(SwitchConfigs) /\ next \in 1 .. Len(switches)
        /\ Len(switches) \in Nat /\ Valid(switches)
        /\ DOMAIN switches = 1 .. Len(switches) /\ sw \in SwitchConfigs
    BY DEF IInv, AddSwitch
  <1>2. /\ Label(sw) \in Keys /\ sw.host \in Keys /\ stripScheme(sw.host) \in Keys
        /\ Spellings(sw) = ({Label(sw)} \ {EmptyKey}) \cup ({sw.host} \ {EmptyKey})
                           \cup ({stripScheme(sw.host)} \ {EmptyKey})
    BY <1>1, SpellingsAreKeys
  <1>3. c0 \in [DOMAIN switches -> SUBSET Keys] /\ Reflects(r0, c0)
    BY <1>1, ClaimedType DEF IInv
  <1>4. c1 \in [DOMAIN switches -> SUBSET Keys] /\ Reflects(r1, c1)
    <2> HIDE DEF r0, c0
    <2>1. c1 \in [DOMAIN switches -> SUBSET Keys]
      BY <1>2, <1>3
    <2>2. QED
      BY <1>1, <1>2, <1>3, <2>1, AddClaims
  <1>5. c2 \in [DOMAIN switches -> SUBSET Keys] /\ Reflects(r2, c2)
    <2> HIDE DEF r1, c1
    <2>1. c2 \in [DOMAIN switches -> SUBSET Keys]
      BY <1>2, <1>4
    <2>2. QED
      BY <1>1, <1>2, <1>4, <2>1, AddClaims
  <1>6. Reflects(r3, c3)
    <2> HIDE DEF r2, c2
    <2>1. QED
      BY <1>1, <1>2, <1>5, AddClaims
  <1>7. c3 = Claimed(next + 1)
    <2>1. c0[next] = {}
      BY <1>1 DEF Claimed
    <2>2. c3 = [c0 EXCEPT ![next] = Spellings(sw)]
      <3> HIDE DEF c0
      <3>1. QED
        BY <1>1, <1>2, <1>3, <2>1
    <2>3. QED
      BY <1>1, <2>2, OneMoreClaims
  <1>8. Reflects(Result(index, ambiguous), Claimed(next))'
    <2>1. index' = r3.index /\ ambiguous' = r3.ambiguous /\ next' = next + 1 /\ switches' = switches
      BY DEF AddSwitch
    <2>2. Claimed(next)' = c3
      BY <1>7, <2>1 DEF Claimed
    <2> HIDE DEF r3, c3
    <2>3. QED
      BY <1>6, <2>1, <2>2 DEF Reflects, Result
  <1>9. ~serving
    BY <1>1 DEF IInv
  <1>10. QED
    BY <1>1, <1>8, <1>9 DEF AddSwitch, IInv, Valid

LEMMA DropAmbiguousReflects ==
  ASSUME IInv, DropAmbiguous
  PROVE  IInv'
  <1> DEFINE kept == { k \in DOMAIN index : k \in ambiguous => index[k] = k }
  <1>1. /\ index' = [k \in kept |-> index[k]] /\ serving' = TRUE
        /\ UNCHANGED <<switches, next, ambiguous>> /\ next > Len(switches)
    <2>1. Restrict(index, kept) = [k \in kept |-> index[k]]
      BY DEF Restrict
    <2>2. QED
      BY <2>1 DEF DropAmbiguous
  <1>2. Claimed(next)' = Claimed(next)
    BY <1>1 DEF Claimed
  <1>3. /\ \A k \in DOMAIN index : \E i \in DOMAIN switches :
             k \in Claimed(next)[i] /\ index[k] = Label(switches[i])
        /\ \A k \in ambiguous : \E i, j \in DOMAIN switches :
             i # j /\ k \in Claimed(next)[i] /\ k \in Claimed(next)[j]
        /\ \A i \in DOMAIN switches : \A k \in Claimed(next)[i] \ ambiguous :
             k \in DOMAIN index /\ index[k] = Label(switches[i])
    BY DEF IInv, Reflects, Result
  <1> HIDE DEF kept
  <1>4. /\ kept \subseteq DOMAIN index
        /\ \A k \in DOMAIN index : k \notin ambiguous => k \in kept
        /\ \A k \in kept : k \in ambiguous => index[k] = k
    BY DEF kept
  <1>5. Reflects(Result(index, ambiguous), Claimed(next))'
    BY <1>1, <1>2, <1>3, <1>4 DEF Reflects, Result
  <1>6. QED
    BY <1>1, <1>4, <1>5 DEF IInv, Valid

\* Whatever the configuration, the index says what its switches claim.
THEOREM Invariance == Spec => []IInv
  <1>1. Init => IInv
    BY InitReflects
  <1>2. IInv /\ [Next]_vars => IInv'
    <2>1. SUFFICES ASSUME IInv, [Next]_vars
                   PROVE  IInv'
      OBVIOUS
    <2>2. CASE AddSwitch
      BY <2>1, <2>2, AddSwitchReflects
    <2>3. CASE DropAmbiguous
      BY <2>1, <2>3, DropAmbiguousReflects
    <2>4. CASE UNCHANGED vars
      BY <2>1, <2>4 DEF vars, IInv, Valid, Reflects, Result, Claimed
    <2>5. QED
      BY <2>1, <2>2, <2>3, <2>4 DEF Next
  <1>3. QED
    BY <1>1, <1>2, PTL DEF Spec

-----------------------------------------------------------------------------
\* The index once it serves, said of the switches rather than of the claims.
LEMMA ServingIndex ==
  ASSUME IInv, serving
  PROVE  /\ switches \in Seq(SwitchConfigs) /\ Valid(switches)
         /\ \A k \in DOMAIN index : \E i \in DOMAIN switches :
              k \in Spellings(switches[i]) /\ index[k] = Label(switches[i])
         /\ \A k \in ambiguous : \E i, j \in DOMAIN switches :
              i # j /\ k \in Spellings(switches[i]) /\ k \in Spellings(switches[j])
         /\ \A i \in DOMAIN switches : \A k \in Spellings(switches[i]) \ ambiguous :
              k \in DOMAIN index /\ index[k] = Label(switches[i])
         /\ \A k \in DOMAIN index : k \in ambiguous => index[k] = k
  <1>1. switches \in Seq(SwitchConfigs) /\ next > Len(switches) /\ next \in 1 .. Len(switches) + 1
    BY DEF IInv
  <1>2. \A i \in DOMAIN switches : Claimed(next)[i] = Spellings(switches[i])
    BY <1>1 DEF Claimed
  <1>3. QED
    BY <1>2 DEF IInv, Reflects, Result

\* Two entries of the configuration are two switches: their labels differ.
LEMMA LabelsIdentify ==
  ASSUME switches \in Seq(SwitchConfigs), Valid(switches), NEW i \in DOMAIN switches,
         NEW j \in DOMAIN switches, Label(switches[i]) = Label(switches[j])
  PROVE  i = j
  BY DEF Valid

\* No scrape is answered with another switch's readings: the switch a target selects
\* goes by it, and if others do, the target is that switch's label.
THEOREM TargetsAreRight == Spec => []NoMisattribution
  <1>1. ASSUME IInv, serving, NEW key \in Targets, NEW sw \in Configured,
               Selected(key) = {Label(sw)}
        PROVE  sw \in Claimants(key) /\ (Claimants(key) = {sw} \/ key = Label(sw))
    <2>1. key # EmptyKey /\ key # InternalTarget
      BY <1>1 DEF Targets
    <2>2. key \in DOMAIN index /\ index[key] = Label(sw)
      BY <1>1, <2>1 DEF Selected
    <2>3. PICK j \in DOMAIN switches : sw = switches[j]
      BY <1>1 DEF Configured
    <2>4. PICK i \in DOMAIN switches : key \in Spellings(switches[i]) /\ index[key] = Label(switches[i])
      BY <1>1, <2>2, ServingIndex
    <2>5. i = j
      BY <1>1, <2>2, <2>3, <2>4, ServingIndex, LabelsIdentify
    <2>6. sw \in Claimants(key)
      BY <1>1, <2>3, <2>4, <2>5 DEF Claimants
    <2>7. CASE key \in ambiguous
      BY <1>1, <2>2, <2>6, <2>7, ServingIndex
    <2>8. CASE key \notin ambiguous
      <3>1. ASSUME NEW other \in Claimants(key)
            PROVE  other = sw
        <4>1. PICK l \in DOMAIN switches : other = switches[l] /\ key \in Spellings(other)
          BY <3>1 DEF Claimants, Configured
        <4>2. index[key] = Label(switches[l])
          BY <1>1, <2>8, <4>1, ServingIndex
        <4>3. l = j
          BY <1>1, <2>2, <2>3, <4>2, ServingIndex, LabelsIdentify
        <4>4. QED
          BY <2>3, <4>1, <4>3
      <3>2. QED
        BY <2>6, <3>1
    <2>9. QED
      BY <2>6, <2>7, <2>8
  <1>2. IInv => NoMisattribution
    BY <1>1 DEF NoMisattribution
  <1>3. QED
    BY <1>2, Invariance, PTL

\* A name, host or address that one switch alone goes by selects that switch.
THEOREM UniqueNamesResolve == Spec => []UniqueSpellingsResolve
  <1>1. ASSUME IInv, serving, NEW key \in Targets, NEW sw \in Configured,
               Claimants(key) = {sw}
        PROVE  Selected(key) = {Label(sw)}
    <2>1. key # EmptyKey /\ key # InternalTarget
      BY <1>1 DEF Targets
    <2>2. PICK j \in DOMAIN switches : sw = switches[j] /\ key \in Spellings(sw)
      BY <1>1 DEF Claimants, Configured
    <2>3. key \notin ambiguous
      <3>1. SUFFICES ASSUME key \in ambiguous
                     PROVE  FALSE
        OBVIOUS
      <3>2. PICK a, b \in DOMAIN switches :
              a # b /\ key \in Spellings(switches[a]) /\ key \in Spellings(switches[b])
        BY <1>1, <3>1, ServingIndex
      <3>3. switches[a] = sw /\ switches[b] = sw
        BY <1>1, <3>2 DEF Claimants, Configured
      <3>4. a = b
        BY <1>1, <3>3, ServingIndex, LabelsIdentify
      <3>5. QED
        BY <3>2, <3>4
    <2>4. key \in DOMAIN index /\ index[key] = Label(sw)
      BY <1>1, <2>2, <2>3, ServingIndex
    <2>5. QED
      BY <2>1, <2>4 DEF Selected
  <1>2. IInv => UniqueSpellingsResolve
    BY <1>1 DEF UniqueSpellingsResolve
  <1>3. QED
    BY <1>2, Invariance, PTL
=============================================================================
