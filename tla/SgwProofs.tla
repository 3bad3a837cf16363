----------------------------- MODULE SgwProofs -----------------------------
(***************************************************************************)
(* Proofs about SgwRefresh, for any service groups and any settings the    *)
(* validator accepts, about SgwSupervisor, for any guard settings and      *)
(* bounds, and about Inventory, for any CMTS: any nodes, channel tables    *)
(* and registrations, and any number of their changes.  The three state    *)
(* machines share no variable; the definitions that two would name alike   *)
(* begin with Supervisor or Inventory.                                     *)
(***************************************************************************)
EXTENDS SgwRefresh, SgwSupervisor, Inventory, TLAPS, WellFoundedInduction

-----------------------------------------------------------------------------
(*                            SgwRefresh                                   *)

-----------------------------------------------------------------------------
(* Types *)

LEMMA EntriesTyped ==
    ASSUME now \in Nat, NEW e \in Entry
    PROVE  /\ Placeholder \in Entry
           /\ HeavyRefreshed \in Entry
           /\ LightRefreshed(e) \in Entry
           /\ MarkedError(e) \in Entry
           /\ Relabelled(e) \in Entry
BY DEF Placeholder, Absent, HeavyRefreshed, LightRefreshed, MarkedError, Relabelled, Entry, Labels

\* What a turn decides is a mode, and the request alone when there is one.
LEMMA DecisionTyped ==
    ASSUME TypeOK, NEW sg \in SG
    PROVE  /\ Decision(sg) \in {"none", "light", "heavy"}
           /\ request[sg] # "none" => Decision(sg) = request[sg]
           /\ Decision(sg) = "none" => ~IsDue(cache[sg].light, Light, sg)
BY DEF Decision, TypeOK

LEMMA TypeCorrectInit == Init => TypeOK
BY DEF Init, TypeOK, Entry, Absent, Labels

LEMMA TypeCorrectNext == TypeOK /\ [Next]_vars => TypeOK'
<1> SUFFICES ASSUME TypeOK, [Next]_vars PROVE TypeOK'
  OBVIOUS
<1> USE DEF TypeOK, settings, thread, requests
<1>1. CASE Tick
  BY <1>1 DEF Tick
<1>2. ASSUME NEW sg \in SG, NEW m \in {"light", "heavy"}, RequestRefresh(sg, m) PROVE TypeOK'
  BY <1>2 DEF RequestRefresh
<1>3. CASE StartCycle
  BY <1>3 DEF StartCycle
<1>4. ASSUME NEW sg \in SG, EnsureEntry(sg) PROVE TypeOK'
  BY <1>4, EntriesTyped DEF EnsureEntry
<1>5. CASE Pop
  BY <1>5, DecisionTyped DEF Pop
<1>6. CASE PollReturns \/ PollRaises \/ Finish
  BY <1>6, EntriesTyped DEF PollReturns, PollRaises, Finish
<1>7. CASE EndCycle
  BY <1>7, SettingsAssumption DEF EndCycle
<1>8. CASE UNCHANGED vars
  BY <1>8 DEF vars
<1>9. QED
  BY <1>1, <1>2, <1>3, <1>4, <1>5, <1>6, <1>7, <1>8 DEF Next, Step

\* The types of the variables, in every reachable state.
THEOREM TypeCorrect == Spec => []TypeOK
<1>1. Init => TypeOK
  BY TypeCorrectInit
<1>2. TypeOK /\ [Next]_vars => TypeOK'
  BY TypeCorrectNext
<1>3. QED
  BY <1>1, <1>2, PTL DEF Spec

-----------------------------------------------------------------------------
(* The inductive invariant, one step per action *)

LEMMA IInvInit == Init => IInv
<1> SUFFICES ASSUME Init PROVE IInv
  OBVIOUS
<1>1. TypeOK
  BY TypeCorrectInit
<1>2. \A sg \in SG : Stamps(sg) /\ Before(sg) /\ After(sg)
  BY DEF Init, Stamps, Before, After, Absent
<1>3. QED
  BY <1>1, <1>2 DEF Init, IInv, Clocks, AtFinish, PolledMode, InTurnServed,
                    AgeBounded, RequestServed, TurnOver

\* Time passes and clients request: only the clock and the requests move.
LEMMA EnvironmentKeepsIInv ==
    ASSUME IInv, Tick \/ \E sg \in SG, m \in {"light", "heavy"} : RequestRefresh(sg, m)
    PROVE  IInv'
<1> USE DEF TypeOK, settings, thread, requests
<1>0. TypeOK'
  BY TypeCorrectNext DEF IInv, Next
<1>1. UNCHANGED <<jitter, cache, pc, now, todo, cur, mode, wake>> /\ clock' >= clock
  BY DEF Tick, RequestRefresh, IInv
<1>2. Clocks' /\ AtFinish' /\ PolledMode' /\ AgeBounded'
  <2>1. Clocks'
    BY <1>0, <1>1 DEF IInv, Clocks
  <2>2. AtFinish' /\ PolledMode'
    BY <1>1 DEF IInv, AtFinish, PolledMode
  <2>3. AgeBounded'
    BY <1>1 DEF IInv, AgeBounded, TurnOver, InTurn
  <2>4. QED
    BY <2>1, <2>2, <2>3
<1>3. \A sg \in SG : Stamps(sg)' /\ Before(sg)' /\ After(sg)'
  BY <1>1 DEF IInv, Stamps, Before, After, TurnOver, InTurn
<1>4. InTurnServed' /\ RequestServed'
  <2>1. \A sg \in SG : \/ request'[sg] = request[sg] /\ asked'[sg] = asked[sg]
                       \/ asked'[sg] >= now
    BY DEF Tick, RequestRefresh, IInv, Clocks
  <2>2. QED
    BY <2>1, <1>1 DEF IInv, InTurnServed, RequestServed, TurnOver, InTurn
<1>5. QED
  BY <1>0, <1>2, <1>3, <1>4 DEF IInv

\* A new cycle begins at least Light after the last one did, so what that cycle left is
\* old enough to be due.
LEMMA StartCycleKeepsIInv ==
    ASSUME IInv, StartCycle
    PROVE  IInv'
<1> USE DEF TypeOK, settings, requests
<1>0. TypeOK'
  BY TypeCorrectNext DEF IInv, Next, Step
<1>1. /\ UNCHANGED <<clock, jitter, cache, request, asked, cur, mode, wake>>
      /\ now' = clock /\ todo' = SG /\ pc' = "next" /\ pc = "sleep" /\ todo = {}
  BY DEF StartCycle, IInv, Clocks
<1>2. now = 0 \/ now' >= now + Light
  BY <1>1, SettingsAssumption DEF StartCycle, IInv, Clocks
<1>3. Clocks' /\ AtFinish' /\ PolledMode' /\ InTurnServed' /\ AgeBounded' /\ RequestServed'
  BY <1>1 DEF IInv, Clocks, AtFinish, PolledMode, InTurnServed, AgeBounded, RequestServed,
              TurnOver
<1>4. ASSUME NEW sg \in SG PROVE Stamps(sg)' /\ Before(sg)' /\ After(sg)'
  <2>1. cache[sg] \in Entry /\ jitter[sg] \in 0..MaxJitter /\ MaxJitter <= Light
    BY SettingsAssumption DEF IInv
  <2>2. Stamps(sg) /\ now <= clock
    BY DEF IInv, Clocks
  <2>3. Stamps(sg)'
    BY <1>1, <2>1, <2>2 DEF Stamps, Entry, IInv
  <2>4. cache[sg].label = "ERROR" => cache[sg].light = 0 \/ now - cache[sg].light >= Light
    <3>1. CASE now = 0
      BY <3>1, <2>1, <2>2 DEF Stamps, Entry
    <3>2. CASE now # 0
      BY <3>2, <1>1 DEF IInv, After, TurnOver, InTurn
    <3>3. QED
      BY <3>1, <3>2
  <2>5. Before(sg)'
    <3>1. cache[sg].light = 0 \/ clock - cache[sg].light >= Light
      BY <1>1, <1>2, <2>1, <2>2, SettingsAssumption DEF Stamps, Entry, IInv
    <3>2. cache[sg].label = "ERROR" =>
             cache[sg].light = 0 \/ clock - cache[sg].light >= Light + jitter[sg]
      BY <1>1, <1>2, <2>1, <2>2, <2>4, SettingsAssumption DEF Stamps, Entry, IInv
    <3>3. QED
      BY <3>1, <3>2, <1>1 DEF Before
  <2>6. After(sg)'
    BY <1>1 DEF After, TurnOver
  <2>7. QED
    BY <2>3, <2>5, <2>6
<1>5. QED
  BY <1>0, <1>3, <1>4 DEF IInv

\* A placeholder carries the cycle's time; an entry that exists is left alone.
LEMMA EnsureEntryKeepsIInv ==
    ASSUME IInv, NEW g \in SG, EnsureEntry(g)
    PROVE  IInv'
<1> USE DEF TypeOK, settings, requests
<1>0. TypeOK'
  BY TypeCorrectNext DEF IInv, Next, Step
<1>1. /\ UNCHANGED <<clock, jitter, request, asked, now, mode, wake>>
      /\ pc = "next" /\ pc' = "pop" /\ g \in todo /\ todo' = todo \ {g} /\ cur' = g
      /\ \A sg \in SG \ {g} : cache'[sg] = cache[sg]
      /\ cache'[g] = IF cache[g].label = "none" THEN Placeholder ELSE cache[g]
  BY DEF EnsureEntry, IInv
<1>2. Clocks' /\ AtFinish' /\ PolledMode' /\ InTurnServed'
  BY <1>1 DEF IInv, Clocks, AtFinish, PolledMode, InTurnServed
<1>3. \A sg \in SG : TurnOver(sg)' => TurnOver(sg) /\ sg # g
  BY <1>1 DEF TurnOver, InTurn
<1>4. AgeBounded' /\ RequestServed'
  <2>1. RequestServed'
    BY <1>1, <1>3 DEF IInv, RequestServed
  <2>2. AgeBounded'
    BY <1>1, <1>3 DEF IInv, AgeBounded
  <2>3. QED
    BY <2>1, <2>2
<1>5. ASSUME NEW sg \in SG PROVE Stamps(sg)' /\ Before(sg)' /\ After(sg)'
  <2>1. CASE sg # g
    BY <2>1, <1>1, <1>3 DEF IInv, Stamps, Before, After
  <2>2. CASE sg = g /\ cache[g].label # "none"
    BY <2>2, <1>1, <1>3 DEF IInv, Stamps, Before, After
  <2>3. CASE sg = g /\ cache[g].label = "none"
    BY <2>3, <1>1, <1>3 DEF IInv, Stamps, Before, After, Placeholder, Absent
  <2>4. QED
    BY <2>1, <2>2, <2>3
<1>6. QED
  BY <1>0, <1>2, <1>4, <1>5 DEF IInv

\* The request is gone, and a turn that polls nothing has a young snapshot without an error.
LEMMA PopKeepsIInv ==
    ASSUME IInv, Pop
    PROVE  IInv'
<1> USE DEF TypeOK, settings
<1>0. TypeOK'
  BY TypeCorrectNext DEF IInv, Next, Step
<1>1. /\ UNCHANGED <<clock, jitter, cache, now, todo, cur, wake>>
      /\ pc = "pop" /\ pc' = IF mode' = "none" THEN "finish" ELSE "poll"
      /\ mode' = Decision(cur) /\ cur \in SG
      /\ request' = [request EXCEPT ![cur] = "none"] /\ asked' = [asked EXCEPT ![cur] = 0]
  BY DEF Pop, IInv
<1>2. Clocks' /\ PolledMode' /\ InTurnServed'
  BY <1>1 DEF IInv, Clocks, PolledMode, InTurnServed
<1>3. AtFinish'
  <2>1. Stamps(cur) /\ Before(cur) /\ cache[cur] \in Entry /\ jitter[cur] \in 0..MaxJitter
    BY <1>1 DEF IInv
  <2>2. now # 0
    BY <1>1 DEF IInv, Clocks
  <2>3. cache[cur].label = "ERROR" => cache[cur].light = 0 \/ now - cache[cur].light >= Light
    BY <2>1, <1>1 DEF Before
  <2>4. CASE mode' # "none"
    BY <2>4, <1>1 DEF AtFinish
  <2>5. CASE mode' = "none"
    <3>1. /\ cache[cur].light # 0
          /\ ~(now - cache[cur].light >= Light + jitter[cur])
      BY <2>5, <1>1, DecisionTyped DEF IInv, IsDue
    <3>2. cache[cur].label # "ERROR"
      BY <3>1, <2>1, <1>1 DEF Before
    <3>3. now - cache[cur].snapshot < Light + jitter[cur]
      BY <3>1, <2>1, SettingsAssumption DEF Stamps, Entry, IInv
    <3>4. QED
      BY <3>2, <3>3, <2>5, <1>1 DEF AtFinish
  <2>6. QED
    BY <2>4, <2>5
<1>4. \A sg \in SG : TurnOver(sg)' => TurnOver(sg) /\ sg # cur
  BY <1>0, <1>1, DecisionTyped DEF TurnOver, InTurn, IInv
<1>5. AgeBounded' /\ RequestServed'
  <2>1. RequestServed'
    BY <1>1, <1>4 DEF IInv, RequestServed
  <2>2. AgeBounded'
    BY <1>1, <1>4 DEF IInv, AgeBounded
  <2>3. QED
    BY <2>1, <2>2
<1>6. \A sg \in SG : Stamps(sg)' /\ Before(sg)' /\ After(sg)'
  BY <1>1, <1>4 DEF IInv, Stamps, Before, After
<1>7. QED
  BY <1>0, <1>2, <1>3, <1>5, <1>6 DEF IInv

\* A poll, returned or raised, stamps the entry; only a returned one moves the refresh stamps.
LEMMA PollKeepsIInv ==
    ASSUME IInv, PollReturns \/ PollRaises
    PROVE  IInv'
<1> USE DEF TypeOK, settings, requests
<1>0. TypeOK'
  BY TypeCorrectNext DEF IInv, Next, Step
<1>1. /\ UNCHANGED <<clock, jitter, request, asked, now, todo, cur, mode, wake>>
      /\ pc = "poll" /\ pc' = "finish" /\ cur \in SG /\ cur \notin todo /\ mode # "none"
      /\ \A sg \in SG \ {cur} : cache'[sg] = cache[sg]
      /\ cache'[cur] \in {HeavyRefreshed, LightRefreshed(cache[cur]), MarkedError(cache[cur])}
  BY DEF PollReturns, PollRaises, IInv, PolledMode, Clocks
<1>2. Clocks' /\ PolledMode' /\ InTurnServed'
  BY <1>1 DEF IInv, Clocks, PolledMode, InTurnServed
<1>3. /\ Stamps(cur)'
      /\ cache'[cur].snapshot = now
      /\ cache'[cur].label = "ERROR" => cache'[cur].light = cache[cur].light
  <2>1. Stamps(cur) /\ cache[cur] \in Entry /\ now \in Nat /\ now' = now /\ cur' = cur
    BY <1>1 DEF IInv
  <2>2. CASE cache'[cur] = HeavyRefreshed
    BY <2>1, <2>2 DEF Stamps, HeavyRefreshed
  <2>3. CASE cache'[cur] = LightRefreshed(cache[cur])
    BY <2>1, <2>3 DEF Stamps, Entry, LightRefreshed
  <2>4. CASE cache'[cur] = MarkedError(cache[cur])
    BY <2>1, <2>4 DEF Stamps, Entry, MarkedError
  <2>5. QED
    BY <1>1, <2>2, <2>3, <2>4
<1>4. AtFinish'
  <2>1. cache[cur].light = 0 \/ now - cache[cur].light >= Light
    BY <1>1 DEF IInv, Before
  <2>2. QED
    BY <2>1, <1>1, <1>3 DEF AtFinish
<1>5. \A sg \in SG : TurnOver(sg)' => TurnOver(sg) /\ sg # cur
  BY <1>1 DEF TurnOver, InTurn
<1>6. AgeBounded' /\ RequestServed'
  <2>1. RequestServed'
    BY <1>1, <1>5 DEF IInv, RequestServed
  <2>2. AgeBounded'
    BY <1>1, <1>5 DEF IInv, AgeBounded
  <2>3. QED
    BY <2>1, <2>2
<1>7. ASSUME NEW sg \in SG PROVE Stamps(sg)' /\ Before(sg)' /\ After(sg)'
  <2>1. CASE sg # cur
    BY <2>1, <1>1, <1>5 DEF IInv, Stamps, Before, After
  <2>2. CASE sg = cur
    BY <2>2, <1>1, <1>3, <1>5 DEF Before, After
  <2>3. QED
    BY <2>1, <2>2
<1>8. QED
  BY <1>0, <1>2, <1>4, <1>6, <1>7 DEF IInv

\* The turn ends: the label follows the age unless it is an error.
LEMMA FinishKeepsIInv ==
    ASSUME IInv, Finish
    PROVE  IInv'
<1> USE DEF TypeOK, settings, requests
<1>0. TypeOK'
  BY TypeCorrectNext DEF IInv, Next, Step
<1>1. /\ UNCHANGED <<clock, jitter, request, asked, now, todo, cur, wake>>
      /\ pc = "finish" /\ pc' = "next" /\ cur \in SG /\ cur \notin todo /\ now # 0
      /\ \A sg \in SG \ {cur} : cache'[sg] = cache[sg]
      /\ cache'[cur] = Relabelled(cache[cur])
      /\ cache[cur] \in Entry /\ jitter[cur] \in 0..MaxJitter
  BY DEF Finish, IInv, Clocks
<1>2. Clocks' /\ AtFinish' /\ PolledMode' /\ InTurnServed'
  BY <1>1 DEF IInv, Clocks, AtFinish, PolledMode, InTurnServed
<1>3. /\ cache'[cur].heavy = cache[cur].heavy
      /\ cache'[cur].light = cache[cur].light
      /\ cache'[cur].snapshot = cache[cur].snapshot
      /\ cache'[cur].label = IF cache[cur].label = "ERROR" THEN "ERROR"
                             ELSE IF now - cache[cur].snapshot >= MaxAge THEN "STALE" ELSE "OK"
  BY <1>1 DEF Relabelled, Entry
<1>4. now - cache[cur].snapshot < Light + jitter[cur]
  <2>1. AtFinish
    BY DEF IInv
  <2>2. CASE mode = "none"
    BY <2>1, <2>2, <1>1 DEF AtFinish
  <2>3. CASE mode # "none"
    BY <2>1, <2>3, <1>1, SettingsAssumption DEF AtFinish, Entry, IInv
  <2>4. QED
    BY <2>2, <2>3
<1>5. \A sg \in SG : TurnOver(sg)' => TurnOver(sg) \/ sg = cur
  BY <1>1 DEF TurnOver, InTurn
<1>6. AgeBounded' /\ RequestServed'
  <2>1. RequestServed'
    BY <1>1, <1>5 DEF IInv, RequestServed, InTurnServed
  <2>2. AgeBounded'
    <3> SUFFICES ASSUME NEW sg \in SG, TurnOver(sg)'
                 PROVE  /\ cache'[sg].label # "none"
                        /\ now - cache'[sg].snapshot < Light + jitter[sg]
                        /\ cache'[sg].label = "STALE" <=>
                             cache'[sg].label # "ERROR" /\ now - cache'[sg].snapshot >= MaxAge
      BY <1>1 DEF AgeBounded
    <3>1. CASE sg = cur
      BY <3>1, <1>3, <1>4
    <3>2. CASE sg # cur
      BY <3>2, <1>1, <1>5 DEF IInv, AgeBounded
    <3>3. QED
      BY <3>1, <3>2
  <2>3. QED
    BY <2>1, <2>2
<1>7. ASSUME NEW sg \in SG PROVE Stamps(sg)' /\ Before(sg)' /\ After(sg)'
  <2>1. CASE sg # cur
    BY <2>1, <1>1, <1>5 DEF IInv, Stamps, Before, After
  <2>2. CASE sg = cur
    <3>1. Stamps(sg)'
      BY <2>2, <1>1, <1>3 DEF IInv, Stamps
    <3>2. Before(sg)'
      BY <2>2, <1>1 DEF Before
    <3>3. After(sg)'
      BY <2>2, <1>1, <1>3 DEF IInv, AtFinish, After
    <3>4. QED
      BY <3>1, <3>2, <3>3
  <2>3. QED
    BY <2>1, <2>2
<1>8. QED
  BY <1>0, <1>2, <1>6, <1>7 DEF IInv

LEMMA EndCycleKeepsIInv ==
    ASSUME IInv, EndCycle
    PROVE  IInv'
<1> USE DEF TypeOK, settings, requests
<1>0. TypeOK'
  BY TypeCorrectNext DEF IInv, Next, Step
<1>1. /\ UNCHANGED <<clock, jitter, cache, request, asked, now, todo, cur, mode>>
      /\ pc = "next" /\ pc' = "sleep" /\ todo = {} /\ wake' = clock + Light
  BY DEF EndCycle
<1>2. Clocks' /\ AtFinish' /\ PolledMode' /\ InTurnServed'
  BY <1>1, SettingsAssumption DEF IInv, Clocks, AtFinish, PolledMode, InTurnServed
<1>3. \A sg \in SG : TurnOver(sg)' <=> TurnOver(sg)
  BY <1>1 DEF TurnOver, InTurn
<1>4. RequestServed'
  BY <1>1, <1>3 DEF IInv, RequestServed
<1>5. AgeBounded'
  BY <1>1, <1>3 DEF IInv, AgeBounded
<1>6. \A sg \in SG : Stamps(sg)' /\ Before(sg)' /\ After(sg)'
  BY <1>1, <1>3 DEF IInv, Stamps, Before, After
<1>7. QED
  BY <1>0, <1>2, <1>4, <1>5, <1>6 DEF IInv

LEMMA StutterKeepsIInv ==
    ASSUME IInv, UNCHANGED vars
    PROVE  IInv'
<1>1. UNCHANGED <<clock, jitter, cache, request, asked, pc, now, todo, cur, mode, wake>>
  BY DEF vars, settings, thread, requests
<1>2. TypeOK' /\ Clocks' /\ AtFinish' /\ PolledMode' /\ InTurnServed'
  BY <1>1 DEF IInv, TypeOK, Clocks, AtFinish, PolledMode, InTurnServed
<1>3. AgeBounded' /\ RequestServed'
  BY <1>1 DEF IInv, AgeBounded, RequestServed, TurnOver, InTurn
<1>4. \A sg \in SG : Stamps(sg)' /\ Before(sg)' /\ After(sg)'
  BY <1>1 DEF IInv, Stamps, Before, After, TurnOver, InTurn
<1>5. QED
  BY <1>2, <1>3, <1>4 DEF IInv

LEMMA IInvNext == IInv /\ [Next]_vars => IInv'
<1> SUFFICES ASSUME IInv, [Next]_vars PROVE IInv'
  OBVIOUS
<1>1. CASE Tick \/ \E sg \in SG, m \in {"light", "heavy"} : RequestRefresh(sg, m)
  BY <1>1, EnvironmentKeepsIInv
<1>2. CASE StartCycle
  BY <1>2, StartCycleKeepsIInv
<1>3. CASE \E sg \in SG : EnsureEntry(sg)
  BY <1>3, EnsureEntryKeepsIInv
<1>4. CASE Pop
  BY <1>4, PopKeepsIInv
<1>5. CASE PollReturns \/ PollRaises
  BY <1>5, PollKeepsIInv
<1>6. CASE Finish
  BY <1>6, FinishKeepsIInv
<1>7. CASE EndCycle
  BY <1>7, EndCycleKeepsIInv
<1>8. CASE UNCHANGED vars
  BY <1>8, StutterKeepsIInv
<1>9. QED
  BY <1>1, <1>2, <1>3, <1>4, <1>5, <1>6, <1>7, <1>8 DEF Next, Step

\* The inductive invariant holds in every reachable state.
THEOREM Invariant == Spec => []IInv
<1>1. Init => IInv
  BY IInvInit
<1>2. IInv /\ [Next]_vars => IInv'
  BY IInvNext
<1>3. QED
  BY <1>1, <1>2, PTL DEF Spec

-----------------------------------------------------------------------------
(* What it gives *)

\* Each cycle leaves every snapshot younger than Light plus its jitter and labelled by its age.
THEOREM AgeIsBounded == Spec => []AgeBounded
<1>1. IInv => AgeBounded
  BY DEF IInv
<1>2. QED
  BY <1>1, Invariant, PTL

\* A service group in error is polled in every cycle until a poll succeeds.
THEOREM ErrorIsPolledAgain == Spec => []ErrorPolledAgain
<1>1. IInv => ErrorPolledAgain
  BY DEF IInv, AtFinish, ErrorPolledAgain
<1>2. QED
  BY <1>1, Invariant, PTL

\* No request outlives its service group's turn in the next cycle.
THEOREM RequestIsServed == Spec => []RequestServed
<1>1. IInv => RequestServed
  BY DEF IInv
<1>2. QED
  BY <1>1, Invariant, PTL

-----------------------------------------------------------------------------
(* Action properties *)

\* Only a successful poll ends an error.
THEOREM ErrorIsVisible == Spec => ErrorVisible
<1> DEFINE A == \A sg \in SG : cache[sg].label = "ERROR" /\ cache'[sg].label # "ERROR" =>
                    cache'[sg].label = "OK" /\ cache'[sg].light = now /\ cache'[sg].snapshot = now
<1>1. TypeOK /\ [Next]_vars => [A]_vars
  <2> SUFFICES ASSUME TypeOK, Next PROVE A
    OBVIOUS
  <2> USE DEF TypeOK
  <2>1. CASE UNCHANGED cache
    BY <2>1
  <2>2. CASE \E g \in SG : EnsureEntry(g)
    BY <2>2 DEF EnsureEntry
  <2>3. CASE PollReturns
    <3>1. /\ cur \in SG /\ cache[cur] \in Entry
          /\ \A sg \in SG \ {cur} : cache'[sg] = cache[sg]
          /\ cache'[cur] \in {HeavyRefreshed, LightRefreshed(cache[cur])}
      BY <2>3 DEF PollReturns
    <3>2. /\ HeavyRefreshed.label = "OK" /\ HeavyRefreshed.light = now
          /\ HeavyRefreshed.snapshot = now
      BY DEF HeavyRefreshed
    <3>3. /\ LightRefreshed(cache[cur]).label = "OK" /\ LightRefreshed(cache[cur]).light = now
          /\ LightRefreshed(cache[cur]).snapshot = now
      BY <3>1 DEF LightRefreshed, Entry
    <3>4. QED
      BY <3>1, <3>2, <3>3
  <2>4. CASE PollRaises
    BY <2>4 DEF PollRaises, MarkedError, Entry
  <2>5. CASE Finish
    BY <2>5 DEF Finish, Relabelled, Entry
  <2>6. QED
    BY <2>1, <2>2, <2>3, <2>4, <2>5
       DEF Next, Step, Tick, RequestRefresh, StartCycle, Pop, EndCycle, settings, thread
<1>2. QED
  BY <1>1, TypeCorrect, PTL DEF Spec, ErrorVisible

\* An accepted heavy request ends in a heavy poll.
THEOREM HeavyRequestIsKept == Spec => HeavyRequestKept
<1> DEFINE A == \A sg \in SG : request[sg] = "heavy" /\ request'[sg] # "heavy" =>
                    cur = sg /\ pc' = "poll" /\ mode' = "heavy"
<1>1. TypeOK /\ [Next]_vars => [A]_vars
  <2> SUFFICES ASSUME TypeOK, Next PROVE A
    OBVIOUS
  <2>1. CASE UNCHANGED request
    BY <2>1
  <2>2. CASE \E sg \in SG, m \in {"light", "heavy"} : RequestRefresh(sg, m)
    BY <2>2 DEF RequestRefresh, TypeOK
  <2>3. CASE Pop
    <3>1. cur \in SG /\ request \in [SG -> {"none", "light", "heavy"}]
      BY DEF TypeOK
    <3>2. request[cur] = "heavy" => Decision(cur) = "heavy"
      BY <3>1, DecisionTyped
    <3>3. QED
      BY <2>3, <3>1, <3>2 DEF Pop
  <2>4. QED
    BY <2>1, <2>2, <2>3
       DEF Next, Step, Tick, StartCycle, EnsureEntry, PollReturns, PollRaises, Finish, EndCycle,
           requests
<1>2. QED
  BY <1>1, TypeCorrect, PTL DEF Spec, HeavyRequestKept

-----------------------------------------------------------------------------
(*                            SgwSupervisor                                *)

-----------------------------------------------------------------------------
(* Types *)

LEMMA SupervisorTypeCorrectInit == SupervisorInit => SupervisorTypeOK
<1> SUFFICES ASSUME SupervisorInit PROVE SupervisorTypeOK
  OBVIOUS
<1>1. times \in [Thread -> Seq(Nat)]
  <2>1. <<>> \in Seq(Nat)
    OBVIOUS
  <2>2. QED
    BY <2>1 DEF SupervisorInit
<1>2. QED
  BY <1>1 DEF SupervisorInit, SupervisorTypeOK

LEMMA SupervisorTypeCorrectNext == SupervisorTypeOK /\ [SupervisorNext]_supervisorVars => SupervisorTypeOK'
<1> SUFFICES ASSUME SupervisorTypeOK, [SupervisorNext]_supervisorVars PROVE SupervisorTypeOK'
  OBVIOUS
<1> USE DEF SupervisorTypeOK, runtime, managers, main, threads, GotoT
<1>1. CASE Elapse
  BY <1>1 DEF Elapse
<1>2. CASE StartupSucceeds
  <2>1. 1 \in Manager
    BY BoundsAssumption DEF Manager
  <2>2. QED
    BY <1>2, <2>1 DEF StartupSucceeds
<1>3. CASE StartupFails \/ StartReads
  BY <1>3 DEF StartupFails, StartReads
<1>4. CASE StartLocked
  <2>1. ASSUME NEW t \in Thread, NewThread(t)
        PROVE  /\ handle' \in {0} \cup Thread /\ running' \in BOOLEAN
               /\ stopped' \in [Manager -> BOOLEAN]
               /\ tpc' \in [Thread -> {"none", "enter", "cycle", "after", "restart", "publish",
                                       "retire", "pause", "exit", "dead"}]
               /\ current' \in [Thread -> {0} \cup Manager]
    BY <2>1 DEF NewThread
  <2>2. QED
    BY <1>4, <2>1 DEF StartLocked
<1>5. CASE StopReads \/ StopFlags \/ StopReadsThread \/ Join \/ StopClears
  BY <1>5 DEF StopReads, StopFlags, StopReadsThread, Join, StopClears
<1>6. ASSUME NEW t \in Thread, Loop(t) \/ LoopRaises(t) PROVE SupervisorTypeOK'
  <2>1. CASE Enter(t) \/ Evaluate(t) \/ CloneRaises(t) \/ Pause(t)
    BY <2>1 DEF Enter, Evaluate, CloneRaises, Pause
  <2>2. CASE Cycle(t)
    <3>1. PICK bad \in BOOLEAN :
            errors' = [errors EXCEPT ![t] = IF ~bad THEN 0 ELSE IF @ < MaxErrors THEN @ + 1 ELSE @]
      BY <2>2 DEF Cycle
    <3>2. errors' \in [Thread -> Nat]
      BY <3>1
    <3>3. filled' \in [Manager -> BOOLEAN]
      BY <2>2 DEF Cycle
    <3>4. QED
      BY <2>2, <3>2, <3>3 DEF Cycle
  <2>3. CASE PublishStore(t)
    <3>1. made + 1 \in Manager
      BY <2>3, BoundsAssumption DEF PublishStore, Manager
    <3>2. QED
      BY <2>3, <3>1 DEF PublishStore
  <2>4. CASE PublishManager(t)
    BY <2>4 DEF PublishManager
  <2>5. CASE Retire(t)
    <3>1. times' \in [Thread -> Seq(Nat)]
      <4>1. <<>> \in Seq(Nat)
        OBVIOUS
      <4>2. QED
        BY <4>1, <2>5 DEF Retire
    <3>3. stopped' \in [Manager -> BOOLEAN] /\ current' \in [Thread -> {0} \cup Manager]
      BY <2>5 DEF Retire
    <3>4. errors' \in [Thread -> Nat] /\ tpc' \in [Thread -> {"none", "enter", "cycle", "after",
                      "restart", "publish", "retire", "pause", "exit", "dead"}]
      BY <2>5 DEF Retire
    <3>5. UNCHANGED <<uptime, manager, store, handle, running, made, filled, mpc, starts, seen,
                      joined, failed>>
      BY <2>5 DEF Retire
    <3>6. QED
      BY <3>1, <3>3, <3>4, <3>5
  <2>6. CASE Exit(t) \/ LoopRaises(t)
    BY <2>6 DEF Exit, LoopRaises
  <2>7. QED
    BY <1>6, <2>1, <2>2, <2>3, <2>4, <2>5, <2>6 DEF Loop
<1>7. CASE UNCHANGED supervisorVars
  BY <1>7 DEF supervisorVars
<1>8. QED
  BY <1>1, <1>2, <1>3, <1>4, <1>5, <1>6, <1>7 DEF SupervisorNext, Lifespan

\* The types of the variables, in every reachable state.
THEOREM SupervisorTypeCorrect == SupervisorSpec => []SupervisorTypeOK
<1>1. SupervisorInit => SupervisorTypeOK
  BY SupervisorTypeCorrectInit
<1>2. SupervisorTypeOK /\ [SupervisorNext]_supervisorVars => SupervisorTypeOK'
  BY SupervisorTypeCorrectNext
<1>3. QED
  BY <1>1, <1>2, PTL DEF SupervisorSpec

-----------------------------------------------------------------------------
(* The inductive invariant *)

LEMMA SupervisorIInvInit == SupervisorInit => SupervisorIInv
<1> SUFFICES ASSUME SupervisorInit PROVE SupervisorIInv
  OBVIOUS
<1>1. SupervisorTypeOK
  BY SupervisorTypeCorrectInit
<1>2. RunningTruth /\ OnlyShutdownStops
  BY DEF SupervisorInit, RunningTruth, OnlyShutdownStops, InLoop, Alive, Thread
<1>3. Setup /\ UnbuiltUnstopped /\ Publishing /\ EndsByShutdown /\ ReadsPublished
  BY DEF SupervisorInit, Setup, UnbuiltUnstopped, Publishing, EndsByShutdown, ReadsPublished, Alive
<1>4. QED
  BY <1>1, <1>2, <1>3 DEF SupervisorIInv

\* The live thread is the handle's, so two live threads are one.
LEMMA OneAlive ==
    ASSUME RunningTruth, NEW t \in Thread, NEW u \in Thread, Alive(t), Alive(u)
    PROVE  t = u
BY DEF RunningTruth

\* Time, and the steps of the lifespan that start no thread.
LEMMA QuietKeepsIInv ==
    ASSUME SupervisorIInv,
           \/ Elapse \/ StartupSucceeds \/ StartupFails \/ StartReads
           \/ StopReads \/ StopFlags \/ StopReadsThread \/ Join \/ UNCHANGED supervisorVars
    PROVE  SupervisorIInv'
<1> USE DEF SupervisorTypeOK, Manager, Thread, runtime, managers, main, threads, supervisorVars
<1>0. SupervisorTypeOK'
  BY SupervisorTypeCorrectNext DEF SupervisorIInv, SupervisorNext, Lifespan
<1>1. UNCHANGED <<handle, running, tpc, current, failed>>
  BY DEF Elapse, StartupSucceeds, StartupFails, StartReads, StopReads, StopFlags,
         StopReadsThread, Join
<1>2. Stopping => Stopping'
  BY DEF Elapse, StartupSucceeds, StartupFails, StartReads, StopReads, StopFlags,
         StopReadsThread, Join, Stopping
<1>3. RunningTruth'
  BY <1>1 DEF SupervisorIInv, RunningTruth, Alive
<1>4. CASE StartupSucceeds
  <2>1. /\ mpc = "init" /\ mpc' = "start" /\ made' = 1 /\ manager' = 1 /\ store' = 1
        /\ stopped' = stopped
        /\ \A t \in Thread : tpc[t] = "none"
    BY <1>4 DEF StartupSucceeds, SupervisorIInv, Setup
  <2>2. \A m \in Manager : ~stopped[m]
    <3>1. made = 0 /\ \A m \in Manager : m > 0
      BY <2>1 DEF SupervisorIInv, Setup
    <3>2. QED
      BY <3>1 DEF SupervisorIInv, UnbuiltUnstopped
  <2>3. OnlyShutdownStops' /\ Publishing' /\ EndsByShutdown'
    BY <1>1, <2>1 DEF OnlyShutdownStops, InLoop, Alive, Publishing, EndsByShutdown
  <2>4. Setup'
    BY <1>1, <1>4, <2>1 DEF SupervisorIInv, Setup, StartupSucceeds, Alive
  <2>5. UnbuiltUnstopped' /\ ReadsPublished'
    BY <1>1, <2>1, <2>2 DEF UnbuiltUnstopped, ReadsPublished
  <2>6. QED
    BY <1>0, <1>3, <2>3, <2>4, <2>5 DEF SupervisorIInv
<1>5. CASE ~StartupSucceeds
  <2>1. UNCHANGED <<made, manager, store>>
    BY <1>5 DEF Elapse, StartupFails, StartReads, StopReads, StopFlags, StopReadsThread, Join
  <2>2. stopped' = stopped \/ (Stopping' /\ stopped' = [stopped EXCEPT ![seen] = TRUE])
    BY <1>5 DEF Elapse, StartupFails, StartReads, StopReads, StopFlags, StopReadsThread, Join,
                Stopping
  <2>3. OnlyShutdownStops'
    <3>1. CASE Stopping'
      BY <3>1 DEF OnlyShutdownStops, Stopping
    <3>2. CASE ~Stopping'
      <4>1. OnlyShutdownStops /\ ~Stopping /\ stopped' = stopped
        BY <1>2, <2>2, <3>2 DEF SupervisorIInv
      <4>2. \A t \in Thread : InLoop(t)' <=> InLoop(t)
        BY <1>1 DEF InLoop, Alive
      <4>3. QED
        BY <1>1, <4>1, <4>2 DEF OnlyShutdownStops, Stopping
    <3>3. QED
      BY <3>1, <3>2
  <2>4. Setup'
    BY <1>1, <1>5, <2>1 DEF SupervisorIInv, Setup, Alive, Elapse, StartupFails, StartReads, StopReads,
                            StopFlags, StopReadsThread, Join
  <2>5. UnbuiltUnstopped'
    <3>1. /\ seen \in Nat /\ made \in Nat /\ seen <= made /\ Manager \subseteq Nat
          /\ stopped \in [Manager -> BOOLEAN]
      BY DEF SupervisorIInv, Setup
    <3>2. \A m \in Manager : m > made => stopped'[m] = stopped[m]
      <4> SUFFICES ASSUME NEW m \in Manager, m > made PROVE stopped'[m] = stopped[m]
        OBVIOUS
      <4>1. m # seen
        BY <3>1
      <4>2. QED
        BY <2>2, <3>1, <4>1
    <3>3. QED
      BY <2>1, <3>2 DEF SupervisorIInv, UnbuiltUnstopped
  <2>6. Publishing'
    BY <1>1, <1>2, <2>1, <2>2 DEF SupervisorIInv, Publishing
  <2>7. EndsByShutdown'
    BY <1>1, <1>2 DEF SupervisorIInv, EndsByShutdown
  <2>8. mpc' = "startlock" => seen' = manager \/ (mpc = "startlock" /\ seen' = seen)
    BY <1>5 DEF Elapse, StartupFails, StartReads, StopReads, StopFlags, StopReadsThread, Join
  <2>9. ReadsPublished'
    BY <1>1, <1>2, <2>1, <2>8 DEF SupervisorIInv, ReadsPublished, Alive
  <2>10. QED
    BY <1>0, <1>3, <2>3, <2>4, <2>5, <2>6, <2>7, <2>9 DEF SupervisorIInv
<1>6. QED
  BY <1>4, <1>5

\* start makes a thread only when none is alive, for the manager that is published.
LEMMA StartLockedKeepsIInv ==
    ASSUME SupervisorIInv, StartLocked
    PROVE  SupervisorIInv'
<1> USE DEF SupervisorTypeOK
<1>0. SupervisorTypeOK'
  BY SupervisorTypeCorrectNext DEF SupervisorIInv, SupervisorNext, Lifespan
<1>1. /\ UNCHANGED <<manager, store, made, seen, failed>>
      /\ mpc = "startlock" /\ mpc' \in {"serving", "start"}
  BY DEF StartLocked
<1>2. ~Stopping /\ ~Stopping' /\ mpc' # "init" /\ mpc' # "startlock" /\ made > 0
  BY <1>1 DEF Stopping, SupervisorIInv, Setup
<1>3. CASE handle # 0 /\ Alive(handle)
  <2>1. UNCHANGED <<handle, running, stopped, tpc, current>>
    BY <1>3 DEF StartLocked
  <2>2. RunningTruth' /\ OnlyShutdownStops' /\ UnbuiltUnstopped' /\ Publishing' /\ EndsByShutdown'
    BY <1>1, <1>2, <2>1 DEF SupervisorIInv, RunningTruth, OnlyShutdownStops, UnbuiltUnstopped, Publishing,
                            EndsByShutdown, InLoop, Alive, Stopping
  <2>3. Setup'
    BY <1>1, <1>2, <2>1 DEF SupervisorIInv, Setup, Alive
  <2>4. ReadsPublished'
    BY <1>1, <1>2, <2>1 DEF SupervisorIInv, ReadsPublished, Alive
  <2>5. QED
    BY <1>0, <2>2, <2>3, <2>4 DEF SupervisorIInv
<1>4. CASE ~(handle # 0 /\ Alive(handle))
  <2>1. \A t \in Thread : ~Alive(t)
    BY <1>4 DEF SupervisorIInv, RunningTruth, Thread
  <2>2. PICK t \in Thread : NewThread(t)
    BY <1>4 DEF StartLocked
  <2>3. /\ handle' = t /\ running' = TRUE /\ t # 0
        /\ stopped' = [stopped EXCEPT ![seen] = FALSE]
        /\ tpc' = [tpc EXCEPT ![t] = "enter"]
        /\ current' = [current EXCEPT ![t] = seen]
    BY <2>2 DEF NewThread, Thread
  <2>4. \A u \in Thread : Alive(u)' <=> u = t
    BY <2>1, <2>3 DEF Alive, SupervisorIInv
  <2>5. RunningTruth'
    BY <2>3, <2>4 DEF RunningTruth
  <2>6. \A m \in Manager : stopped'[m] => stopped[m]
    BY <2>3 DEF SupervisorIInv
  <2>7. OnlyShutdownStops'
    <3>1. seen \in Manager /\ stopped \in [Manager -> BOOLEAN]
      BY <1>1 DEF SupervisorIInv, Setup
    <3>2. ~stopped'[seen]
      BY <2>3, <3>1
    <3>3. current'[t] = seen
      BY <2>3 DEF SupervisorIInv
    <3>4. QED
      BY <2>4, <3>2, <3>3 DEF OnlyShutdownStops, InLoop, Alive
  <2>8. Setup'
    <3>1. seen > 0 /\ current' = [current EXCEPT ![t] = seen] /\ seen' = seen
      BY <1>1, <2>3 DEF SupervisorIInv, Setup
    <3>2. \A u \in Thread : current'[u] \in {current[u], seen}
      BY <3>1 DEF SupervisorIInv
    <3>3. current'[t] = seen
      BY <3>1 DEF SupervisorIInv
    <3>4. QED
      BY <1>1, <1>2, <2>4, <3>1, <3>2, <3>3 DEF SupervisorIInv, Setup
  <2>9. UnbuiltUnstopped'
    <3>1. UnbuiltUnstopped
      BY DEF SupervisorIInv
    <3>2. QED
      BY <1>1, <2>6, <3>1 DEF UnbuiltUnstopped
  <2>10. Publishing' /\ EndsByShutdown'
    <3>1. tpc'[t] = "enter" /\ \A u \in Thread : u # t => tpc'[u] = tpc[u] /\ ~Alive(u)
      BY <2>1, <2>3 DEF SupervisorIInv
    <3>2. Publishing'
      BY <3>1 DEF Publishing, Alive
    <3>3. EndsByShutdown'
      BY <1>1, <1>2, <3>1 DEF SupervisorIInv, EndsByShutdown
    <3>4. QED
      BY <3>2, <3>3
  <2>11. ReadsPublished'
    <3>1. ~failed => store = manager /\ seen = manager
      BY <1>1, <1>2, <2>1 DEF SupervisorIInv, ReadsPublished
    <3>2. QED
      BY <1>1, <2>1, <2>3, <2>4, <3>1 DEF SupervisorIInv, ReadsPublished, Alive
  <2>12. QED
    BY <1>0, <2>5, <2>7, <2>8, <2>9, <2>10, <2>11 DEF SupervisorIInv
<1>5. QED
  BY <1>3, <1>4

\* stop forgets only a thread that ended, which has forgotten itself already.
LEMMA StopClearsKeepsIInv ==
    ASSUME SupervisorIInv, StopClears
    PROVE  SupervisorIInv'
<1>1. /\ UNCHANGED <<uptime, manager, store, made, stopped, filled, starts, seen, joined,
                     tpc, current, errors, times, failed>>
      /\ mpc = "clear" /\ mpc' = "done"
  BY DEF StopClears, managers, threads
<1>2. SupervisorTypeOK'
  BY SupervisorTypeCorrectNext DEF SupervisorIInv, SupervisorNext, Lifespan
<1>3. handle' = handle /\ running' = running
  <2>1. joined # 0 /\ handle = joined => Alive(joined)
    BY DEF SupervisorIInv, RunningTruth, SupervisorTypeOK
  <2>2. handle = 0 => ~running
    BY DEF SupervisorIInv, RunningTruth
  <2>3. running \in BOOLEAN
    BY DEF SupervisorIInv, SupervisorTypeOK
  <2>4. QED
    BY <2>1, <2>2, <2>3 DEF StopClears
<1>4. RunningTruth' /\ OnlyShutdownStops' /\ EndsByShutdown' /\ UnbuiltUnstopped' /\ Publishing'
  BY <1>1, <1>3 DEF SupervisorIInv, RunningTruth, OnlyShutdownStops, EndsByShutdown, UnbuiltUnstopped,
                    Publishing, InLoop, Alive, Stopping
<1>5. Setup' /\ ReadsPublished'
  BY <1>1 DEF SupervisorIInv, Setup, ReadsPublished, Alive, Stopping
<1>6. QED
  BY <1>2, <1>4, <1>5 DEF SupervisorIInv

-----------------------------------------------------------------------------
(* The refresh thread *)

\* What every step of the loop has in common: it is the live thread's, and leaves main alone.
LEMMA LoopStep ==
    ASSUME SupervisorIInv, NEW t \in Thread, Loop(t) \/ LoopRaises(t)
    PROVE  /\ SupervisorTypeOK'
           /\ Alive(t) /\ handle = t /\ running /\ current[t] > 0
           /\ \A u \in Thread : u # t => ~Alive(u) /\ tpc'[u] = tpc[u] /\ current'[u] = current[u]
           /\ UNCHANGED main
           /\ Stopping' = Stopping
           /\ tpc[t] = "exit" \/ InLoop(t)
<1>1. SupervisorTypeOK'
  BY SupervisorTypeCorrectNext DEF SupervisorIInv, SupervisorNext
<1>2. Alive(t) /\ (tpc[t] = "exit" \/ InLoop(t))
  BY DEF Loop, LoopRaises, Enter, Cycle, Evaluate, PublishStore, CloneRaises, PublishManager,
         Retire, Pause, Exit, Alive, InLoop
<1>3. handle = t /\ running /\ current[t] > 0
  BY <1>2 DEF SupervisorIInv, RunningTruth, Setup, Thread
<1>4. \A u \in Thread : u # t => ~Alive(u)
  BY <1>3 DEF SupervisorIInv, RunningTruth
<1>5. UNCHANGED main
  BY DEF Loop, LoopRaises, Enter, Cycle, Evaluate, PublishStore, CloneRaises, PublishManager,
         Retire, Pause, Exit
<1>6. \A u \in Thread : u # t => tpc'[u] = tpc[u] /\ current'[u] = current[u]
  BY DEF Loop, LoopRaises, Enter, Cycle, Evaluate, PublishStore, CloneRaises, PublishManager,
         Retire, Pause, Exit, GotoT, SupervisorIInv, SupervisorTypeOK
<1>7. Stopping' = Stopping
  BY <1>5 DEF Stopping, main
<1>8. QED
  BY <1>1, <1>2, <1>3, <1>4, <1>5, <1>6, <1>7

\* A step that moves the thread within its loop and publishes nothing.
LEMMA PlainStepKeepsIInv ==
    ASSUME SupervisorIInv, NEW t \in Thread,
           \/ Enter(t) \/ Cycle(t) \/ Evaluate(t) \/ CloneRaises(t) \/ Pause(t) \/ LoopRaises(t)
    PROVE  SupervisorIInv'
<1>1. Loop(t) \/ LoopRaises(t)
  BY DEF Loop
<1>2. /\ UNCHANGED <<manager, store, handle, running, made, stopped, current>>
      /\ UNCHANGED main
      /\ failed => failed'
  BY DEF Enter, Cycle, Evaluate, CloneRaises, Pause, LoopRaises, runtime, managers
<1>3. /\ tpc[t] \in {"enter", "cycle", "after", "restart", "pause"}
      /\ \/ tpc'[t] \in {"enter", "cycle", "after", "restart", "pause"} /\ failed' = failed
         \/ tpc'[t] = "exit" /\ (failed' \/ stopped[current[t]])
  BY DEF Enter, Cycle, Evaluate, CloneRaises, Pause, LoopRaises, GotoT, SupervisorIInv, SupervisorTypeOK
<1>4. \A u \in Thread : Alive(u)' <=> Alive(u)
  BY <1>1, <1>3, LoopStep DEF Alive
<1>5. RunningTruth'
  BY <1>2, <1>4 DEF SupervisorIInv, RunningTruth
<1>6. OnlyShutdownStops'
  BY <1>1, <1>2, <1>3, <1>4, LoopStep DEF SupervisorIInv, OnlyShutdownStops, InLoop, Alive, Stopping
<1>7. Setup'
  <2>1. mpc # "init"
    BY <1>3 DEF SupervisorIInv, Setup
  <2>2. QED
    BY <1>2, <1>4, <2>1 DEF SupervisorIInv, Setup, main
<1>8. UnbuiltUnstopped' /\ Publishing'
  BY <1>1, <1>2, <1>3, LoopStep DEF SupervisorIInv, UnbuiltUnstopped, Publishing
<1>9. EndsByShutdown'
  <2>1. stopped[current[t]] => Stopping
    BY <1>3 DEF SupervisorIInv, OnlyShutdownStops, InLoop, Alive, Stopping
  <2>2. QED
    BY <1>1, <1>2, <1>3, <2>1, LoopStep DEF SupervisorIInv, EndsByShutdown
<1>10. ReadsPublished'
  <2> SUFFICES ASSUME ~failed' PROVE ReadsPublished'
    BY DEF ReadsPublished
  <2>1. ~failed
    BY <1>2
  <2>2. current[t] = manager /\ store = manager
    BY <1>3, <2>1 DEF SupervisorIInv, ReadsPublished
  <2>3. Alive(t)'
    BY <1>3 DEF Alive
  <2>4. \A u \in Thread : u # t => tpc'[u] \in {"none", "dead"}
    BY <1>1, LoopStep DEF Alive
  <2>5. QED
    BY <1>2, <1>3, <2>2, <2>3, <2>4 DEF ReadsPublished
<1>11. QED
  BY <1>1, <1>5, <1>6, <1>7, <1>8, <1>9, <1>10, LoopStep DEF SupervisorIInv

\* The store that is published first, and the manager that follows.
LEMMA PublishKeepsIInv ==
    ASSUME SupervisorIInv, NEW t \in Thread, PublishStore(t) \/ PublishManager(t)
    PROVE  SupervisorIInv'
<1>1. Loop(t)
  BY DEF Loop
<1>2. /\ UNCHANGED <<handle, running, stopped, current, failed>>
      /\ UNCHANGED main
  BY DEF PublishStore, PublishManager, managers
<1>3. \A u \in Thread : Alive(u)' <=> Alive(u)
  BY <1>1, LoopStep DEF PublishStore, PublishManager, GotoT, Alive, SupervisorIInv, SupervisorTypeOK
<1>4. \A u \in Thread : u # t => tpc'[u] \in {"none", "dead"}
  BY <1>1, LoopStep DEF Alive
<1>5. RunningTruth'
  BY <1>2, <1>3 DEF SupervisorIInv, RunningTruth
<1>6. InLoop(t) /\ mpc # "init"
  BY DEF PublishStore, PublishManager, InLoop, Alive, SupervisorIInv, Setup
<1>7. OnlyShutdownStops'
  <2>1. stopped[current[t]] => Stopping
    BY <1>6 DEF SupervisorIInv, OnlyShutdownStops, Stopping
  <2>2. QED
    BY <1>1, <1>2, <1>4, <2>1, LoopStep DEF OnlyShutdownStops, InLoop, Alive, Stopping
<1>8. EndsByShutdown'
  <2>1. tpc'[t] \in {"publish", "retire"}
    BY DEF PublishStore, PublishManager, GotoT, SupervisorIInv, SupervisorTypeOK
  <2>2. QED
    BY <1>1, <1>2, <2>1, LoopStep DEF SupervisorIInv, EndsByShutdown
<1>9. CASE PublishStore(t)
  <2>1. /\ tpc[t] = "restart" /\ tpc'[t] = "publish" /\ manager' = manager
        /\ made' = made + 1 /\ store' = made + 1 /\ made' \in Manager /\ made \in Nat
    BY <1>9, BoundsAssumption DEF PublishStore, GotoT, SupervisorIInv, SupervisorTypeOK, Manager
  <2>2. /\ {manager, store, seen, current[t]} \subseteq Nat /\ Manager \subseteq Nat
        /\ \A u \in Thread : current[u] \in Nat
    BY DEF SupervisorIInv, SupervisorTypeOK, Manager
  <2>3. Setup'
    BY <1>2, <1>3, <1>6, <2>1, <2>2 DEF SupervisorIInv, Setup, main
  <2>4. UnbuiltUnstopped'
    <3>1. stopped' = stopped
      BY <1>9 DEF PublishStore
    <3>2. \A m \in Manager : m > made' => m > made
      BY <2>1, <2>2
    <3>3. QED
      BY <3>1, <3>2 DEF SupervisorIInv, UnbuiltUnstopped
  <2>5. Publishing'
    <3>1. current[t] < made'
      BY <2>1, <2>2 DEF SupervisorIInv, Setup
    <3>2. ~stopped[made']
      BY <2>1 DEF SupervisorIInv, UnbuiltUnstopped
    <3>3. QED
      BY <1>2, <1>4, <3>1, <3>2 DEF Publishing
  <2>6. ReadsPublished'
    <3>1. Alive(t)'
      BY <2>1 DEF Alive
    <3>2. ~failed => current[t] = manager
      BY <2>1 DEF SupervisorIInv, ReadsPublished
    <3>3. QED
      BY <1>2, <1>4, <2>1, <3>1, <3>2 DEF ReadsPublished
  <2>7. QED
    BY <1>1, <1>5, <1>7, <1>8, <2>3, <2>4, <2>5, <2>6, LoopStep DEF SupervisorIInv
<1>10. CASE PublishManager(t)
  <2>1. /\ tpc[t] = "publish" /\ tpc'[t] = "retire" /\ manager' = made
        /\ UNCHANGED <<made, store>>
    BY <1>10 DEF PublishManager, GotoT, SupervisorIInv, SupervisorTypeOK, managers
  <2>2. Setup'
    <3>1. mpc' = mpc /\ seen' = seen
      BY <1>2 DEF main
    <3>2. made \in Nat /\ current[t] \in Nat /\ current[t] < made
      BY <2>1 DEF SupervisorIInv, Publishing, SupervisorTypeOK, Manager
    <3>3. QED
      BY <1>2, <1>3, <1>6, <2>1, <3>1, <3>2 DEF SupervisorIInv, Setup
  <2>3. UnbuiltUnstopped' /\ Publishing'
    BY <1>1, <1>2, <1>4, <2>1, LoopStep DEF SupervisorIInv, UnbuiltUnstopped, Publishing
  <2>4. ReadsPublished'
    <3>1. Alive(t)'
      BY <2>1 DEF Alive
    <3>2. ~failed => store = made
      BY <2>1 DEF SupervisorIInv, ReadsPublished
    <3>3. QED
      BY <1>2, <1>4, <2>1, <3>1, <3>2 DEF ReadsPublished
  <2>5. QED
    BY <1>1, <1>5, <1>7, <1>8, <2>2, <2>3, <2>4, LoopStep DEF SupervisorIInv
<1>11. QED
  BY <1>9, <1>10
\* The loop goes on with the manager that was published, and stops only the old one.
LEMMA RetireKeepsIInv ==
    ASSUME SupervisorIInv, NEW t \in Thread, Retire(t)
    PROVE  SupervisorIInv'
<1>1. Loop(t)
  BY DEF Loop
<1>2. /\ UNCHANGED <<manager, store, handle, running, made, failed>>
      /\ UNCHANGED main
      /\ tpc[t] = "retire" /\ tpc'[t] = "enter"
      /\ current'[t] = made
      /\ stopped' = [stopped EXCEPT ![current[t]] = TRUE]
  BY DEF Retire, GotoT, SupervisorIInv, SupervisorTypeOK, runtime
<1>3. /\ made \in Manager /\ current[t] \in Manager /\ current[t] < made /\ made > 0
      /\ stopped \in [Manager -> BOOLEAN] /\ Manager \subseteq Nat
  <2>1. made \in Nat /\ current[t] \in Nat /\ current[t] < made /\ current[t] > 0
    BY <1>1, <1>2, LoopStep DEF SupervisorIInv, Publishing, SupervisorTypeOK, Manager
  <2>2. QED
    BY <2>1 DEF SupervisorIInv, SupervisorTypeOK, Manager
<1>4. \A m \in Manager : m # current[t] => stopped'[m] = stopped[m]
  BY <1>2, <1>3
<1>5. \A u \in Thread : u # t => tpc'[u] \in {"none", "dead"}
  BY <1>1, LoopStep DEF Alive
<1>6. \A u \in Thread : Alive(u)' <=> Alive(u)
  BY <1>1, <1>2, LoopStep DEF Alive
<1>7. RunningTruth'
  BY <1>2, <1>6 DEF SupervisorIInv, RunningTruth
<1>8. OnlyShutdownStops'
  <2>1. stopped'[made] => Stopping'
    BY <1>1, <1>2, <1>3, <1>4, LoopStep DEF SupervisorIInv, Publishing
  <2>2. QED
    BY <1>2, <1>5, <2>1 DEF OnlyShutdownStops, InLoop, Alive, Stopping
<1>9. Setup'
  <2>1. mpc' = mpc /\ seen' = seen
    BY <1>2 DEF main
  <2>2. mpc # "init"
    BY <1>2 DEF SupervisorIInv, Setup
  <2>3. \A u \in Thread : u # t => current'[u] = current[u]
    BY <1>1, LoopStep
  <2>4. QED
    <3>1. \A u \in Thread : current'[u] <= made /\ (Alive(u) => current'[u] > 0)
      BY <1>2, <1>3, <2>3 DEF SupervisorIInv, Setup
    <3>2. QED
      BY <1>2, <1>3, <1>6, <2>1, <2>2, <3>1 DEF SupervisorIInv, Setup
<1>10. UnbuiltUnstopped'
  <2>1. \A m \in Manager : m > made => m # current[t]
    BY <1>3
  <2>2. QED
    BY <1>2, <1>4, <2>1 DEF SupervisorIInv, UnbuiltUnstopped
<1>11. Publishing' /\ EndsByShutdown'
  BY <1>1, <1>2, <1>5, LoopStep DEF SupervisorIInv, Publishing, EndsByShutdown
<1>12. ReadsPublished'
  <2>1. Alive(t)'
    BY <1>2 DEF Alive
  <2>2. ~failed => manager = made /\ store = made
    BY <1>2 DEF SupervisorIInv, ReadsPublished
  <2>3. QED
    BY <1>2, <1>5, <2>1, <2>2 DEF ReadsPublished
<1>13. QED
  BY <1>1, <1>7, <1>8, <1>9, <1>10, <1>11, <1>12, LoopStep DEF SupervisorIInv

\* The finally clause forgets the thread that is about to end.
LEMMA ExitKeepsIInv ==
    ASSUME SupervisorIInv, NEW t \in Thread, Exit(t)
    PROVE  SupervisorIInv'
<1>1. Loop(t)
  BY DEF Loop
<1>2. /\ UNCHANGED <<manager, store, made, stopped, current, failed>>
      /\ UNCHANGED main
      /\ tpc[t] = "exit" /\ tpc'[t] = "dead" /\ handle' = 0 /\ running' = FALSE
  BY DEF Exit, GotoT, SupervisorIInv, SupervisorTypeOK, managers
<1>3. \A u \in Thread : tpc'[u] \in {"none", "dead"}
  BY <1>1, <1>2, LoopStep DEF Alive
<1>4. 0 \notin Thread
  BY DEF Thread
<1>5. RunningTruth' /\ OnlyShutdownStops' /\ Publishing'
  BY <1>2, <1>3, <1>4 DEF RunningTruth, OnlyShutdownStops, Publishing, InLoop, Alive
<1>6. Setup'
  <2>1. mpc' = mpc /\ seen' = seen /\ mpc # "init"
    BY <1>2 DEF main, SupervisorIInv, Setup
  <2>2. QED
    BY <1>2, <1>3, <2>1 DEF SupervisorIInv, Setup, Alive
<1>7. UnbuiltUnstopped'
  BY <1>2 DEF SupervisorIInv, UnbuiltUnstopped
<1>8. EndsByShutdown'
  BY <1>1, <1>2, LoopStep DEF SupervisorIInv, EndsByShutdown
<1>9. ReadsPublished'
  <2>1. failed \/ Stopping
    BY <1>2 DEF SupervisorIInv, EndsByShutdown
  <2>2. QED
    BY <1>1, <1>2, <1>3, <2>1, LoopStep DEF ReadsPublished
<1>10. QED
  BY <1>1, <1>5, <1>6, <1>7, <1>8, <1>9, LoopStep DEF SupervisorIInv

LEMMA SupervisorIInvNext == SupervisorIInv /\ [SupervisorNext]_supervisorVars => SupervisorIInv'
<1> SUFFICES ASSUME SupervisorIInv, [SupervisorNext]_supervisorVars PROVE SupervisorIInv'
  OBVIOUS
<1>1. CASE Elapse \/ UNCHANGED supervisorVars
  BY <1>1, QuietKeepsIInv
<1>2. CASE Lifespan
  BY <1>2, QuietKeepsIInv, StartLockedKeepsIInv, StopClearsKeepsIInv DEF Lifespan
<1>3. ASSUME NEW t \in Thread, Loop(t) \/ LoopRaises(t) PROVE SupervisorIInv'
  BY <1>3, PlainStepKeepsIInv, PublishKeepsIInv, RetireKeepsIInv, ExitKeepsIInv DEF Loop
<1>4. QED
  BY <1>1, <1>2, <1>3 DEF SupervisorNext

\* The inductive invariant holds in every reachable state.
THEOREM SupervisorInvariant == SupervisorSpec => []SupervisorIInv
<1>1. SupervisorInit => SupervisorIInv
  BY SupervisorIInvInit
<1>2. SupervisorIInv /\ [SupervisorNext]_supervisorVars => SupervisorIInv'
  BY SupervisorIInvNext
<1>3. QED
  BY <1>1, <1>2, PTL DEF SupervisorSpec

-----------------------------------------------------------------------------
(* What it gives *)

\* Starts, guard restarts, exceptions and the shutdown leave at most one thread that refreshes.
THEOREM AtMostOneLoop == SupervisorSpec => []OneLoop
<1>1. SupervisorIInv => OneLoop
  BY OneAlive DEF SupervisorIInv, OneLoop, InLoop
<1>2. QED
  BY <1>1, SupervisorInvariant, PTL

\* The running flag and the thread handle tell the truth.
THEOREM RunningIsTrue == SupervisorSpec => []RunningTruth
<1>1. SupervisorIInv => RunningTruth
  BY DEF SupervisorIInv
<1>2. QED
  BY <1>1, SupervisorInvariant, PTL

\* Without an exception the loop works on the manager and the store that are published.
THEOREM LoopIsPublished == SupervisorSpec => []LoopRunsPublished
<1>1. SupervisorIInv => LoopRunsPublished
  BY DEF SupervisorIInv, ReadsPublished, LoopRunsPublished
<1>2. QED
  BY <1>1, SupervisorInvariant, PTL

\* A guard restart never stops the loop it restarts.
THEOREM OnlyShutdownStopsLoop == SupervisorSpec => []OnlyShutdownStops
<1>1. SupervisorIInv => OnlyShutdownStops
  BY DEF SupervisorIInv
<1>2. QED
  BY <1>1, SupervisorInvariant, PTL

-----------------------------------------------------------------------------
(*                             Inventory                                   *)

\* A job's history: the rows that are and have been, and those that were there throughout.  No row was
\* given to another modem, and what was there throughout was there alone.
Watched ==
    /\ job.kind = "idle" => job = Idle /\ ever = {} /\ always = {}
    /\ job.kind # "idle" => Rows \subseteq ever /\ always \subseteq Rows
    /\ \A i, j \in Index : table[i] # None /\ table[j] # None /\ table[i].mac = table[j].mac => i = j
    /\ \A r, s \in ever : r.id = s.id => r.mac = s.mac
    /\ \A r \in always, s \in ever : r.id = s.id \/ r.mac = s.mac => r = s

Reads == {"poll", "list"}
Lookups == {"inet", "sgof"}

\* The rows that are read were in the group, and what was found of them is so.
Joined ==
    /\ \A i \in Index : i \in job.rows \/ i = job.row => \E r \in ever : r.id = i /\ r.sg = job.about
    /\ job.mac # None => job.row # None /\ \E r \in ever : r.id = job.row /\ r.mac = job.mac
    /\ \A m \in job.found : Held(m.mac, m.ip) /\ InGroup(m.mac, job.about)

\* A lookup's row is the modem's, and so is the answer.
LookedUp ==
    job.kind \in Lookups =>
        /\ job.hit # None => \E r \in ever : r.id = job.hit /\ r.mac = job.about
        /\ Sending /\ job.next # 1 => job.hit # None
        /\ answer.exists => job.hit # None
        /\ job.kind = "inet" => IF job.hit = None THEN answer.value = None ELSE Held(job.about, answer.value)
        /\ job.kind = "sgof" /\ answer.value # None => InGroup(job.about, answer.value)

\* As long as no request is lost, a row that stays is still to be read or was found.
RowsComplete ==
    ~lossy =>
        /\ job.kind \in Reads /\ ~Sending => \A r \in always : r.sg = job.about =>
             r.id \in job.rows \/ r.id = job.row \/ [mac |-> r.mac, ip |-> r.ip] \in job.found
        /\ \A r \in always : r.id = job.row => job.mac = r.mac
        /\ \A m \in job.found, r \in always : m.mac = r.mac => m.ip = r.ip

LookupsComplete ==
    ~lossy /\ job.kind \in Lookups =>
        \A r \in always : r.mac = job.about =>
            /\ job.next > 1 => job.hit = r.id
            /\ job.next > 2 => answer.value = IF job.kind = "inet" THEN r.ip ELSE r.sg

\* The requests that are always sent, or whenever the table they go to was read.
Owed == {"nodes", "sets", "lists", "qam", "qamfields", "ofdm", "ofdmid", "bdry", "band"}

PlanComplete ==
    ~lossy => \A k \in DOMAIN Plan(job.kind) : k < job.next /\ Plan(job.kind)[k][1] \in Owed =>
                Plan(job.kind)[k] \in job.ans

InventoryIInv ==
    InventoryTypeOK /\ Watched /\ Joined /\ LookedUp /\ RowsComplete /\ LookupsComplete /\ PlanComplete

-----------------------------------------------------------------------------
(* Plans and rows *)

\* A non-empty set of numbers has a least one.
LEMMA LeastNumber ==
    ASSUME NEW S \in SUBSET Nat, S # {}
    PROVE  Min(S) \in S /\ \A k \in S : Min(S) <= k
<1>1. \E m \in S : \A k \in S : ~ (<<k, m>> \in OpToRel(<, Nat))
  BY NatLessThanWellFounded, WFMin
<1>2. \A m, k \in Nat : ~ (<<k, m>> \in OpToRel(<, Nat)) => m <= k
  BY DEF OpToRel
<1>3. \E m \in S : \A k \in S : m <= k
  BY <1>1, <1>2
<1>4. QED
  BY <1>3 DEF Min

LEMMA PollPlanRows ==
    /\ Len(PollPlan) = 24 /\ DOMAIN PollPlan = 1..24
    /\ \A k \in 1..23 : PollPlan[k] \in Table \X Dir
    /\ PollPlan[24] = <<"rows", "cm">>
<1>1. Len(PollPlan) = 24 /\ DOMAIN PollPlan = 1..24
  BY DEF PollPlan
<1>2. ASSUME NEW k \in 1..23 PROVE PollPlan[k] \in Table \X Dir
  <2>1. k \in {1,2,3,4,5,6,7,8} \/ k \in {9,10,11,12,13,14,15,16} \/ k \in {17,18,19,20,21,22,23}
    OBVIOUS
  <2>2. CASE k \in {1,2,3,4,5,6,7,8}
    BY <2>2 DEF PollPlan, Table, Dir
  <2>3. CASE k \in {9,10,11,12,13,14,15,16}
    BY <2>3 DEF PollPlan, Table, Dir
  <2>4. CASE k \in {17,18,19,20,21,22,23}
    BY <2>4 DEF PollPlan, Table, Dir
  <2>5. QED
    BY <2>1, <2>2, <2>3, <2>4
<1>3. PollPlan[24] = <<"rows", "cm">>
  BY DEF PollPlan
<1>4. QED
  BY <1>1, <1>2, <1>3

\* What the plans have in common: tables first, then the rows of a group or of a modem.
LEMMA PlanShape ==
    ASSUME NEW kind, NEW k \in DOMAIN Plan(kind)
    PROVE  /\ DOMAIN Plan(kind) = 1..Len(Plan(kind)) /\ Len(Plan(kind)) \in Nat /\ kind # "idle"
           /\ \/ Plan(kind)[k] \in Table \X Dir /\ kind \notin Lookups \cup {"list"}
              \/ Plan(kind)[k] = <<"rows", "cm">> /\ kind \in Reads /\ k = Len(Plan(kind))
              \/ Plan(kind)[k] = <<"macs", "cm">> /\ kind \in Lookups /\ k = 1
              \/ Plan(kind)[k] = <<"addr", "cm">> /\ kind = "inet" /\ k = 2
              \/ Plan(kind)[k] = <<"addrwalk", "cm">> /\ kind = "inet" /\ k = 3
              \/ Plan(kind)[k] = <<"sgs", "cm">> /\ kind = "sgof" /\ k = 2
<1> USE DEF Lookups, Reads
<1>1. CASE kind = "poll"
  <2>1. Plan(kind) = PollPlan
    BY <1>1 DEF Plan
  <2>2. DOMAIN Plan(kind) = 1..24 /\ Len(Plan(kind)) = 24
    BY <2>1, PollPlanRows
  <2>3. CASE k \in 1..23
    <3>1. Plan(kind)[k] \in Table \X Dir
      BY <2>1, <2>3, PollPlanRows
    <3>2. QED
      BY <1>1, <2>2, <3>1
  <2>4. CASE k = 24
    <3>1. Plan(kind)[k] = <<"rows", "cm">>
      BY <2>1, <2>4, PollPlanRows
    <3>2. QED
      BY <1>1, <2>2, <2>4, <3>1
  <2>5. QED
    BY <2>2, <2>3, <2>4
<1>2. CASE kind \in {"discover", "node"}
  <2>1. Plan(kind) = << <<"nodes", "ds">>, <<"nodes", "us">> >>
    BY <1>2 DEF Plan
  <2>2. QED
    BY <1>2, <2>1 DEF Table, Dir
<1>3. CASE kind \in {"regsg", "dssg"}
  <2>1. Plan(kind) = << <<"nodes", "ds">> >>
    BY <1>3 DEF Plan
  <2>2. QED
    BY <1>3, <2>1 DEF Table, Dir
<1>4. CASE kind = "inet"
  <2>1. Plan(kind) = << <<"macs", "cm">>, <<"addr", "cm">>, <<"addrwalk", "cm">> >>
    BY <1>4 DEF Plan
  <2>2. QED
    BY <1>4, <2>1
<1>5. CASE kind = "sgof"
  <2>1. Plan(kind) = << <<"macs", "cm">>, <<"sgs", "cm">> >>
    BY <1>5 DEF Plan
  <2>2. QED
    BY <1>5, <2>1
<1>6. CASE kind = "list"
  <2>1. Plan(kind) = << <<"rows", "cm">> >>
    BY <1>6 DEF Plan
  <2>2. QED
    BY <1>6, <2>1
<1>7. CASE kind \notin {"poll", "discover", "node", "regsg", "dssg", "inet", "sgof", "list"}
  <2>1. Plan(kind) = <<>>
    BY <1>7 DEF Plan
  <2>2. QED
    BY <2>1
<1>8. QED
  BY <1>1, <1>2, <1>3, <1>4, <1>5, <1>6, <1>7

LEMMA PlanEnds ==
    ASSUME NEW kind
    PROVE  /\ Len(Plan(kind)) \in Nat /\ DOMAIN Plan(kind) = 1..Len(Plan(kind))
           /\ kind = "idle" => Len(Plan(kind)) = 0
           /\ kind = "inet" => Len(Plan(kind)) = 3
           /\ kind = "sgof" => Len(Plan(kind)) = 2
           /\ kind \in Reads => Len(Plan(kind)) # 0
<1>1. CASE kind = "poll"
  <2>1. Plan(kind) = PollPlan
    BY <1>1 DEF Plan
  <2>2. QED
    BY <1>1, <2>1, PollPlanRows
<1>2. CASE kind \in {"discover", "node"}
  <2>1. Plan(kind) = << <<"nodes", "ds">>, <<"nodes", "us">> >>
    BY <1>2 DEF Plan
  <2>2. QED
    BY <1>2, <2>1 DEF Reads
<1>3. CASE kind \in {"regsg", "dssg"}
  <2>1. Plan(kind) = << <<"nodes", "ds">> >>
    BY <1>3 DEF Plan
  <2>2. QED
    BY <1>3, <2>1 DEF Reads
<1>4. CASE kind = "inet"
  <2>1. Plan(kind) = << <<"macs", "cm">>, <<"addr", "cm">>, <<"addrwalk", "cm">> >>
    BY <1>4 DEF Plan
  <2>2. QED
    BY <1>4, <2>1 DEF Reads
<1>5. CASE kind = "sgof"
  <2>1. Plan(kind) = << <<"macs", "cm">>, <<"sgs", "cm">> >>
    BY <1>5 DEF Plan
  <2>2. QED
    BY <1>5, <2>1 DEF Reads
<1>6. CASE kind = "list"
  <2>1. Plan(kind) = << <<"rows", "cm">> >>
    BY <1>6 DEF Plan
  <2>2. QED
    BY <1>6, <2>1 DEF Reads
<1>7. CASE kind \notin {"poll", "discover", "node", "regsg", "dssg", "inet", "sgof", "list"}
  <2>1. Plan(kind) = <<>>
    BY <1>7 DEF Plan
  <2>2. QED
    BY <1>7, <2>1 DEF Reads
<1>8. QED
  BY <1>1, <1>2, <1>3, <1>4, <1>5, <1>6, <1>7

\* The rows of a table, by their ids.
LEMMA RowsOfTable ==
    ASSUME NEW t \in [Index -> Row \cup {None}]
    PROVE  /\ RowsOf(t) \subseteq [id : Index, mac : Mac, sg : Group, ip : Addr]
           /\ \A i \in Index : t[i] # None =>
                /\ t[i].mac \in Mac /\ t[i].sg \in Group /\ t[i].ip \in Addr
                /\ \E r \in RowsOf(t) : r.id = i /\ r.mac = t[i].mac /\ r.sg = t[i].sg /\ r.ip = t[i].ip
           /\ \A r \in RowsOf(t) : t[r.id] # None /\ r.mac = t[r.id].mac /\ r.sg = t[r.id].sg /\ r.ip = t[r.id].ip
           /\ \A r, s \in RowsOf(t) : r.id = s.id => r = s
<1>1. \A i \in Index : t[i] # None => t[i] \in Row
  OBVIOUS
<1>2. \A i \in Index : t[i] # None => t[i].mac \in Mac /\ t[i].sg \in Group /\ t[i].ip \in Addr
  BY <1>1 DEF Row
<1> DEFINE RowAt(i) == [id |-> i, mac |-> t[i].mac, sg |-> t[i].sg, ip |-> t[i].ip]
<1>3. \A r : r \in RowsOf(t) <=> \E i \in Index : t[i] # None /\ r = RowAt(i)
  BY DEF RowsOf
<1>4. RowsOf(t) \subseteq [id : Index, mac : Mac, sg : Group, ip : Addr]
  BY <1>2, <1>3
<1>5. \A i : RowAt(i).id = i /\ RowAt(i).mac = t[i].mac /\ RowAt(i).sg = t[i].sg /\ RowAt(i).ip = t[i].ip
  OBVIOUS
<1> HIDE DEF RowAt
<1>6. \A i \in Index : t[i] # None => RowAt(i) \in RowsOf(t)
  BY <1>3
<1>7. \A r \in RowsOf(t) : r.id \in Index /\ t[r.id] # None /\ r = RowAt(r.id)
  BY <1>3, <1>5
<1>8. \A r \in RowsOf(t) : r.mac = t[r.id].mac /\ r.sg = t[r.id].sg /\ r.ip = t[r.id].ip
  BY <1>5, <1>7
<1>9. \A r, s \in RowsOf(t) : r.id = s.id => r = s
  BY <1>7
<1>10. \A i \in Index : t[i] # None =>
         \E r \in RowsOf(t) : r.id = i /\ r.mac = t[i].mac /\ r.sg = t[i].sg /\ r.ip = t[i].ip
  BY <1>5, <1>6
<1>11. QED
  BY <1>2, <1>4, <1>7, <1>8, <1>9, <1>10

LEMMA IndexesAreNumbers == Index \subseteq Nat /\ None \notin Index /\ None \notin Mac
<1>1. Index \subseteq Nat \ {0} /\ None \notin Int /\ None \notin Mac
  BY Zenon, InventoryAssumption
<1>2. Index \subseteq Nat /\ Nat \subseteq Int
  BY <1>1
<1>3. QED
  BY <1>1, <1>2

-----------------------------------------------------------------------------
(* Types *)

LEMMA NodesTyped ==
    /\ DOMAIN Nodes \subseteq Nat
    /\ \A k \in DOMAIN Nodes : Nodes[k].sg \in Group /\ Nodes[k].ds \in Nat /\ Nodes[k].us \in Nat
<1>1. \A N : \A s \in Seq(N) : DOMAIN s \subseteq Nat /\ \A k \in DOMAIN s : s[k] \in N
  OBVIOUS
<1>2. DOMAIN Nodes \subseteq Nat /\ \A k \in DOMAIN Nodes : Nodes[k] \in [name : STRING, sg : Group, ds : Nat, us : Nat]
  BY <1>1, ChannelAssumption
<1>3. QED
  BY <1>2

LEMMA FirstNodeTyped ==
    ASSUME NEW g, NodesOf(g) # {}
    PROVE  FirstNode(g).ds \in Nat /\ FirstNode(g).us \in Nat
<1>1. NodesOf(g) \in SUBSET Nat /\ NodesOf(g) \subseteq DOMAIN Nodes
  BY NodesTyped DEF NodesOf
<1>2. Min(NodesOf(g)) \in DOMAIN Nodes
  BY <1>1, LeastNumber
<1>3. QED
  BY <1>2, NodesTyped DEF FirstNode

LEMMA ChannelTables ==
    ASSUME NEW d \in Dir
    PROVE  /\ \A id \in DOMAIN SetOf[d] : SetOf[d][id] \in Nat
           /\ \A set \in DOMAIN ListOf[d] : ListOf[d][set] \in Seq(Nat)
           /\ 0 \notin DOMAIN SetOf[d] /\ 0 \notin DOMAIN ListOf[d]
           /\ \A c \in DOMAIN Ofdm[d] : Ofdm[d][c] \in OfdmRow(d)
           /\ \A c \in DOMAIN Qam[d] : Qam[d][c].center \in Nat /\ Qam[d][c].width \in Nat
           /\ DOMAIN Ofdm[d] \cap DOMAIN Qam[d] = {}
BY ChannelAssumption

LEMMA TopologyTyped ==
    ASSUME NEW ans, NEW g, NEW d \in Dir
    PROVE  /\ SideId(ans, g, d) \in Nat /\ ChSetId(ans, g, d) \in Nat
           /\ Channels(ans, g, d) \in Seq(Nat)
           /\ NormalizeChannels(Channels(ans, g, d)) \subseteq Nat
<1>1. SideId(ans, g, d) \in Nat
  BY FirstNodeTyped DEF SideId, NodeColumn
<1>2. ChSetId(ans, g, d) \in Nat
  BY <1>1, ChannelTables DEF ChSetId, SetMap, SetGet
<1>3. <<>> \in Seq(Nat)
  OBVIOUS
<1>4. Channels(ans, g, d) \in Seq(Nat)
  BY <1>2, <1>3, ChannelTables DEF Channels, ListMap, ListGet
<1>5. NormalizeChannels(Channels(ans, g, d)) \subseteq Nat
  BY <1>4 DEF NormalizeChannels, ToSet
<1>6. QED
  BY <1>1, <1>2, <1>4, <1>5

Bounds == [lower : Int \cup {None}, upper : Int \cup {None}]

LEMMA BandsTyped ==
    /\ Unbounded \in Bounds
    /\ \A d \in Dir : \A c \in DOMAIN Ofdm[d] : TableBounds(Ofdm[d][c]) \in Bounds
    /\ \A c \in DOMAIN Ofdm["ds"] : OfdmBounds(Ofdm["ds"][c]) \in Bounds
    /\ \A d \in Dir : \A c \in DOMAIN Qam[d] : ScQamBounds(Qam[d][c]) \in Bounds
<1>1. Unbounded \in Bounds
  BY DEF Unbounded, Bounds
<1>2. ASSUME NEW d \in Dir, NEW c \in DOMAIN Ofdm[d] PROVE TableBounds(Ofdm[d][c]) \in Bounds
  <2>1. Ofdm[d][c] \in OfdmRow(d)
    BY ChannelTables
  <2>2. Ofdm[d][c].lower \in Nat /\ Ofdm[d][c].upper \in Nat
    <3>1. CASE d = "us"
      BY <2>1, <3>1 DEF OfdmRow
    <3>2. CASE d # "us"
      BY <2>1, <3>2 DEF OfdmRow
    <3>3. QED
      BY <3>1, <3>2
  <2>3. QED
    BY <2>2 DEF TableBounds, Bounds
<1>3. ASSUME NEW c \in DOMAIN Ofdm["ds"] PROVE OfdmBounds(Ofdm["ds"][c]) \in Bounds
  <2> DEFINE row == Ofdm["ds"][c]
  <2>1. row \in OfdmRow("ds")
    BY ChannelTables DEF Dir
  <2>2. /\ row.zero \in Nat /\ row.first \in Nat /\ row.last \in Nat /\ row.spacing \in Nat
        /\ row.lowerGuard \in Nat /\ row.upperGuard \in Nat
    BY <2>1 DEF OfdmRow
  <2> HIDE DEF row
  <2>3. (row.first - 1) * row.spacing \in Int /\ row.last * row.spacing \in Int
    BY <2>2
  <2>4. row.zero - (row.first - 1) * row.spacing - row.lowerGuard \in Int
        /\ row.last * row.spacing + row.zero + row.upperGuard \in Int
    BY <2>2, <2>3
  <2>5. OfdmBounds(row) \in Bounds
    BY <1>1, <2>4 DEF OfdmBounds, Bounds
  <2>6. QED
    BY <2>5 DEF row
<1>4. ASSUME NEW d \in Dir, NEW c \in DOMAIN Qam[d] PROVE ScQamBounds(Qam[d][c]) \in Bounds
  BY ChannelTables DEF ScQamBounds, Bounds
<1>5. QED
  BY <1>1, <1>2, <1>3, <1>4

LEMMA WidthTyped ==
    ASSUME NEW b \in Bounds
    PROVE  Width(b) \in Int \cup {None}
BY DEF Width, Bounds

LEMMA OfdmChannelTyped ==
    ASSUME NEW c \in Nat, NEW b \in Bounds
    PROVE  OfdmChannel(c, b) \in Channel
BY WidthTyped DEF OfdmChannel, Channel, Bounds

LEMMA ScQamChannelTyped ==
    ASSUME NEW ans, NEW d \in Dir, NEW c \in Nat
    PROVE  ScQamChannel(ans, d, c) \in Channel
<1>1. \A w \in Int \cup {None}, b \in Bounds : [id |-> c, type |-> "scqam", bounds |-> b, width |-> w] \in Channel
  BY DEF Channel, Bounds
<1>2. CASE c \in DOMAIN Qam[d] /\ Read(ans, d, {"qam", "qamfields"})
  <2>1. ScQamBounds(Qam[d][c]) \in Bounds /\ Qam[d][c].width \in Int
    BY <1>2, BandsTyped, ChannelTables
  <2>2. ScQamChannel(ans, d, c) = [id |-> c, type |-> "scqam", bounds |-> ScQamBounds(Qam[d][c]), width |-> Qam[d][c].width]
    BY <1>2 DEF ScQamChannel
  <2>3. QED
    BY <1>1, <2>1, <2>2
<1>3. CASE ~(c \in DOMAIN Qam[d] /\ Read(ans, d, {"qam", "qamfields"}))
  <2>1. ScQamChannel(ans, d, c) = [id |-> c, type |-> "scqam", bounds |-> Unbounded, width |-> None]
    BY <1>3 DEF ScQamChannel
  <2>2. QED
    BY <1>1, <2>1, BandsTyped
<1>4. QED
  BY <1>2, <1>3

LEMMA ChannelsTyped ==
    ASSUME NEW ans, NEW g, NEW d \in Dir
    PROVE  RfChannels(ans, g, d) \subseteq Channel
<1>1. ASSUME NEW c \in Nat PROVE DsChannel(ans, c) \in Channel
  <2>1. CASE c \in DOMAIN Ofdm["ds"] /\ Read(ans, "ds", {"ofdm", "ofdmid"})
    <3>1. OfdmBounds(Ofdm["ds"][c]) \in Bounds /\ TableBounds(Ofdm["ds"][c]) \in Bounds /\ Unbounded \in Bounds
      BY <2>1, BandsTyped DEF Dir
    <3>2. Boundaries(ans, "ds", c) \in Bounds
      BY <3>1 DEF Boundaries
    <3>3. \E b \in Bounds : DsChannel(ans, c) = OfdmChannel(c, b)
      BY <2>1, <3>1, <3>2 DEF DsChannel
    <3>4. QED
      BY <3>3, OfdmChannelTyped
  <2>2. CASE ~(c \in DOMAIN Ofdm["ds"] /\ Read(ans, "ds", {"ofdm", "ofdmid"}))
    BY <2>2, ScQamChannelTyped DEF DsChannel, Dir
  <2>3. QED
    BY <2>1, <2>2
<1>2. ASSUME NEW c \in Nat PROVE UsChannel(ans, c) \in Channel
  <2>1. CASE c \in DOMAIN Ofdm["us"] /\ Read(ans, "us", {"ofdm", "ofdmid"})
    <3>1. Boundaries(ans, "us", c) \in Bounds
      BY <2>1, BandsTyped DEF Boundaries, Dir
    <3>2. QED
      BY <2>1, <3>1, OfdmChannelTyped DEF UsChannel
  <2>2. CASE ~(c \in DOMAIN Ofdm["us"] /\ Read(ans, "us", {"ofdm", "ofdmid"}))
    BY <2>2, ScQamChannelTyped DEF UsChannel, Dir
  <2>3. QED
    BY <2>1, <2>2
<1>3. QED
  BY <1>1, <1>2, TopologyTyped DEF RfChannels

LEMMA InventoryTyped ==
    ASSUME InventoryTypeOK, job.kind = "poll", NEW described
    PROVE  Inventory(described) \in PolledInventory
<1>1. [d \in Dir |-> ChSetId(job.ans, job.about, d)] \in [Dir -> Nat]
  BY TopologyTyped
<1>2. [d \in Dir |-> RfChannels(job.ans, job.about, d)] \in [Dir -> SUBSET Channel]
  BY ChannelsTyped
<1>3. job.found \subseteq Modem
  BY DEF InventoryTypeOK, Job
<1>4. \A m \in job.found : [mac |-> m.mac, ip |-> m.ip, sysdescr |-> m \in described]
                             \in [mac : Mac, ip : Addr \cup {None}, sysdescr : BOOLEAN]
  <2>1. ASSUME NEW m \in job.found
        PROVE  [mac |-> m.mac, ip |-> m.ip, sysdescr |-> m \in described]
                 \in [mac : Mac, ip : Addr \cup {None}, sysdescr : BOOLEAN]
    <3>1. m.mac \in Mac /\ m.ip \in Addr \cup {None}
      BY <1>3 DEF Modem
    <3>2. (m \in described) \in BOOLEAN
      OBVIOUS
    <3>3. QED
      BY <3>1, <3>2
  <2>2. QED
    BY <2>1
<1>5. {[mac |-> m.mac, ip |-> m.ip, sysdescr |-> m \in described] : m \in job.found}
        \subseteq [mac : Mac, ip : Addr \cup {None}, sysdescr : BOOLEAN]
  BY <1>4
<1>6. QED
  BY <1>1, <1>2, <1>5 DEF Inventory, PolledInventory

Kinds == {"idle", "poll", "discover", "inet", "sgof", "list", "node", "regsg", "dssg"}

\* A modem's row, read by its columns, keeps the job's types; so does a request that is answered.
LEMMA JobsTyped ==
    ASSUME InventoryTypeOK
    PROVE  /\ job.kind \in Kinds /\ job.next \in Nat \ {0}
           /\ Onward \in Job /\ Onward.kind = job.kind /\ Onward.about = job.about
           /\ AtEnd \in Job /\ AtEnd.kind = job.kind /\ AtEnd.about = job.about
           /\ \A q \in Table \X Dir : LET j == [Onward EXCEPT !.ans = @ \cup {q}]
                                      IN  j \in Job /\ j.kind = job.kind /\ j.about = job.about
           /\ \A R \in SUBSET Index : LET j == [Onward EXCEPT !.rows = R]
                                      IN  j \in Job /\ j.kind = job.kind /\ j.about = job.about
           /\ \A i \in Index : LET j == [Onward EXCEPT !.hit = i]
                               IN  j \in Job /\ j.kind = job.kind /\ j.about = job.about
           /\ job.rows # {} => \A m \in Mac \cup {None} :
                MacIs(m) \in Job /\ MacIs(m).kind = job.kind /\ MacIs(m).about = job.about
           /\ \A a \in Addr \cup {None} :
                IpIs(a) \in Job /\ IpIs(a).kind = job.kind /\ IpIs(a).about = job.about
<1>1. job \in Job
  BY DEF InventoryTypeOK
<1>2. job.kind \in Kinds /\ job.next \in Nat \ {0}
  BY <1>1 DEF Job, Kinds
<1>3. Onward \in Job /\ Onward.kind = job.kind /\ Onward.about = job.about
  BY <1>1 DEF Job, Onward
<1>4. AtEnd \in Job /\ AtEnd.kind = job.kind /\ AtEnd.about = job.about
  <2>1. Len(Plan(job.kind)) + 1 \in Nat \ {0}
    BY PlanEnds
  <2>2. QED
    BY <1>1, <2>1 DEF Job, AtEnd
<1>5. \A q \in Table \X Dir : LET j == [Onward EXCEPT !.ans = @ \cup {q}]
                              IN  j \in Job /\ j.kind = job.kind /\ j.about = job.about
  BY <1>1, <1>3 DEF Job
<1>6. \A R \in SUBSET Index : LET j == [Onward EXCEPT !.rows = R]
                              IN  j \in Job /\ j.kind = job.kind /\ j.about = job.about
  BY <1>3 DEF Job
<1>7. \A i \in Index : LET j == [Onward EXCEPT !.hit = i]
                       IN  j \in Job /\ j.kind = job.kind /\ j.about = job.about
  BY <1>3 DEF Job
<1>8. job.rows # {} => \A m \in Mac \cup {None} :
        MacIs(m) \in Job /\ MacIs(m).kind = job.kind /\ MacIs(m).about = job.about
  <2> SUFFICES ASSUME job.rows # {}, NEW m \in Mac \cup {None}
               PROVE  MacIs(m) \in Job /\ MacIs(m).kind = job.kind /\ MacIs(m).about = job.about
    OBVIOUS
  <2>1. job.rows \in SUBSET Index
    BY <1>1 DEF Job
  <2>2. Min(job.rows) \in Index
    BY <2>1, LeastNumber, IndexesAreNumbers
  <2>3. QED
    BY <1>1, <2>1, <2>2 DEF Job, MacIs
<1>9. \A a \in Addr \cup {None} : IpIs(a) \in Job /\ IpIs(a).kind = job.kind /\ IpIs(a).about = job.about
  <2> SUFFICES ASSUME NEW a \in Addr \cup {None}
               PROVE  IpIs(a) \in Job /\ IpIs(a).kind = job.kind /\ IpIs(a).about = job.about
    OBVIOUS
  <2>1. job.mac # None => [mac |-> job.mac, ip |-> a] \in Modem
    BY <1>1 DEF Job, Modem
  <2>2. (IF job.mac = None THEN job.found ELSE job.found \cup {[mac |-> job.mac, ip |-> a]}) \in SUBSET Modem
    BY <1>1, <2>1 DEF Job
  <2>3. QED
    BY <1>1, <2>2 DEF Job, IpIs
<1>10. QED
  BY <1>2, <1>3, <1>4, <1>5, <1>6, <1>7, <1>8, <1>9

LEMMA IdleTyped == Idle \in Job /\ Idle.about \in About(Idle.kind)
BY DEF Idle, Job, About

\* The lookups of nodes answer with a number.
LEMMA NodesAnswered ==
    ASSUME NEW k \in DOMAIN Nodes
    PROVE  /\ NodeSgId(Nodes[k].name) \in Nat \cup {None}
           /\ RegSgIdOfName(Nodes[k].name) \in Nat \cup {None}
           /\ RegSgIdOfDsSg(Nodes[k].ds) \in Nat \cup {None}
<1> DEFINE named == {j \in DOMAIN Nodes : Nodes[j].name = Nodes[k].name}
           withDs == {j \in DOMAIN Nodes : Nodes[j].ds = Nodes[k].ds}
<1>1. named \in SUBSET Nat /\ named # {} /\ withDs \in SUBSET Nat /\ withDs # {}
  BY NodesTyped
<1>2. Min(named) \in DOMAIN Nodes /\ Min(withDs) \in DOMAIN Nodes
  BY <1>1, LeastNumber
<1>3. NodeNamed(Nodes[k].name) = Nodes[Min(named)] /\ NodeWithDs(Nodes[k].ds) = Nodes[Min(withDs)]
  BY DEF NodeNamed, NodeWithDs
<1> HIDE DEF named, withDs
<1>4. Group \subseteq Nat
  BY InventoryAssumption
<1>5. QED
  BY <1>2, <1>3, <1>4, NodesTyped DEF NodeSgId, RegSgIdOfName, RegSgIdOfDsSg

LEMMA BeginTyped ==
    ASSUME InventoryTypeOK, NEW kind \in Kinds, NEW about \in About(kind), Begin(kind, about),
           answer' = answer \/ answer' = NoAnswer
    PROVE  InventoryTypeOK'
<1>1. about \in Group \cup Mac \cup Nat \cup {None}
  BY NodesTyped DEF About, Kinds
<1>2. job' \in Job /\ job'.kind = kind /\ job'.about = about
  <2>1. job' = [kind |-> kind, about |-> about, next |-> 1, ans |-> {}, hit |-> None,
                rows |-> {}, row |-> None, mac |-> None, found |-> {}]
    BY DEF Begin, Idle
  <2>2. QED
    BY <1>1, <2>1 DEF Job, Kinds
<1>3. NoAnswer \in [exists : BOOLEAN, value : Addr \cup Nat \cup {None}, rows : SUBSET Modem]
  BY DEF NoAnswer
<1>4. answer' \in [exists : BOOLEAN, value : Addr \cup Nat \cup {None}, rows : SUBSET Modem]
  BY <1>3 DEF InventoryTypeOK
<1>5. Rows \subseteq [id : Index, mac : Mac, sg : Group, ip : Addr]
  BY RowsOfTable DEF InventoryTypeOK, Rows
<1>6. UNCHANGED <<table, events, known, stored>> /\ jobs' = jobs + 1 /\ ever' = Rows /\ always' = Rows /\ lossy' = FALSE
  BY DEF Begin
<1>7. table' \in [Index -> Row \cup {None}] /\ events' \in Nat /\ jobs' \in Nat /\ (known' = None \/ known' \subseteq Group)
      /\ stored' \in [Group -> PolledInventory \cup {None}]
  BY <1>6 DEF InventoryTypeOK
<1>8. QED
  BY <1>2, <1>4, <1>5, <1>6, <1>7 DEF InventoryTypeOK

LEMMA InventoryTypeInit == InventoryInit => InventoryTypeOK
<1> SUFFICES ASSUME InventoryInit PROVE InventoryTypeOK
  OBVIOUS
<1>1. table \in [Index -> Row \cup {None}]
  BY InventoryAssumption DEF InventoryInit
<1>2. answer \in [exists : BOOLEAN, value : Addr \cup Nat \cup {None}, rows : SUBSET Modem]
  BY DEF InventoryInit, NoAnswer
<1>3. QED
  BY <1>1, <1>2, IdleTyped DEF InventoryInit, InventoryTypeOK

LEMMA InventoryTypeNext == InventoryTypeOK /\ LookedUp /\ [InventoryNext]_inventoryVars => InventoryTypeOK'
<1> SUFFICES ASSUME InventoryTypeOK, LookedUp, [InventoryNext]_inventoryVars PROVE InventoryTypeOK'
  OBVIOUS
<1> DEFINE Answers1 == [exists : BOOLEAN, value : Addr \cup Nat \cup {None}, rows : SUBSET Modem]
<1>t. /\ table \in [Index -> Row \cup {None}] /\ events \in Nat /\ jobs \in Nat
      /\ job \in Job /\ job.about \in About(job.kind)
      /\ known = None \/ known \subseteq Group
      /\ stored \in [Group -> PolledInventory \cup {None}]
      /\ answer \in Answers1
      /\ ever \subseteq [id : Index, mac : Mac, sg : Group, ip : Addr] /\ always \subseteq ever /\ lossy \in BOOLEAN
  BY DEF InventoryTypeOK
<1>e. [g \in Group |-> None] \in [Group -> PolledInventory \cup {None}]
  OBVIOUS
<1>o. \A i \in Index : table[i] # None => table[i].mac \in Mac /\ table[i].sg \in Group /\ table[i].ip \in Addr
  BY <1>t, RowsOfTable
\* A step of the job.
<1>j. ASSUME job' \in Job, job'.kind = job.kind, job'.about = job.about, answer' \in Answers1,
             UNCHANGED <<table, results, ever, always>>, events' \in Nat, lossy' \in BOOLEAN
      PROVE  InventoryTypeOK'
  BY <1>t, <1>j DEF InventoryTypeOK, results
\* A change of the table.
<1>c. ASSUME NEW t \in [Index -> Row \cup {None}], Changed(t) PROVE InventoryTypeOK'
  <2>1. RowsOf(t) \subseteq [id : Index, mac : Mac, sg : Group, ip : Addr]
    BY RowsOfTable
  <2>2. QED
    BY <1>t, <1>c, <2>1 DEF Changed, InventoryTypeOK, results
<1>1. CASE StartDiscovery
  BY <1>1, BeginTyped DEF StartDiscovery, Kinds, About
<1>2. CASE StaticDiscovery \/ PrecheckFails
  BY <1>t, <1>e, <1>2, InventoryAssumption DEF StaticDiscovery, PrecheckFails, InventoryTypeOK, history
<1>3. CASE Discover
  <2>1. {n.sg : n \in ServiceGroups(job.ans)} \subseteq Group
    <3>1. \A n \in ServiceGroups(job.ans) : n.sg \in Group
      <4>1. \A k \in DOMAIN Nodes : Nodes[k] \in [name : STRING, sg : Group, ds : Nat, us : Nat]
        <5>1. \A N : \A s \in Seq(N) : \A k \in DOMAIN s : s[k] \in N
          OBVIOUS
        <5>2. QED
          BY <5>1, ChannelAssumption
      <4>2. \A k \in DOMAIN Nodes : \A x, y : [Nodes[k] EXCEPT !.ds = x, !.us = y].sg = Nodes[k].sg
        BY <4>1
      <4>3. QED
        BY <4>1, <4>2 DEF ServiceGroups
    <3>2. QED
      BY <3>1
  <2>2. QED
    BY <1>t, <1>e, <1>3, <2>1, IdleTyped DEF Discover, EndJob, InventoryTypeOK
<1>4. ASSUME NEW g \in Group, StartPoll(g) \/ StartList(g) PROVE InventoryTypeOK'
  BY <1>4, BeginTyped DEF StartPoll, StartList, StartLookup, Kinds, About
<1>5. ASSUME NEW m \in Mac, StartInet(m) \/ StartSgOf(m) PROVE InventoryTypeOK'
  BY <1>5, BeginTyped DEF StartInet, StartSgOf, StartLookup, Kinds, About
<1>6. ASSUME NEW k \in DOMAIN Nodes, StartNode(k) \/ StartRegSg(k) \/ StartDsSg(k) PROVE InventoryTypeOK'
  BY <1>6, BeginTyped DEF StartNode, StartRegSg, StartDsSg, StartLookup, Kinds, About
<1>7. CASE Skip
  BY <1>t, <1>j, <1>7, JobsTyped DEF Skip, history
<1>8. CASE ReadTable
  <2>1. Query \in Table \X Dir
    BY <1>8, PlanShape DEF ReadTable, Sent, Sending, Query, Table
  <2>2. QED
    BY <1>t, <1>j, <1>8, <2>1, JobsTyped DEF ReadTable, history
<1>9. CASE ReadMembership
  <2>1. Matched(job.about) \subseteq Index
    BY <1>t, RowsOfTable DEF Matched, Rows
  <2>2. QED
    BY <1>t, <1>j, <1>9, <2>1, JobsTyped DEF ReadMembership, history
<1>10. CASE ReadMac
  <2>1. job.rows \in SUBSET Index
    BY <1>t DEF Job
  <2>2. Min(job.rows) \in Index
    BY <1>10, <2>1, LeastNumber, IndexesAreNumbers DEF ReadMac
  <2>3. QED
    BY <1>t, <1>j, <1>o, <1>10, <2>2, JobsTyped DEF ReadMac, history
<1>11. CASE ReadIp
  <2>1. job.row \in Index
    BY <1>t, <1>11 DEF Job, ReadIp
  <2>2. QED
    BY <1>t, <1>j, <1>o, <1>11, <2>1, JobsTyped DEF ReadIp, history
<1>12. CASE FindRow
  <2> DEFINE ids == {r.id : r \in {x \in Rows : x.mac = job.about}}
  <2>1. ids \in SUBSET Index
    BY <1>t, RowsOfTable DEF Rows
  <2>2. CASE ids = {}
    BY <1>t, <1>j, <1>12, <2>2, JobsTyped DEF FindRow, history
  <2>3. CASE ids # {}
    <3>1. Min(ids) \in Index
      BY <2>1, <2>3, LeastNumber, IndexesAreNumbers
    <3>2. job' = [Onward EXCEPT !.hit = Min(ids)] /\ answer' = [answer EXCEPT !.exists = TRUE]
          /\ UNCHANGED <<table, events, results, history>>
      BY <1>12, <2>3 DEF FindRow
    <3> HIDE DEF ids
    <3>3. job' \in Job /\ job'.kind = job.kind /\ job'.about = job.about
      BY <3>1, <3>2, JobsTyped
    <3>4. answer' \in Answers1
      BY <1>t, <3>2
    <3>5. QED
      BY <1>t, <1>j, <3>2, <3>3, <3>4 DEF history
  <2>4. QED
    BY <2>2, <2>3
<1>13. CASE ReadAddress \/ ReadGroup
  <2>1. \A v \in Addr \cup Nat \cup {None} : [answer EXCEPT !.value = v] \in Answers1
    BY <1>t
  <2>2. answer.value \in Addr \cup Nat \cup {None}
    BY <1>t
  <2>3. Group \subseteq Nat
    BY InventoryAssumption
  <2>4. \A i : table[i] # None /\ i \in Index => table[i].ip \in Addr /\ table[i].sg \in Nat
    BY <1>o, <2>3
  <2>5. job.hit \in Index
    <3>1. Sending /\ Query[1] \in {"addr", "addrwalk", "sgs"}
      BY <1>13 DEF ReadAddress, ReadGroup, Sent
    <3>2. job.kind \in Lookups /\ job.next # 1
      BY <3>1, PlanShape DEF Sending, Query, Table, Lookups, Dir
    <3>3. QED
      BY <1>t, <3>1, <3>2 DEF LookedUp, Job
  <2>6. answer' \in Answers1
    BY <1>13, <2>1, <2>2, <2>4, <2>5 DEF ReadAddress, ReadGroup
  <2>7. job' = Onward /\ UNCHANGED <<table, events, results, history>>
    BY <1>13 DEF ReadAddress, ReadGroup
  <2>8. QED
    BY <2>6, <2>7, <1>t, <1>j, JobsTyped DEF history
<1>14. CASE Lose
  <2>1. UNCHANGED <<table, results, ever, always>> /\ events' \in Nat /\ lossy' \in BOOLEAN /\ answer' \in Answers1
    BY <1>t, <1>14 DEF Lose
  <2>2. job' \in Job /\ job'.kind = job.kind /\ job'.about = job.about
    BY <1>14, JobsTyped DEF Lose
  <2>3. QED
    BY <1>j, <2>1, <2>2
<1>15. CASE Unresolved
  BY <1>t, <1>e, <1>15, IdleTyped DEF Unresolved, EndJob, InventoryTypeOK
<1>16. CASE Store
  <2>1. PICK described \in SUBSET Addressed : stored' = [stored EXCEPT ![job.about] = Inventory(described)]
    BY <1>16 DEF Store
  <2>2. Inventory(described) \in PolledInventory
    BY <1>16, InventoryTyped DEF Store
  <2>3. stored' \in [Group -> PolledInventory \cup {None}]
    BY <1>t, <2>1, <2>2
  <2>4. QED
    BY <1>t, <1>16, <2>3, IdleTyped DEF Store, EndJob, InventoryTypeOK
<1>17. CASE Answer
  <2>1. job.found \subseteq Modem
    BY <1>t DEF Job
  <2>2. [answer EXCEPT !.rows = job.found] \in Answers1
    BY <1>t, <2>1
  <2>3. \A v \in Nat \cup {None} : Resolved(v) \in Answers1
    <3>1. ASSUME NEW v \in Nat \cup {None} PROVE Resolved(v) \in Answers1
      <4>1. (v # None) \in BOOLEAN
        OBVIOUS
      <4>2. \A e \in BOOLEAN : [answer EXCEPT !.value = v, !.exists = e] \in Answers1
        BY <1>t
      <4>3. QED
        BY <4>1, <4>2 DEF Resolved
    <3>2. QED
      BY <3>1
  <2>4. answer' \in Answers1
    <3>1. CASE job.kind = "list"
      BY <1>17, <2>2, <3>1 DEF Answer
    <3>2. CASE job.kind \in {"node", "regsg", "dssg"}
      <4>1. job.about \in DOMAIN Nodes
        BY <1>t, <3>2 DEF About
      <4>2. QED
        BY <1>17, <2>3, <3>2, <4>1, NodesAnswered DEF Answer
    <3>3. CASE job.kind \notin {"list", "node", "regsg", "dssg"}
      BY <1>t, <1>17, <3>3 DEF Answer
    <3>4. QED
      BY <3>1, <3>2, <3>3
  <2>5. QED
    BY <1>t, <1>17, <2>4, IdleTyped DEF Answer, EndJob, InventoryTypeOK
<1>18. CASE Environment
  <2>1. \A i \in Index, m \in Mac, g \in Group, a \in Addr :
          [table EXCEPT ![i] = [mac |-> m, sg |-> g, ip |-> a]] \in [Index -> Row \cup {None}]
    BY <1>t DEF Row
  <2>2. \A i \in Index : [table EXCEPT ![i] = None] \in [Index -> Row \cup {None}]
    BY <1>t
  <2>3. \A i \in Index, g \in Group : table[i] # None => [table EXCEPT ![i].sg = g] \in [Index -> Row \cup {None}]
    BY <1>t DEF Row
  <2>4. \A i \in Index, a \in Addr : table[i] # None => [table EXCEPT ![i].ip = a] \in [Index -> Row \cup {None}]
    BY <1>t DEF Row
  <2>5. QED
    BY <1>c, <1>18, <2>1, <2>2, <2>3, <2>4 DEF Environment, Register, Deregister, Move, Renumber
<1>19. CASE UNCHANGED inventoryVars
  BY <1>t, <1>19 DEF inventoryVars, results, history, InventoryTypeOK
<1>20. QED
  BY <1>1, <1>2, <1>3, <1>4, <1>5, <1>6, <1>7, <1>8, <1>9, <1>10, <1>11, <1>12, <1>13, <1>14, <1>15, <1>16,
     <1>17, <1>18, <1>19 DEF InventoryNext

-----------------------------------------------------------------------------
(* Inventory: the inductive invariant is kept *)

LEMMA LastIsRows ==
    ASSUME NEW kind \in Reads
    PROVE  Plan(kind)[Len(Plan(kind))] = <<"rows", "cm">>
<1>1. CASE kind = "poll"
  <2>1. Plan(kind) = PollPlan
    BY <1>1 DEF Plan
  <2>2. QED
    BY <2>1, PollPlanRows
<1>2. CASE kind = "list"
  <2>1. Plan(kind) = << <<"rows", "cm">> >>
    BY <1>2 DEF Plan
  <2>2. QED
    BY <2>1
<1>3. QED
  BY <1>1, <1>2 DEF Reads

\* The columns of a table are asked for after its ids.
LEMMA IdsFirst ==
    ASSUME NEW kind, NEW k \in DOMAIN Plan(kind)
    PROVE  /\ Plan(kind)[k][1] = "qamfields" =>
                \E j \in DOMAIN Plan(kind) : j < k /\ Plan(kind)[j] = <<"qam", Plan(kind)[k][2]>>
           /\ Plan(kind)[k][1] \in {"ofdmid", "bdry", "band"} =>
                \E j \in DOMAIN Plan(kind) : j < k /\ Plan(kind)[j] = <<"ofdm", Plan(kind)[k][2]>>
<1>1. CASE kind = "poll"
  <2>1. Plan(kind) = PollPlan
    BY <1>1 DEF Plan
  <2>2. \A j \in 1..12 : PollPlan[j][1] \notin {"qamfields", "ofdmid", "bdry", "band"}
    BY DEF PollPlan
  <2>3. /\ PollPlan[13] = <<"qam", "ds">> /\ PollPlan[14] = <<"qamfields", "ds">>
        /\ PollPlan[15] = <<"qam", "us">> /\ PollPlan[16] = <<"qamfields", "us">>
        /\ PollPlan[17] = <<"ofdm", "ds">> /\ PollPlan[18] = <<"ofdmid", "ds">>
        /\ PollPlan[19] = <<"bdry", "ds">> /\ PollPlan[20] = <<"band", "ds">>
        /\ PollPlan[21] = <<"ofdm", "us">> /\ PollPlan[22] = <<"ofdmid", "us">>
        /\ PollPlan[23] = <<"bdry", "us">> /\ PollPlan[24] = <<"rows", "cm">>
    BY DEF PollPlan
  <2>4. DOMAIN PollPlan = 1..24 /\ k \in 1..24
    BY <2>1, PollPlanRows
  <2>5. k \in 1..12 \/ k \in {13, 14, 15, 16} \/ k \in {17, 18, 19, 20} \/ k \in {21, 22, 23, 24}
    BY <2>4
  <2> HIDE DEF PollPlan
  <2>6. CASE k \in 1..12
    BY <2>1, <2>2, <2>6
  <2>7. CASE k \in {13, 14, 15, 16}
    BY <2>1, <2>3, <2>4, <2>7
  <2>8. CASE k \in {17, 18, 19, 20}
    BY <2>1, <2>3, <2>4, <2>8
  <2>9. CASE k \in {21, 22, 23, 24}
    BY <2>1, <2>3, <2>4, <2>9
  <2>10. QED
    BY <2>5, <2>6, <2>7, <2>8, <2>9
<1>2. CASE kind # "poll"
  <2>1. Plan(kind)[k][1] \in {"nodes", "macs", "addr", "addrwalk", "sgs", "rows"}
    <3>1. CASE kind \in {"discover", "node"}
      <4>1. Plan(kind) = << <<"nodes", "ds">>, <<"nodes", "us">> >>
        BY <3>1 DEF Plan
      <4>2. QED
        BY <4>1
    <3>2. CASE kind \in {"regsg", "dssg"}
      <4>1. Plan(kind) = << <<"nodes", "ds">> >>
        BY <3>2 DEF Plan
      <4>2. QED
        BY <4>1
    <3>3. CASE kind \notin {"poll", "discover", "node", "regsg", "dssg", "inet", "sgof", "list"}
      <4>1. Plan(kind) = <<>>
        BY <3>3 DEF Plan
      <4>2. QED
        BY <4>1
    <3>4. CASE kind \in {"inet", "sgof", "list"}
      BY <3>4, PlanShape DEF Lookups, Reads
    <3>5. QED
      BY <1>2, <3>1, <3>2, <3>3, <3>4
  <2>2. QED
    BY <2>1
<1>3. QED
  BY <1>1, <1>2

LEMMA AlwaysNeeded ==
    ASSUME NEW q
    PROVE  /\ q[1] \in {"nodes", "sets", "lists", "qam", "ofdm", "rows", "macs", "addr", "sgs"} => Needed(q)
           /\ q[1] = "qamfields" => (Needed(q) <=> <<"qam", q[2]>> \in job.ans)
           /\ q[1] \in {"ofdmid", "bdry", "band"} => (Needed(q) <=> <<"ofdm", q[2]>> \in job.ans)
<1>1. CASE q[1] \in {"nodes", "sets", "lists", "qam", "ofdm", "rows", "macs", "addr", "sgs"}
  BY <1>1 DEF Needed
<1>2. CASE q[1] = "qamfields"
  BY <1>2 DEF Needed
<1>3. CASE q[1] \in {"ofdmid", "bdry", "band"}
  BY <1>3 DEF Needed
<1>4. QED
  BY <1>1, <1>2, <1>3

\* What the updates of a job leave as it is.
Same(j) == j.kind = job.kind /\ j.about = job.about

LEMMA Updates ==
    ASSUME InventoryTypeOK
    PROVE  /\ Same(Onward) /\ Same(AtEnd)
           /\ Onward.next = job.next + 1 /\ AtEnd.next = Len(Plan(job.kind)) + 1
           /\ Onward.ans = job.ans /\ Onward.hit = job.hit /\ Onward.rows = job.rows
           /\ Onward.row = job.row /\ Onward.mac = job.mac /\ Onward.found = job.found
           /\ AtEnd.ans = job.ans /\ AtEnd.hit = job.hit /\ AtEnd.rows = job.rows
           /\ AtEnd.row = job.row /\ AtEnd.mac = job.mac /\ AtEnd.found = job.found
BY DEF InventoryTypeOK, Job, Onward, AtEnd, Same

LEMMA RowUpdates ==
    ASSUME InventoryTypeOK, NEW x
    PROVE  /\ Same(MacIs(x)) /\ Same(IpIs(x))
           /\ MacIs(x).next = job.next /\ MacIs(x).ans = job.ans /\ MacIs(x).hit = job.hit
           /\ MacIs(x).found = job.found
           /\ MacIs(x).rows = job.rows \ {Min(job.rows)} /\ MacIs(x).row = Min(job.rows) /\ MacIs(x).mac = x
           /\ IpIs(x).next = job.next /\ IpIs(x).ans = job.ans /\ IpIs(x).hit = job.hit
           /\ IpIs(x).rows = job.rows /\ IpIs(x).row = None /\ IpIs(x).mac = None
           /\ job.mac = None => IpIs(x).found = job.found
           /\ job.mac # None => IpIs(x).found = job.found \cup {[mac |-> job.mac, ip |-> x]}
BY DEF InventoryTypeOK, Job, MacIs, IpIs, Same

Complete == RowsComplete /\ LookupsComplete /\ PlanComplete

LEMMA EndKeeps ==
    ASSUME InventoryTypeOK, Watched, EndJob, table' = table
    PROVE  Watched' /\ Joined' /\ LookedUp' /\ Complete'
<1>1. job' = Idle /\ ever' = {} /\ always' = {}
  BY DEF EndJob
<1>2. /\ Idle.kind = "idle" /\ Idle.next = 1 /\ Idle.ans = {} /\ Idle.hit = None /\ Idle.rows = {}
      /\ Idle.row = None /\ Idle.mac = None /\ Idle.found = {}
  BY DEF Idle
<1>3. Watched'
  BY <1>1, <1>2 DEF Watched
<1>4. Joined'
  BY <1>1, <1>2, IndexesAreNumbers DEF Joined
<1>5. LookedUp'
  BY <1>1, <1>2 DEF LookedUp, Lookups
<1>6. Complete'
  <2>1. DOMAIN Plan(job'.kind) = {}
    BY <1>1, <1>2, PlanEnds
  <2>2. QED
    BY <1>1, <1>2, <2>1 DEF Complete, RowsComplete, LookupsComplete, PlanComplete, Reads, Lookups
<1>7. QED
  BY <1>3, <1>4, <1>5, <1>6

LEMMA BeginKeeps ==
    ASSUME InventoryTypeOK, Watched, NEW kind \in Kinds \ {"idle"}, NEW about, Begin(kind, about),
           kind \in Lookups => answer' = NoAnswer
    PROVE  Watched' /\ Joined' /\ LookedUp' /\ Complete'
<1>1. job' = [kind |-> kind, about |-> about, next |-> 1, ans |-> {}, hit |-> None,
              rows |-> {}, row |-> None, mac |-> None, found |-> {}]
  BY DEF Begin, Idle
<1>2. /\ job'.kind = kind /\ job'.about = about /\ job'.next = 1 /\ job'.hit = None
      /\ job'.rows = {} /\ job'.row = None /\ job'.mac = None /\ job'.found = {}
  BY <1>1
<1>3. ever' = RowsOf(table) /\ always' = RowsOf(table) /\ table' = table
  BY DEF Begin, Rows
<1>4. Watched'
  <2>1. \A r, s \in RowsOf(table) : r.id = s.id \/ r.mac = s.mac => r = s
    BY RowsOfTable DEF Watched, InventoryTypeOK
  <2>2. QED
    BY <1>2, <1>3, <2>1 DEF Watched, Rows
<1>5. Joined'
  BY <1>2, IndexesAreNumbers DEF Joined
<1>6. LookedUp'
  BY <1>2 DEF LookedUp, NoAnswer
<1>7. Complete'
  <2>1. kind \in Reads => Sending'
    BY <1>2, PlanEnds DEF Sending
  <2>2. \A r \in RowsOf(table) : r.id # None
    BY RowsOfTable, IndexesAreNumbers DEF InventoryTypeOK
  <2>3. RowsComplete'
    BY <1>2, <1>3, <2>1, <2>2 DEF RowsComplete
  <2>4. LookupsComplete'
    BY <1>2 DEF LookupsComplete
  <2>5. PlanComplete'
    <3>1. \A k \in DOMAIN Plan(kind) : ~(k < 1)
      BY PlanEnds
    <3>2. QED
      BY <1>2, <3>1 DEF PlanComplete
  <2>6. QED
    BY <2>3, <2>4, <2>5 DEF Complete
<1>8. QED
  BY <1>4, <1>5, <1>6, <1>7

\* A change of the table keeps the history when it gives no row to another modem, nor a modem a second
\* row.
LEMMA ChangeKeeps ==
    ASSUME InventoryTypeOK, Watched, Joined, LookedUp, Complete, NEW t \in [Index -> Row \cup {None}], Changed(t),
           \A i, j \in Index : t[i] # None /\ t[j] # None /\ t[i].mac = t[j].mac => i = j,
           \A i \in Index : t[i] # None => \/ table[i] # None /\ t[i].mac = table[i].mac
                                           \/ \A s \in ever : s.id = i => s.mac = t[i].mac
    PROVE  Watched' /\ Joined' /\ LookedUp' /\ Complete'
<1>1. job' = job /\ answer' = answer /\ lossy' = lossy /\ table' = t
  BY DEF Changed
<1>2. CASE job.kind = "idle"
  <2>1. ever' = ever /\ always' = always /\ ever = {} /\ always = {} /\ job = Idle
    BY <1>2 DEF Changed, Watched
  <2>2. Watched'
    BY <1>1, <1>2, <2>1 DEF Watched
  <2>3. Joined' /\ LookedUp' /\ Complete'
    BY <1>1, <2>1 DEF Joined, LookedUp, Complete, RowsComplete, LookupsComplete, PlanComplete, Sending, Held, InGroup
  <2>4. QED
    BY <2>2, <2>3
<1>3. CASE job.kind # "idle"
  <2>1. job # Idle
    BY <1>3 DEF Idle
  <2>2. ever' = ever \cup RowsOf(t) /\ always' = always \cap RowsOf(t)
    BY <2>1 DEF Changed
  <2>3. RowsOf(table) \subseteq ever /\ always \subseteq RowsOf(table)
    BY <1>3 DEF Watched, Rows
  <2>4. \A r \in RowsOf(t) : r.id \in Index /\ t[r.id] # None /\ r.mac = t[r.id].mac
    BY RowsOfTable
  <2>5. \A i \in Index : table[i] # None => \E s \in ever : s.id = i /\ s.mac = table[i].mac
    BY <2>3, RowsOfTable DEF InventoryTypeOK
  <2>6. \A r \in RowsOf(t), s \in ever : r.id = s.id => r.mac = s.mac
    BY <2>4, <2>5 DEF Watched
  <2>7. \A r, s \in RowsOf(t) : r.id = s.id \/ r.mac = s.mac => r = s
    BY <2>4, RowsOfTable
  <2>8. \A r, s \in ever' : r.id = s.id => r.mac = s.mac
    BY <2>2, <2>6, <2>7 DEF Watched
  <2>9. \A r \in always', s \in ever' : r.id = s.id \/ r.mac = s.mac => r = s
    BY <2>2, <2>7 DEF Watched
  <2>10. Watched'
    BY <1>1, <1>3, <2>2, <2>8, <2>9 DEF Watched, Rows
  <2>11. ever \subseteq ever' /\ always' \subseteq always
    BY <2>2
  <2>12. Joined'
    <3>1. \A m, a : Held(m, a) => Held(m, a)'
      BY <2>11 DEF Held
    <3>2. \A m, g : InGroup(m, g) => InGroup(m, g)'
      BY <2>11 DEF InGroup
    <3>3. QED
      BY <1>1, <2>11, <3>1, <3>2 DEF Joined
  <2>13. LookedUp'
    <3>1. \A m, a : Held(m, a) => Held(m, a)'
      BY <2>11 DEF Held
    <3>2. \A m, g : InGroup(m, g) => InGroup(m, g)'
      BY <2>11 DEF InGroup
    <3>3. QED
      BY <1>1, <2>11, <3>1, <3>2 DEF LookedUp, Sending
  <2>14. Complete'
    BY <1>1, <2>11 DEF Complete, RowsComplete, LookupsComplete, PlanComplete, Sending
  <2>15. QED
    BY <2>10, <2>12, <2>13, <2>14
<1>4. QED
  BY <1>2, <1>3

-----------------------------------------------------------------------------
(* Inventory: the steps of a job *)

\* Where a job is that sends.
LEMMA AtQuery ==
    ASSUME InventoryTypeOK, Sending
    PROVE  /\ job.kind # "idle" /\ job.next \in 1..Len(Plan(job.kind)) /\ Len(Plan(job.kind)) \in Nat
           /\ DOMAIN Plan(job.kind) = 1..Len(Plan(job.kind))
           /\ \/ Query \in Table \X Dir /\ job.kind \notin Lookups \cup {"list"}
              \/ Query = <<"rows", "cm">> /\ job.kind \in Reads /\ job.next = Len(Plan(job.kind))
              \/ Query = <<"macs", "cm">> /\ job.kind \in Lookups /\ job.next = 1
              \/ Query = <<"addr", "cm">> /\ job.kind = "inet" /\ job.next = 2
              \/ Query = <<"addrwalk", "cm">> /\ job.kind = "inet" /\ job.next = 3
              \/ Query = <<"sgs", "cm">> /\ job.kind = "sgof" /\ job.next = 2
           /\ job.kind \in Reads /\ job.next = Len(Plan(job.kind)) => Query = <<"rows", "cm">>
<1>1. job.next \in DOMAIN Plan(job.kind)
  BY DEF Sending
<1>2. QED
  BY <1>1, PlanShape, LastIsRows DEF Query

LEMMA WatchedKept ==
    ASSUME Watched, job.kind # "idle", job'.kind = job.kind, UNCHANGED <<table, ever, always>>
    PROVE  Watched'
BY DEF Watched, Rows

\* Past a request that is not owed, or was answered.
LEMMA PlanKept ==
    ASSUME InventoryTypeOK, PlanComplete, Same(job'), lossy' = lossy, job.ans \subseteq job'.ans,
           \/ job'.next = job.next
           \/ job'.next = job.next + 1 /\ (Query[1] \in Owed => Query \in job'.ans)
           \/ job.kind \in Lookups
    PROVE  PlanComplete'
<1> SUFFICES ASSUME ~lossy', NEW k \in DOMAIN Plan(job.kind), k < job'.next, Plan(job.kind)[k][1] \in Owed
             PROVE  Plan(job.kind)[k] \in job'.ans
  BY DEF PlanComplete, Same
<1>1. k < job.next => Plan(job.kind)[k] \in job'.ans
  BY DEF PlanComplete
<1>2. k \in Nat /\ job.next \in Nat
  BY PlanEnds DEF InventoryTypeOK, Job
<1>3. CASE job'.next = job.next
  BY <1>1, <1>3
<1>4. CASE job'.next = job.next + 1 /\ (Query[1] \in Owed => Query \in job'.ans)
  BY <1>1, <1>2, <1>4 DEF Query
<1>5. CASE job.kind \in Lookups
  <2>1. Plan(job.kind)[k][1] \in {"macs", "addr", "addrwalk", "sgs"}
    BY <1>5, PlanShape DEF Lookups, Reads
  <2>2. QED
    BY <2>1 DEF Owed
<1>6. QED
  BY <1>3, <1>4, <1>5

\* A request before the rows: nothing is read of a modem.
LEMMA TablesKeep ==
    ASSUME InventoryTypeOK, Watched, Joined, LookedUp, Complete, Sending, Same(job'),
           UNCHANGED <<table, answer, ever, always, lossy>>,
           job'.next = job.next + 1, job.ans \subseteq job'.ans,
           job'.hit = job.hit, job'.rows = job.rows, job'.row = job.row, job'.mac = job.mac, job'.found = job.found,
           Query[1] # "rows", Query[1] # "macs", Query[1] \notin {"addr", "sgs"},
           Query[1] \in Owed => Query \in job'.ans
    PROVE  Watched' /\ Joined' /\ LookedUp' /\ Complete'
<1>1. job.kind # "idle" /\ job'.kind = job.kind /\ job'.about = job.about
  BY AtQuery DEF Same
<1>2. Watched'
  BY <1>1, WatchedKept
<1>3. /\ \A m, a : Held(m, a)' = Held(m, a)
      /\ \A m, g : InGroup(m, g)' = InGroup(m, g)
  BY DEF Held, InGroup
<1>4. Joined'
  BY <1>1, <1>3 DEF Joined
<1>5. job.kind \in Lookups => job.next = 3
  BY AtQuery, <1>1 DEF Table, Lookups, Reads, Dir
<1>6. LookedUp'
  <2>1. job.kind \in Lookups => job.hit # None
    BY <1>5 DEF LookedUp
  <2>2. QED
    BY <1>1, <1>3, <2>1 DEF LookedUp
<1>7. RowsComplete'
  <2>1. job.kind \in Reads => Sending'
    <3>1. job.kind \in Reads => job.next # Len(Plan(job.kind))
      BY AtQuery
    <3>2. job.kind \in Reads => job.next + 1 \in 1..Len(Plan(job.kind))
      BY <3>1, AtQuery
    <3>3. QED
      BY <1>1, <3>2, AtQuery DEF Sending
  <2>2. QED
    BY <1>1, <2>1 DEF Complete, RowsComplete
<1>8. LookupsComplete'
  BY <1>1, <1>5 DEF Complete, LookupsComplete
<1>9. PlanComplete'
  BY PlanKept DEF Complete
<1>10. QED
  BY <1>2, <1>4, <1>6, <1>7, <1>8, <1>9 DEF Complete

LEMMA SkipKeeps ==
    ASSUME InventoryTypeOK, Watched, Joined, LookedUp, Complete, Skip
    PROVE  Watched' /\ Joined' /\ LookedUp' /\ Complete'
<1>1. Sending /\ ~Needed(Query) /\ job' = Onward /\ UNCHANGED <<table, events, answer, results, history>>
  BY DEF Skip
<1>2. Query[1] \notin {"nodes", "sets", "lists", "qam", "ofdm", "rows", "macs", "addr", "sgs"}
  BY <1>1, AlwaysNeeded
<1>3. ~lossy => Query[1] \notin {"qamfields", "ofdmid", "bdry", "band"}
  <2>1. job.next \in DOMAIN Plan(job.kind) /\ Query = Plan(job.kind)[job.next]
    BY <1>1 DEF Sending, Query
  <2>2. SUFFICES ASSUME ~lossy, Query[1] \in {"qamfields", "ofdmid", "bdry", "band"} PROVE FALSE
    OBVIOUS
  <2>3. PICK j \in DOMAIN Plan(job.kind) : j < job.next /\ Plan(job.kind)[j] =
            IF Query[1] = "qamfields" THEN <<"qam", Query[2]>> ELSE <<"ofdm", Query[2]>>
    BY <2>1, <2>2, IdsFirst
  <2>4. Plan(job.kind)[j][1] \in Owed
    BY <2>3 DEF Owed
  <2>5. Plan(job.kind)[j] \in job.ans
    BY <2>2, <2>3, <2>4 DEF Complete, PlanComplete
  <2>6. QED
    BY <1>1, <2>2, <2>3, <2>5, AlwaysNeeded
<1>4. CASE lossy
  \* Nothing is promised of the plan any more.
  <2>1. job.kind # "idle" /\ job'.kind = job.kind /\ job'.about = job.about
    BY <1>1, AtQuery, Updates DEF Same
  <2>2. Watched'
    BY <1>1, <2>1, WatchedKept DEF history
  <2>3. /\ \A m, a : Held(m, a)' = Held(m, a)
        /\ \A m, g : InGroup(m, g)' = InGroup(m, g)
    BY <1>1 DEF Held, InGroup, history
  <2>4. Joined'
    BY <1>1, <2>1, <2>3, Updates DEF Joined, history
  <2>5. job.kind \in Lookups => job.next = 3
    BY <1>1, <1>2, <2>1, AtQuery DEF Table, Lookups, Reads, Dir
  <2>6. LookedUp'
    <3>1. job.kind \in Lookups => job.hit # None
      BY <1>1, <2>5 DEF LookedUp
    <3>2. QED
      BY <1>1, <2>1, <2>3, <3>1, Updates DEF LookedUp, history
  <2>7. Complete'
    BY <1>1, <1>4 DEF Complete, RowsComplete, LookupsComplete, PlanComplete, history
  <2>8. QED
    BY <2>2, <2>4, <2>6, <2>7
<1>5. CASE ~lossy
  <2>1. Query[1] \notin Owed
    BY <1>2, <1>3, <1>5 DEF Owed
  <2>2. QED
    BY <1>1, <1>2, <2>1, TablesKeep, Updates DEF history
<1>6. QED
  BY <1>4, <1>5

LEMMA ReadTableKeeps ==
    ASSUME InventoryTypeOK, Watched, Joined, LookedUp, Complete, ReadTable
    PROVE  Watched' /\ Joined' /\ LookedUp' /\ Complete'
<1>1. Sending /\ Query[1] \in Table /\ UNCHANGED <<table, events, answer, results, history>>
  BY DEF ReadTable, Sent
<1>2. job' = [Onward EXCEPT !.ans = @ \cup {Query}]
  BY DEF ReadTable
<1>3. /\ job'.kind = Onward.kind /\ job'.about = Onward.about /\ job'.next = Onward.next
      /\ job'.ans = Onward.ans \cup {Query} /\ job'.hit = Onward.hit /\ job'.rows = Onward.rows
      /\ job'.row = Onward.row /\ job'.mac = Onward.mac /\ job'.found = Onward.found
  BY <1>2 DEF Onward, InventoryTypeOK, Job
<1>4. Same(job') /\ Query \in job'.ans /\ job.ans \subseteq job'.ans
  BY <1>3, Updates DEF Same
<1>5. Query[1] # "rows" /\ Query[1] # "macs" /\ Query[1] \notin {"addr", "sgs"}
  BY <1>1 DEF Table
<1>6. QED
  BY <1>1, <1>3, <1>4, <1>5, TablesKeep, Updates DEF history

LEMMA ReadMembershipKeeps ==
    ASSUME InventoryTypeOK, Watched, Joined, LookedUp, Complete, ReadMembership
    PROVE  Watched' /\ Joined' /\ LookedUp' /\ Complete'
<1>1. Sending /\ Query[1] = "rows" /\ UNCHANGED <<table, events, answer, results, history>>
  BY DEF ReadMembership, Sent
<1>2. job' = [Onward EXCEPT !.rows = Matched(job.about)]
  BY DEF ReadMembership
<1>3. /\ job'.kind = job.kind /\ job'.about = job.about /\ job'.next = job.next + 1
      /\ job'.ans = job.ans /\ job'.hit = job.hit /\ job'.rows = Matched(job.about)
      /\ job'.row = job.row /\ job'.mac = job.mac /\ job'.found = job.found
  BY <1>2 DEF Onward, InventoryTypeOK, Job
<1>4. job.kind \in Reads /\ job.kind # "idle"
  BY <1>1, AtQuery DEF Table, Dir
<1>5. Watched'
  BY <1>1, <1>3, <1>4, WatchedKept DEF history
<1>6. /\ \A m, a : Held(m, a)' = Held(m, a)
      /\ \A m, g : InGroup(m, g)' = InGroup(m, g)
  BY <1>1 DEF Held, InGroup, history
<1>7. Rows \subseteq ever /\ always \subseteq Rows
  BY <1>4 DEF Watched
<1>8. Joined'
  BY <1>1, <1>3, <1>6, <1>7 DEF Joined, Matched, history
<1>9. job.kind \notin Lookups
  BY <1>4 DEF Reads, Lookups
<1>10. LookedUp'
  BY <1>3, <1>9 DEF LookedUp
<1>11. RowsComplete'
  <2>1. \A r \in always : r.sg = job.about => r.id \in Matched(job.about)
    BY <1>7 DEF Matched
  <2>2. QED
    BY <1>1, <1>3, <2>1 DEF Complete, RowsComplete, history
<1>12. LookupsComplete'
  BY <1>3, <1>9 DEF LookupsComplete
<1>13. PlanComplete'
  <2>1. Query[1] \notin Owed
    BY <1>1 DEF Owed
  <2>2. QED
    BY <1>1, <1>3, <2>1, PlanKept DEF Complete, Same, history
<1>14. QED
  BY <1>5, <1>8, <1>10, <1>11, <1>12, <1>13 DEF Complete

-----------------------------------------------------------------------------
(* Inventory: the steps at a modem's row *)

\* The rows of the table, as a job sees them.
LEMMA RowAtIndex ==
    ASSUME InventoryTypeOK, Watched, job.kind # "idle", NEW i \in Index
    PROVE  /\ table[i] # None => \E r \in ever : r.id = i /\ r.mac = table[i].mac /\ r.sg = table[i].sg /\ r.ip = table[i].ip
           /\ \A r \in always : r.id = i => table[i] # None /\ r.mac = table[i].mac /\ r.sg = table[i].sg /\ r.ip = table[i].ip
<1>1. table \in [Index -> Row \cup {None}] /\ RowsOf(table) \subseteq ever /\ always \subseteq RowsOf(table)
  BY DEF InventoryTypeOK, Watched, Rows
<1>2. QED
  BY <1>1, RowsOfTable

\* What a step of a row leaves alone.
LEMMA RowStep ==
    ASSUME InventoryTypeOK, Watched, LookedUp, LookupsComplete, PlanComplete, Same(job'), job.kind # "idle",
           job'.next = job.next, job'.ans = job.ans, job'.hit = job.hit,
           UNCHANGED <<table, answer, ever, always, lossy>>
    PROVE  /\ Watched' /\ LookedUp' /\ LookupsComplete' /\ PlanComplete'
           /\ \A m, a : Held(m, a)' = Held(m, a)
           /\ \A m, g : InGroup(m, g)' = InGroup(m, g)
<1>1. job'.kind = job.kind /\ job'.about = job.about
  BY DEF Same
<1>2. Watched'
  BY <1>1, WatchedKept
<1>3. /\ \A m, a : Held(m, a)' = Held(m, a)
      /\ \A m, g : InGroup(m, g)' = InGroup(m, g)
  BY DEF Held, InGroup
<1>4. LookedUp'
  BY <1>1, <1>3 DEF LookedUp, Sending
<1>5. LookupsComplete' /\ PlanComplete'
  BY <1>1 DEF LookupsComplete, PlanComplete
<1>6. QED
  BY <1>2, <1>3, <1>4, <1>5

LEMMA ReadMacKeeps ==
    ASSUME InventoryTypeOK, Watched, Joined, LookedUp, Complete, ReadMac
    PROVE  Watched' /\ Joined' /\ LookedUp' /\ Complete'
<1> DEFINE first == Min(job.rows)
           mac == IF table[first] = None THEN None ELSE table[first].mac
<1>1. job.row = None /\ job.rows # {} /\ job' = MacIs(mac) /\ UNCHANGED <<table, events, answer, results, history>>
  BY DEF ReadMac
<1>2. job.rows \in SUBSET Index
  BY DEF InventoryTypeOK, Job
<1>3. first \in job.rows /\ first \in Index /\ first # None
  BY <1>1, <1>2, LeastNumber, IndexesAreNumbers
<1>4. job.kind # "idle"
  BY <1>1 DEF Watched, Idle
<1>5. /\ Same(job') /\ job'.next = job.next /\ job'.ans = job.ans /\ job'.hit = job.hit /\ job'.found = job.found
      /\ job'.rows = job.rows \ {first} /\ job'.row = first /\ job'.mac = mac
  BY <1>1, RowUpdates
<1>6. /\ table[first] # None => \E r \in ever : r.id = first /\ r.mac = table[first].mac
      /\ \A r \in always : r.id = first => table[first] # None /\ r.mac = table[first].mac
  BY <1>3, <1>4, RowAtIndex
<1> HIDE DEF first
<1>7. /\ Watched' /\ LookedUp' /\ LookupsComplete' /\ PlanComplete'
      /\ \A m, a : Held(m, a)' = Held(m, a)
      /\ \A m, g : InGroup(m, g)' = InGroup(m, g)
  BY <1>1, <1>4, <1>5, RowStep DEF Complete, history
<1>8. Joined'
  BY <1>1, <1>3, <1>5, <1>6, <1>7 DEF Joined, Same, history
<1>9. RowsComplete'
  <2>1. \A r \in always : r.id = job'.row => job'.mac = r.mac
    BY <1>5, <1>6
  <2>2. job'.kind = job.kind /\ job'.about = job.about /\ always' = always /\ lossy' = lossy
    BY <1>1, <1>5 DEF Same, history
  <2>3. Sending' = Sending
    BY <1>5, <2>2 DEF Sending
  <2>4. \A r \in always : r.id # None
    BY IndexesAreNumbers DEF InventoryTypeOK
  <2>5. QED
    BY <1>1, <1>5, <2>1, <2>2, <2>3, <2>4 DEF Complete, RowsComplete
<1>10. QED
  BY <1>7, <1>8, <1>9 DEF Complete

LEMMA ReadIpKeeps ==
    ASSUME InventoryTypeOK, Watched, Joined, LookedUp, Complete, ReadIp
    PROVE  Watched' /\ Joined' /\ LookedUp' /\ Complete'
<1> DEFINE ip == IF table[job.row] = None THEN None ELSE table[job.row].ip
<1>1. job.row # None /\ job' = IpIs(ip) /\ UNCHANGED <<table, events, answer, results, history>>
  BY DEF ReadIp
<1>2. job.row \in Index
  BY <1>1 DEF InventoryTypeOK, Job
<1>3. job.kind # "idle"
  BY <1>1 DEF Watched, Idle
<1>4. /\ Same(job') /\ job'.next = job.next /\ job'.ans = job.ans /\ job'.hit = job.hit
      /\ job'.rows = job.rows /\ job'.row = None /\ job'.mac = None
      /\ job.mac = None => job'.found = job.found
      /\ job.mac # None => job'.found = job.found \cup {[mac |-> job.mac, ip |-> ip]}
  BY <1>1, RowUpdates
<1>5. job'.kind = job.kind /\ job'.about = job.about /\ always' = always /\ ever' = ever /\ lossy' = lossy
  BY <1>1, <1>4 DEF Same, history
<1>6. /\ table[job.row] # None => \E r \in ever : r.id = job.row /\ r.mac = table[job.row].mac /\ r.ip = table[job.row].ip
      /\ \A r \in always : r.id = job.row => table[job.row] # None /\ r.mac = table[job.row].mac /\ r.ip = table[job.row].ip
  BY <1>2, <1>3, RowAtIndex
<1>7. /\ ip # None => \E r \in ever : r.id = job.row /\ r.ip = ip
      /\ \A r \in always : r.id = job.row => r.ip = ip
  BY <1>6
<1> HIDE DEF ip
<1>8. /\ Watched' /\ LookedUp' /\ LookupsComplete' /\ PlanComplete'
      /\ \A m, a : Held(m, a)' = Held(m, a)
      /\ \A m, g : InGroup(m, g)' = InGroup(m, g)
  BY <1>1, <1>3, <1>4, RowStep DEF Complete, history
\* The row of the MAC address is the row of the address.
<1>9. ASSUME job.mac # None
      PROVE  Held(job.mac, ip) /\ InGroup(job.mac, job.about)
  <2>1. PICK s \in ever : s.id = job.row /\ s.mac = job.mac
    BY <1>9 DEF Joined
  <2>2. PICK r \in ever : r.id = job.row /\ r.sg = job.about
    BY <1>2 DEF Joined
  <2>3. \A x \in ever : x.id = job.row => x.mac = job.mac
    BY <2>1 DEF Watched
  <2>4. QED
    BY <1>7, <2>1, <2>2, <2>3 DEF Held, InGroup
<1>10. Joined'
  <2>1. \A i \in Index : i \in job'.rows \/ i = job'.row => i \in job.rows
    BY <1>4, IndexesAreNumbers
  <2>2. \A m \in job'.found : m \in job.found \/ (job.mac # None /\ m.mac = job.mac /\ m.ip = ip)
    <3>1. CASE job.mac = None
      BY <1>4, <3>1
    <3>2. CASE job.mac # None
      <4>1. \A m \in job'.found : m \in job.found \/ m = [mac |-> job.mac, ip |-> ip]
        BY <1>4, <3>2
      <4>2. QED
        BY <3>2, <4>1
    <3>3. QED
      BY <3>1, <3>2
  <2>3. \A m \in job'.found : Held(m.mac, m.ip) /\ InGroup(m.mac, job.about)
    BY <1>9, <2>2 DEF Joined
  <2>4. QED
    BY <1>4, <1>5, <1>8, <2>1, <2>3 DEF Joined
<1>11. RowsComplete'
  <2> SUFFICES ASSUME ~lossy PROVE RowsComplete'
    BY <1>5 DEF RowsComplete
  <2>1. \A r \in always : r.id = job.row => job.mac = r.mac
    BY DEF Complete, RowsComplete
  <2>2. \A r \in always : r.mac # None /\ r.id # None
    BY IndexesAreNumbers DEF InventoryTypeOK
  <2>3. \A r \in always : r.id = job.row => [mac |-> r.mac, ip |-> r.ip] \in job'.found
    BY <1>4, <1>7, <2>1, <2>2
  <2>4. job.found \subseteq job'.found
    BY <1>4
  <2>5. job.mac # None => \A r \in always : r.mac = job.mac => r.ip = ip
    <3>1. job.mac # None => \E s \in ever : s.id = job.row /\ s.mac = job.mac
      BY DEF Joined
    <3>2. QED
      BY <1>7, <3>1 DEF Watched
  <2>6. \A m \in job'.found, r \in always : m.mac = r.mac => m.ip = r.ip
    <3>1. \A m \in job.found, r \in always : m.mac = r.mac => m.ip = r.ip
      BY DEF Complete, RowsComplete
    <3>2. QED
      BY <1>4, <2>5, <3>1
  <2>7. Sending' = Sending
    BY <1>4, <1>5 DEF Sending
  <2>8. job.kind \in Reads /\ ~Sending => \A r \in always : r.sg = job.about =>
          r.id \in job'.rows \/ [mac |-> r.mac, ip |-> r.ip] \in job'.found
    BY <1>4, <2>3, <2>4 DEF Complete, RowsComplete
  <2>9. QED
    BY <1>4, <1>5, <2>2, <2>6, <2>7, <2>8 DEF RowsComplete
<1>12. QED
  BY <1>8, <1>10, <1>11 DEF Complete

\* After a lost request nothing is complete; what was read was still so.
LEMMA LoseKeeps ==
    ASSUME InventoryTypeOK, Watched, Joined, LookedUp, Complete, Lose
    PROVE  Watched' /\ Joined' /\ LookedUp' /\ Complete'
<1>1. lossy' = TRUE /\ UNCHANGED <<table, answer, results, ever, always>>
  BY DEF Lose
<1>2. Complete'
  BY <1>1 DEF Complete, RowsComplete, LookupsComplete, PlanComplete
<1>3. /\ \A m, a : Held(m, a)' = Held(m, a)
      /\ \A m, g : InGroup(m, g)' = InGroup(m, g)
  BY <1>1 DEF Held, InGroup
<1>4. CASE Sending /\ ((job' = Onward /\ Query[1] # "macs") \/ job' = AtEnd)
  <2>1. job.kind # "idle" /\ job'.kind = job.kind /\ job'.about = job.about
    BY <1>4, AtQuery, Updates DEF Same
  <2>2. Watched'
    BY <1>1, <2>1, WatchedKept
  <2>3. job'.hit = job.hit /\ job'.rows = job.rows /\ job'.row = job.row /\ job'.mac = job.mac /\ job'.found = job.found
    BY <1>4, Updates
  <2>4. Joined'
    BY <1>1, <1>3, <2>1, <2>3 DEF Joined
  <2>5. job.kind \in Lookups /\ Sending' => job.hit # None
    <3>1. CASE job' = AtEnd
      <4>1. job'.next = Len(Plan(job.kind)) + 1
        BY <3>1, Updates
      <4>2. ~Sending'
        BY <2>1, <4>1, PlanEnds DEF Sending
      <4>3. QED
        BY <4>2
    <3>2. CASE Query[1] # "macs"
      <4>1. job.kind \in Lookups => job.next # 1
        BY <1>4, <2>1, <3>2, AtQuery DEF Table, Lookups, Reads, Dir
      <4>2. QED
        BY <1>4, <4>1 DEF LookedUp
    <3>3. QED
      BY <1>4, <3>1, <3>2
  <2>6. LookedUp'
    BY <1>1, <1>3, <2>1, <2>3, <2>5 DEF LookedUp
  <2>7. QED
    BY <1>2, <2>2, <2>4, <2>6
<1>5. ASSUME (job' = MacIs(None) /\ job.rows # {}) \/ (job' = IpIs(None) /\ job.row # None)
      PROVE  Watched' /\ Joined' /\ LookedUp' /\ Complete'
  <2>1. job.kind # "idle"
    BY <1>5 DEF Watched, Idle
  <2>2. Same(job') /\ job'.next = job.next /\ job'.ans = job.ans /\ job'.hit = job.hit /\ job'.mac = None
    BY <1>5, RowUpdates
  <2>3. job'.kind = job.kind /\ job'.about = job.about
    BY <2>2 DEF Same
  <2>4. Watched'
    BY <1>1, <2>1, <2>3, WatchedKept
  <2>5. LookedUp'
    BY <1>1, <1>3, <2>2, <2>3 DEF LookedUp, Sending
  <2>6. job.rows \in SUBSET Nat /\ (job.rows # {} => Min(job.rows) \in job.rows)
    <3>1. job.rows \in SUBSET Nat
      BY IndexesAreNumbers DEF InventoryTypeOK, Job
    <3>2. QED
      BY <3>1, LeastNumber
  <2>7. \A i \in Index : i \in job'.rows \/ i = job'.row => i \in job.rows
    BY <1>5, <2>6, RowUpdates, IndexesAreNumbers
  <2>8. \A m \in job'.found : Held(m.mac, m.ip) /\ InGroup(m.mac, job.about)
    <3>1. CASE job.mac = None \/ job' = MacIs(None)
      BY <1>5, <3>1, RowUpdates DEF Joined
    <3>2. CASE job.mac # None /\ job' = IpIs(None)
      <4>1. PICK s \in ever : s.id = job.row /\ s.mac = job.mac
        BY <3>2 DEF Joined
      <4>2. PICK r \in ever : r.id = job.row /\ r.sg = job.about
        BY <3>2 DEF Joined, InventoryTypeOK, Job
      <4>3. Held(job.mac, None) /\ InGroup(job.mac, job.about)
        BY <4>1, <4>2 DEF Held, InGroup, Watched
      <4>4. \A m \in job'.found : m \in job.found \/ (m.mac = job.mac /\ m.ip = None)
        <5>1. job'.found = job.found \cup {[mac |-> job.mac, ip |-> None]}
          BY <3>2, RowUpdates
        <5>2. \A m \in job'.found : m \in job.found \/ m = [mac |-> job.mac, ip |-> None]
          BY <5>1
        <5>3. QED
          BY <5>2
      <4>5. QED
        BY <4>3, <4>4 DEF Joined
    <3>3. QED
      BY <1>5, <3>1, <3>2
  <2>9. Joined'
    BY <1>1, <1>3, <2>2, <2>3, <2>7, <2>8 DEF Joined
  <2>10. QED
    BY <1>2, <2>4, <2>5, <2>9
<1>6. \/ Sending /\ ((job' = Onward /\ Query[1] # "macs") \/ job' = AtEnd)
      \/ job' = MacIs(None) /\ job.rows # {}
      \/ job' = IpIs(None) /\ job.row # None
  BY DEF Lose, Sent
<1>7. QED
  BY <1>4, <1>5, <1>6

LEMMA FindRowKeeps ==
    ASSUME InventoryTypeOK, Watched, Joined, LookedUp, Complete, FindRow
    PROVE  Watched' /\ Joined' /\ LookedUp' /\ Complete'
<1> DEFINE ids == {r.id : r \in {x \in Rows : x.mac = job.about}}
<1>1. /\ Sending /\ Query[1] = "macs" /\ UNCHANGED <<table, events, results, history>>
      /\ IF ids = {} THEN job' = AtEnd /\ UNCHANGED answer
         ELSE /\ job' = [Onward EXCEPT !.hit = Min(ids)]
              /\ answer' = [answer EXCEPT !.exists = TRUE]
  BY DEF FindRow, Sent
<1>2. job.kind \in Lookups /\ job.next = 1 /\ job.kind # "idle"
  BY <1>1, AtQuery DEF Table, Dir, Lookups
<1>3. Rows \subseteq ever /\ always \subseteq Rows /\ ever' = ever /\ always' = always /\ lossy' = lossy
  BY <1>1, <1>2 DEF Watched, history
<1>4. /\ \A i \in ids : \E r \in ever : r.id = i /\ r.mac = job.about
      /\ \A r \in always : r.mac = job.about => r.id \in ids /\ \A i \in ids : i = r.id
  <2>1. \A i \in ids : \E r \in Rows : r.id = i /\ r.mac = job.about
    OBVIOUS
  <2>2. \A r \in Rows : r.mac = job.about => r.id \in ids
    OBVIOUS
  <2> HIDE DEF ids
  <2>3. \A r \in always, s \in ever : r.mac = s.mac => r = s
    BY DEF Watched
  <2>4. QED
    BY <1>3, <2>1, <2>2, <2>3
<1>5. ids \in SUBSET Index
  BY RowsOfTable DEF Rows, InventoryTypeOK
<1>6. ids # {} => Min(ids) \in ids /\ Min(ids) # None
  BY <1>5, LeastNumber, IndexesAreNumbers
<1> HIDE DEF ids
<1>7. /\ job'.kind = job.kind /\ job'.about = job.about /\ job'.ans = job.ans /\ job'.rows = job.rows
      /\ job'.row = job.row /\ job'.mac = job.mac /\ job'.found = job.found
      /\ ids = {} => job'.hit = job.hit /\ job'.next = Len(Plan(job.kind)) + 1
      /\ ids # {} => job'.hit = Min(ids) /\ job'.next = 2
  <2>1. CASE ids = {}
    BY <1>1, <2>1, Updates DEF Same
  <2>2. CASE ids # {}
    <3>1. job' = [Onward EXCEPT !.hit = Min(ids)]
      BY <1>1, <2>2
    <3>2. /\ job'.kind = job.kind /\ job'.about = job.about /\ job'.ans = job.ans /\ job'.rows = job.rows
          /\ job'.row = job.row /\ job'.mac = job.mac /\ job'.found = job.found
          /\ job'.hit = Min(ids) /\ job'.next = job.next + 1
      BY <3>1 DEF Onward, InventoryTypeOK, Job
    <3>3. QED
      BY <1>2, <2>2, <3>2
  <2>3. QED
    BY <2>1, <2>2
<1>8. Watched'
  BY <1>1, <1>2, <1>7, WatchedKept DEF history
<1>9. /\ \A m, a : Held(m, a)' = Held(m, a)
      /\ \A m, g : InGroup(m, g)' = InGroup(m, g)
  BY <1>3 DEF Held, InGroup
<1>10. Joined'
  BY <1>3, <1>7, <1>9 DEF Joined
<1>11. CASE ids = {}
  <2>1. ~Sending' /\ answer' = answer
    BY <1>1, <1>7, <1>11, PlanEnds DEF Sending
  <2>2. LookedUp'
    BY <1>3, <1>7, <1>9, <1>11, <2>1 DEF LookedUp
  <2>3. RowsComplete' /\ LookupsComplete'
    <3>1. job.kind \notin Reads
      BY <1>2 DEF Lookups, Reads
    <3>2. QED
      BY <1>3, <1>4, <1>7, <1>11, <3>1 DEF Complete, RowsComplete, LookupsComplete
  <2>4. PlanComplete'
    BY <1>2, <1>3, <1>7, PlanKept DEF Complete, Same
  <2>5. QED
    BY <1>8, <1>10, <2>2, <2>3, <2>4 DEF Complete
<1>12. CASE ids # {}
  <2>1. answer'.exists = TRUE /\ answer'.value = answer.value
    BY <1>1, <1>12 DEF InventoryTypeOK
  <2>2. job'.hit = Min(ids) /\ job'.next = 2 /\ job'.hit # None
    BY <1>6, <1>7, <1>12
  <2>3. Held(job.about, None)
    BY <1>4, <1>6, <1>12 DEF Held
  <2>4. LookedUp'
    <3>1. \E r \in ever' : r.id = job'.hit /\ r.mac = job'.about
      BY <1>3, <1>4, <1>6, <1>7, <1>12, <2>2
    <3>2. job.kind = "inet" => Held(job.about, answer.value)
      BY <1>2, <2>3 DEF LookedUp
    <3>3. job.kind = "sgof" /\ answer.value # None => InGroup(job.about, answer.value)
      BY <1>2 DEF LookedUp
    <3>4. QED
      BY <1>7, <1>9, <2>1, <2>2, <3>1, <3>2, <3>3 DEF LookedUp
  <2>5. RowsComplete' /\ LookupsComplete'
    <3>1. job.kind \notin Reads
      BY <1>2 DEF Lookups, Reads
    <3>2. QED
      BY <1>3, <1>4, <1>6, <1>7, <1>12, <3>1 DEF Complete, RowsComplete, LookupsComplete
  <2>6. PlanComplete'
    BY <1>2, <1>3, <1>7, PlanKept DEF Complete, Same
  <2>7. QED
    BY <1>8, <1>10, <2>4, <2>5, <2>6 DEF Complete
<1>13. QED
  BY <1>11, <1>12

LEMMA ReadColumnKeeps ==
    ASSUME InventoryTypeOK, Watched, Joined, LookedUp, Complete, ReadAddress \/ ReadGroup
    PROVE  Watched' /\ Joined' /\ LookedUp' /\ Complete'
<1> DEFINE row == table[job.hit]
<1>1. Sending /\ job' = Onward /\ UNCHANGED <<table, events, results, history>>
  BY DEF ReadAddress, ReadGroup, Sent
<1>2. /\ job.kind \in Lookups /\ job.next \in {2, 3}
      /\ job.kind = "inet" => answer' = [answer EXCEPT !.value = IF row = None THEN @ ELSE row.ip]
      /\ job.kind = "sgof" => answer' = [answer EXCEPT !.value = IF row = None THEN @ ELSE row.sg]
  <2>1. CASE ReadAddress
    <3>1. Query[1] \in {"addr", "addrwalk"} /\ answer' = [answer EXCEPT !.value = IF row = None THEN @ ELSE row.ip]
      BY <2>1 DEF ReadAddress, Sent
    <3>2. job.kind = "inet" /\ job.next \in {2, 3}
      BY <1>1, <3>1, AtQuery DEF Table, Dir
    <3>3. QED
      BY <3>1, <3>2 DEF Lookups
  <2>2. CASE ReadGroup
    <3>1. Query[1] = "sgs" /\ answer' = [answer EXCEPT !.value = IF row = None THEN @ ELSE row.sg]
      BY <2>2 DEF ReadGroup, Sent
    <3>2. job.kind = "sgof" /\ job.next = 2
      BY <1>1, <3>1, AtQuery DEF Table, Dir
    <3>3. QED
      BY <3>1, <3>2 DEF Lookups
  <2>3. QED
    BY <2>1, <2>2
<1>3. job.kind \in {"inet", "sgof"} /\ job.kind # "idle" /\ job.kind \notin Reads
  BY <1>2 DEF Lookups, Reads
<1>4. job.hit # None /\ job.hit \in Index
  BY <1>1, <1>2 DEF LookedUp, InventoryTypeOK, Job
<1>5. /\ row # None => \E r \in ever : r.id = job.hit /\ r.mac = row.mac /\ r.sg = row.sg /\ r.ip = row.ip
      /\ \A r \in always : r.id = job.hit => row # None /\ r.mac = row.mac /\ r.sg = row.sg /\ r.ip = row.ip
  BY <1>3, <1>4, RowAtIndex
<1> HIDE DEF row
<1>6. row # None => Held(job.about, row.ip) /\ InGroup(job.about, row.sg)
  <2>1. PICK s \in ever : s.id = job.hit /\ s.mac = job.about
    BY <1>2, <1>4 DEF LookedUp
  <2>2. QED
    BY <1>5, <2>1 DEF Watched, Held, InGroup
<1>7. /\ answer'.exists = answer.exists
      /\ job.kind = "inet" => answer'.value = IF row = None THEN answer.value ELSE row.ip
      /\ job.kind = "sgof" => answer'.value = IF row = None THEN answer.value ELSE row.sg
  BY <1>2, <1>3 DEF InventoryTypeOK
<1>8. /\ job'.kind = job.kind /\ job'.about = job.about /\ job'.next = job.next + 1 /\ job'.ans = job.ans
      /\ job'.hit = job.hit /\ job'.rows = job.rows /\ job'.row = job.row /\ job'.mac = job.mac
      /\ job'.found = job.found
  BY <1>1, Updates DEF Same
<1>9. ever' = ever /\ always' = always /\ lossy' = lossy
  BY <1>1 DEF history
<1>10. /\ \A m, a : Held(m, a)' = Held(m, a)
       /\ \A m, g : InGroup(m, g)' = InGroup(m, g)
  BY <1>9 DEF Held, InGroup
<1>11. Watched'
  BY <1>1, <1>3, <1>8, WatchedKept DEF history
<1>12. Joined'
  BY <1>8, <1>9, <1>10 DEF Joined
<1>13. LookedUp'
  <2>1. job.kind = "inet" => Held(job.about, answer'.value)
    BY <1>2, <1>4, <1>6, <1>7 DEF LookedUp
  <2>2. job.kind = "sgof" /\ answer'.value # None => InGroup(job.about, answer'.value)
    BY <1>2, <1>6, <1>7 DEF LookedUp
  <2>3. \E r \in ever' : r.id = job'.hit /\ r.mac = job'.about
    BY <1>2, <1>4, <1>8, <1>9 DEF LookedUp
  <2>4. QED
    BY <1>4, <1>8, <1>10, <2>1, <2>2, <2>3 DEF LookedUp
<1>14. RowsComplete'
  BY <1>3, <1>8, <1>9 DEF Complete, RowsComplete
<1>15. LookupsComplete'
  <2> SUFFICES ASSUME ~lossy, NEW r \in always, r.mac = job.about
               PROVE  job.hit = r.id /\ answer'.value = IF job.kind = "inet" THEN r.ip ELSE r.sg
    BY <1>8, <1>9 DEF LookupsComplete
  <2>1. job.hit = r.id
    BY <1>2 DEF Complete, LookupsComplete
  <2>2. QED
    BY <1>3, <1>5, <1>7, <2>1
<1>16. PlanComplete'
  BY <1>2, <1>8, <1>9, PlanKept DEF Complete, Same
<1>17. QED
  BY <1>11, <1>12, <1>13, <1>14, <1>15, <1>16 DEF Complete

-----------------------------------------------------------------------------
(* Inventory: the table, and every step *)

LEMMA EnvironmentKeeps ==
    ASSUME InventoryTypeOK, Watched, Joined, LookedUp, Complete, Environment
    PROVE  Watched' /\ Joined' /\ LookedUp' /\ Complete'
<1>1. table \in [Index -> Row \cup {None}] /\ None \notin Row
      /\ \A i, j \in Index : table[i] # None /\ table[j] # None /\ table[i].mac = table[j].mac => i = j
  BY InventoryAssumption DEF InventoryTypeOK, Watched
<1>2. \A i \in Index : table[i] # None => table[i] \in Row
  BY <1>1
<1>3. ASSUME NEW i \in Index, NEW m \in Mac, NEW g \in Group, NEW a \in Addr, Register(i, m, g, a)
      PROVE  Watched' /\ Joined' /\ LookedUp' /\ Complete'
  <2> DEFINE new == [mac |-> m, sg |-> g, ip |-> a]
             t == [table EXCEPT ![i] = new]
  <2>1. new \in Row /\ new.mac = m /\ new # None
    BY <1>1 DEF Row
  <2>2. \A r \in Rows : r.mac # m
    BY <1>3 DEF Register
  <2>3. \A j \in Index : table[j] # None => table[j].mac # m
    BY <1>1, <2>2, RowsOfTable DEF Rows
  <2>4. Changed(t) /\ \A r \in ever : r.id = i => r.mac = m
    BY <1>3 DEF Register
  <2> HIDE DEF new
  <2>5. t \in [Index -> Row \cup {None}] /\ t[i] = new /\ \A j \in Index : j # i => t[j] = table[j]
    BY <1>1, <2>1
  <2> HIDE DEF t
  <2>6. \A j, k \in Index : t[j] # None /\ t[k] # None /\ t[j].mac = t[k].mac => j = k
    BY <1>1, <2>1, <2>3, <2>5
  <2>7. \A j \in Index : t[j] # None => \/ table[j] # None /\ t[j].mac = table[j].mac
                                       \/ \A s \in ever : s.id = j => s.mac = t[j].mac
    BY <2>1, <2>4, <2>5
  <2>8. QED
    BY <2>4, <2>5, <2>6, <2>7, ChangeKeeps
<1>4. ASSUME NEW i \in Index, NEW t \in [Index -> Row \cup {None}], Changed(t), table[i] # None,
             \A j \in Index : j # i => t[j] = table[j], t[i] # None => t[i].mac = table[i].mac
      PROVE  Watched' /\ Joined' /\ LookedUp' /\ Complete'
  <2>1. \A j \in Index : t[j] # None => table[j] # None /\ t[j].mac = table[j].mac
    BY <1>4
  <2>2. \A j, k \in Index : t[j] # None /\ t[k] # None /\ t[j].mac = t[k].mac => j = k
    BY <1>1, <2>1
  <2>3. \A j \in Index : t[j] # None => \/ table[j] # None /\ t[j].mac = table[j].mac
                                       \/ \A s \in ever : s.id = j => s.mac = t[j].mac
    BY <2>1
  <2>4. QED
    BY <1>4, <2>2, <2>3, ChangeKeeps
<1>5. ASSUME NEW i \in Index, Deregister(i)
      PROVE  Watched' /\ Joined' /\ LookedUp' /\ Complete'
  <2> DEFINE t == [table EXCEPT ![i] = None]
  <2>1. table[i] # None /\ Changed(t)
    BY <1>5 DEF Deregister
  <2>2. t \in [Index -> Row \cup {None}] /\ t[i] = None /\ \A j \in Index : j # i => t[j] = table[j]
    BY <1>1
  <2> HIDE DEF t
  <2>3. QED
    BY <1>4, <2>1, <2>2
<1>6. ASSUME NEW i \in Index, NEW g \in Group, Move(i, g)
      PROVE  Watched' /\ Joined' /\ LookedUp' /\ Complete'
  <2> DEFINE t == [table EXCEPT ![i].sg = g]
  <2>1. table[i] # None /\ Changed(t)
    BY <1>6 DEF Move
  <2>2. table[i] \in Row
    BY <1>2, <2>1
  <2>3. [table[i] EXCEPT !.sg = g] \in Row /\ [table[i] EXCEPT !.sg = g].mac = table[i].mac
    BY <2>2 DEF Row
  <2>4. t \in [Index -> Row \cup {None}] /\ t[i].mac = table[i].mac /\ \A j \in Index : j # i => t[j] = table[j]
    BY <1>1, <2>3
  <2> HIDE DEF t
  <2>5. QED
    BY <1>4, <2>1, <2>4
<1>7. ASSUME NEW i \in Index, NEW a \in Addr, Renumber(i, a)
      PROVE  Watched' /\ Joined' /\ LookedUp' /\ Complete'
  <2> DEFINE t == [table EXCEPT ![i].ip = a]
  <2>1. table[i] # None /\ Changed(t)
    BY <1>7 DEF Renumber
  <2>2. table[i] \in Row
    BY <1>2, <2>1
  <2>3. [table[i] EXCEPT !.ip = a] \in Row /\ [table[i] EXCEPT !.ip = a].mac = table[i].mac
    BY <2>2 DEF Row
  <2>4. t \in [Index -> Row \cup {None}] /\ t[i].mac = table[i].mac /\ \A j \in Index : j # i => t[j] = table[j]
    BY <1>1, <2>3
  <2> HIDE DEF t
  <2>5. QED
    BY <1>4, <2>1, <2>4
<1>8. QED
  BY <1>3, <1>5, <1>6, <1>7 DEF Environment

LEMMA InventoryIInvNext == InventoryIInv /\ [InventoryNext]_inventoryVars => InventoryIInv'
<1> SUFFICES ASSUME InventoryIInv, [InventoryNext]_inventoryVars PROVE InventoryIInv'
  OBVIOUS
<1>1. InventoryTypeOK /\ Watched /\ Joined /\ LookedUp /\ Complete
  BY DEF InventoryIInv, Complete
<1>2. InventoryTypeOK'
  BY <1>1, InventoryTypeNext
<1>3. ASSUME UNCHANGED <<table, job, answer, ever, always, lossy>>
      PROVE  Watched' /\ Joined' /\ LookedUp' /\ Complete'
  BY <1>1, <1>3 DEF Watched, Joined, LookedUp, Complete, RowsComplete, LookupsComplete, PlanComplete,
                    Sending, Held, InGroup, Rows
<1>4. ASSUME NEW kind \in Kinds \ {"idle"}, NEW about, Begin(kind, about), kind \in Lookups => answer' = NoAnswer
      PROVE  Watched' /\ Joined' /\ LookedUp' /\ Complete'
  BY <1>1, <1>4, BeginKeeps
<1>5. Watched' /\ Joined' /\ LookedUp' /\ Complete'
  <2>1. CASE StaticDiscovery \/ PrecheckFails \/ UNCHANGED inventoryVars
    BY <1>3, <2>1 DEF StaticDiscovery, PrecheckFails, inventoryVars, results, history
  <2>2. CASE StartDiscovery
    BY <1>4, <2>2 DEF StartDiscovery, Kinds, Lookups
  <2>3. ASSUME NEW g \in Group, StartPoll(g) \/ StartList(g) PROVE Watched' /\ Joined' /\ LookedUp' /\ Complete'
    BY <1>4, <2>3 DEF StartPoll, StartList, StartLookup, Kinds, Lookups
  <2>4. ASSUME NEW m \in Mac, StartInet(m) \/ StartSgOf(m) PROVE Watched' /\ Joined' /\ LookedUp' /\ Complete'
    BY <1>4, <2>4 DEF StartInet, StartSgOf, StartLookup, Kinds, Lookups
  <2>5. ASSUME NEW k \in DOMAIN Nodes, StartNode(k) \/ StartRegSg(k) \/ StartDsSg(k)
        PROVE  Watched' /\ Joined' /\ LookedUp' /\ Complete'
    BY <1>4, <2>5 DEF StartNode, StartRegSg, StartDsSg, StartLookup, Kinds, Lookups
  <2>6. CASE Discover \/ Store \/ Unresolved \/ Answer
    <3>1. EndJob /\ table' = table
      BY <2>6 DEF Discover, Store, Unresolved, Answer
    <3>2. QED
      BY <1>1, <3>1, EndKeeps
  <2>7. CASE Skip \/ ReadTable \/ ReadMembership
    BY <1>1, <2>7, SkipKeeps, ReadTableKeeps, ReadMembershipKeeps
  <2>8. CASE ReadMac \/ ReadIp \/ Lose
    BY <1>1, <2>8, ReadMacKeeps, ReadIpKeeps, LoseKeeps
  <2>9. CASE FindRow \/ ReadAddress \/ ReadGroup
    BY <1>1, <2>9, FindRowKeeps, ReadColumnKeeps
  <2>10. CASE Environment
    BY <1>1, <2>10, EnvironmentKeeps
  <2>11. QED
    BY <2>1, <2>2, <2>3, <2>4, <2>5, <2>6, <2>7, <2>8, <2>9, <2>10 DEF InventoryNext
<1>6. QED
  BY <1>2, <1>5 DEF InventoryIInv, Complete

LEMMA InventoryIInvInit == InventoryInit => InventoryIInv
<1> SUFFICES ASSUME InventoryInit PROVE InventoryIInv
  OBVIOUS
<1>1. job = Idle /\ ever = {} /\ always = {} /\ table \in Tables
  BY DEF InventoryInit
<1>2. /\ Idle.kind = "idle" /\ Idle.next = 1 /\ Idle.rows = {} /\ Idle.row = None /\ Idle.mac = None /\ Idle.found = {}
  BY DEF Idle
<1>3. Watched
  BY <1>1, <1>2, InventoryAssumption DEF Watched
<1>4. Joined
  BY <1>1, <1>2, IndexesAreNumbers DEF Joined
<1>5. LookedUp /\ RowsComplete /\ LookupsComplete
  BY <1>1, <1>2 DEF LookedUp, RowsComplete, LookupsComplete, Reads, Lookups
<1>6. PlanComplete
  BY <1>1, <1>2, PlanEnds DEF PlanComplete
<1>7. QED
  BY <1>3, <1>4, <1>5, <1>6, InventoryTypeInit DEF InventoryIInv

-----------------------------------------------------------------------------
(* Inventory: what is stored and answered *)

\* How a job comes to its end with everything answered.
LEMMA LastStep ==
    ASSUME InventoryTypeOK, InventoryNext, job.kind # "idle", Done, job' = Idle
    PROVE  /\ job.kind = "poll" => Store
           /\ job.kind = "discover" => Discover
           /\ job.kind \notin {"poll", "discover"} => Answer
<1>1. ~Sending /\ job.rows = {} /\ job.row = None /\ job # Idle
  BY DEF Done, Idle
<1>2. ~StaticDiscovery /\ ~PrecheckFails /\ \A kind, about : ~Begin(kind, about)
  BY <1>1 DEF StaticDiscovery, PrecheckFails, Begin
<1>3. /\ ~StartDiscovery /\ \A g : ~StartPoll(g) /\ ~StartList(g)
      /\ \A m : ~StartInet(m) /\ ~StartSgOf(m)
      /\ \A k : ~StartNode(k) /\ ~StartRegSg(k) /\ ~StartDsSg(k)
  BY <1>2 DEF StartDiscovery, StartPoll, StartList, StartInet, StartSgOf, StartNode, StartRegSg, StartDsSg, StartLookup
<1>4. ~Skip /\ ~ReadTable /\ ~ReadMembership /\ ~FindRow /\ ~ReadAddress /\ ~ReadGroup /\ ~Unresolved
  BY <1>1 DEF Skip, ReadTable, ReadMembership, FindRow, ReadAddress, ReadGroup, Unresolved, Sent
<1>5. ~ReadMac /\ ~ReadIp /\ ~Lose
  BY <1>1 DEF ReadMac, ReadIp, Lose, Sent
<1>6. ~Environment
  BY <1>1 DEF Environment, Register, Deregister, Move, Renumber, Changed
<1>7. Discover \/ Store \/ Answer
  BY <1>2, <1>3, <1>4, <1>5, <1>6 DEF InventoryNext
<1>8. QED
  BY <1>7 DEF Discover, Store, Answer

\* What a poll stores: its modems are those that were found.
LEMMA StoredModems ==
    ASSUME InventoryTypeOK, Store
    PROVE  /\ job.about \in Group
           /\ \A m \in stored'[job.about].modems : \E f \in job.found : m.mac = f.mac /\ m.ip = f.ip
           /\ \A f \in job.found : \E m \in stored'[job.about].modems : m.mac = f.mac /\ m.ip = f.ip
           /\ \A d \in Dir : stored'[job.about].channels[d] = RfChannels(job.ans, job.about, d)
<1>1. job.about \in Group
  BY DEF InventoryTypeOK, Store, About
<1>2. PICK described \in SUBSET Addressed : stored' = [stored EXCEPT ![job.about] = Inventory(described)]
  BY DEF Store
<1>3. stored'[job.about] = Inventory(described)
  BY <1>1, <1>2 DEF InventoryTypeOK
<1>4. /\ Inventory(described).modems = {[mac |-> m.mac, ip |-> m.ip, sysdescr |-> m \in described] : m \in job.found}
      /\ Inventory(described).channels = [d \in Dir |-> RfChannels(job.ans, job.about, d)]
  BY DEF Inventory
<1> DEFINE Stored(m) == [mac |-> m.mac, ip |-> m.ip, sysdescr |-> m \in described]
<1>5. \A m : Stored(m).mac = m.mac /\ Stored(m).ip = m.ip
  OBVIOUS
<1>6. Inventory(described).modems = {Stored(m) : m \in job.found}
  BY <1>4
<1> HIDE DEF Stored
<1>7. QED
  BY <1>1, <1>3, <1>4, <1>5, <1>6

\* A job that ends without a lost request was answered all that it had to ask.
LEMMA AllAnswered ==
    ASSUME InventoryTypeOK, PlanComplete, Done, ~lossy, NEW k \in DOMAIN Plan(job.kind), Plan(job.kind)[k][1] \in Owed
    PROVE  Plan(job.kind)[k] \in job.ans
<1>1. job.next \in Nat \ {0} /\ job.next \notin DOMAIN Plan(job.kind)
  BY DEF InventoryTypeOK, Job, Done, Sending
<1>2. k < job.next
  BY <1>1, PlanEnds
<1>3. QED
  BY <1>2 DEF PlanComplete

LEMMA PollAnswered ==
    ASSUME InventoryTypeOK, PlanComplete, Done, ~lossy, job.kind = "poll", NEW d \in Dir
    PROVE  /\ \A t \in {"nodes", "sets", "lists", "qam", "qamfields", "ofdm", "ofdmid", "bdry"} : <<t, d>> \in job.ans
           /\ d = "ds" => <<"band", d>> \in job.ans
<1>1. Plan(job.kind) = PollPlan /\ DOMAIN PollPlan = 1..24
  BY PollPlanRows DEF Plan
<1>2. ASSUME NEW k \in 1..24, NEW t \in Owed, NEW e, PollPlan[k] = <<t, e>>
      PROVE  <<t, e>> \in job.ans
  BY <1>1, <1>2, AllAnswered
<1>3. /\ PollPlan[1] = <<"nodes", "ds">> /\ PollPlan[2] = <<"nodes", "us">>
      /\ PollPlan[3] = <<"sets", "ds">> /\ PollPlan[4] = <<"sets", "us">>
      /\ PollPlan[5] = <<"lists", "ds">> /\ PollPlan[6] = <<"lists", "us">>
      /\ PollPlan[13] = <<"qam", "ds">> /\ PollPlan[14] = <<"qamfields", "ds">>
      /\ PollPlan[15] = <<"qam", "us">> /\ PollPlan[16] = <<"qamfields", "us">>
      /\ PollPlan[17] = <<"ofdm", "ds">> /\ PollPlan[18] = <<"ofdmid", "ds">>
      /\ PollPlan[19] = <<"bdry", "ds">> /\ PollPlan[20] = <<"band", "ds">>
      /\ PollPlan[21] = <<"ofdm", "us">> /\ PollPlan[22] = <<"ofdmid", "us">>
      /\ PollPlan[23] = <<"bdry", "us">>
  BY DEF PollPlan
<1> HIDE DEF PollPlan
<1>4. /\ "nodes" \in Owed /\ "sets" \in Owed /\ "lists" \in Owed /\ "qam" \in Owed /\ "qamfields" \in Owed
      /\ "ofdm" \in Owed /\ "ofdmid" \in Owed /\ "bdry" \in Owed /\ "band" \in Owed
  BY DEF Owed
<1>5. <<"nodes", d>> \in job.ans
  BY <1>2, <1>3, <1>4 DEF Dir
<1>6. <<"sets", d>> \in job.ans
  BY <1>2, <1>3, <1>4 DEF Dir
<1>7. <<"lists", d>> \in job.ans
  BY <1>2, <1>3, <1>4 DEF Dir
<1>8. <<"qam", d>> \in job.ans
  BY <1>2, <1>3, <1>4 DEF Dir
<1>9. <<"qamfields", d>> \in job.ans
  BY <1>2, <1>3, <1>4 DEF Dir
<1>10. <<"ofdm", d>> \in job.ans
  BY <1>2, <1>3, <1>4 DEF Dir
<1>11. <<"ofdmid", d>> \in job.ans
  BY <1>2, <1>3, <1>4 DEF Dir
<1>12. <<"bdry", d>> \in job.ans
  BY <1>2, <1>3, <1>4 DEF Dir
<1>13. <<"band", "ds">> \in job.ans
  BY <1>2, <1>3, <1>4
<1>14. QED
  BY <1>5, <1>6, <1>7, <1>8, <1>9, <1>10, <1>11, <1>12, <1>13

\* Whatever is lost, the channels of a side are the group's own or none.
LEMMA OwnChannels ==
    ASSUME NEW ans, NEW g, NEW d \in Dir
    PROVE  /\ Channels(ans, g, d) = <<>> \/ Channels(ans, g, d) = TrueList(g, d)
           /\ (\A t \in {"nodes", "sets", "lists"} : <<t, d>> \in ans) => Channels(ans, g, d) = TrueList(g, d)
<1> DEFINE id == IF d = "ds" THEN FirstNode(g).ds ELSE FirstNode(g).us
           empty == <<>>
<1>1. DOMAIN empty = {}
  OBVIOUS
<1>2. 0 \notin DOMAIN SetOf[d] /\ 0 \notin DOMAIN ListOf[d] /\ \A x \in DOMAIN SetOf[d] : SetOf[d][x] \in Nat
  BY ChannelTables
<1>3. /\ SideId(ans, g, d) = 0 \/ (NodesOf(g) # {} /\ SideId(ans, g, d) = id)
      /\ <<"nodes", d>> \in ans => SideId(ans, g, d) = IF NodesOf(g) = {} THEN 0 ELSE id
  BY DEF SideId, NodeColumn
<1>4. TrueSet(g, d) = IF NodesOf(g) # {} /\ id \in DOMAIN SetOf[d] THEN SetOf[d][id] ELSE 0
  BY DEF TrueSet
<1> HIDE DEF id, empty
<1>5. /\ ChSetId(ans, g, d) = 0 \/ ChSetId(ans, g, d) = TrueSet(g, d)
      /\ (<<"nodes", d>> \in ans /\ <<"sets", d>> \in ans) => ChSetId(ans, g, d) = TrueSet(g, d)
  <2>1. CASE SideId(ans, g, d) = 0
    BY <1>2, <1>3, <1>4, <2>1 DEF ChSetId
  <2>2. CASE SideId(ans, g, d) # 0
    BY <1>2, <1>3, <1>4, <2>2 DEF ChSetId, SetMap, SetGet
  <2>3. QED
    BY <2>1, <2>2
<1>6. TrueSet(g, d) \in Nat
  BY <1>2, <1>4
<1>7. /\ <<"lists", d>> \in ans => ListMap(ans, d) = ListOf[d]
      /\ <<"lists", d>> \notin ans => ListMap(ans, d) = empty
      /\ \A set : ListGet(ans, d, set) = empty \/ (set \in DOMAIN ListOf[d] /\ ListGet(ans, d, set) = ListOf[d][set])
  BY DEF ListMap, ListGet, empty
<1>8. TrueList(g, d) = IF TrueSet(g, d) \in DOMAIN ListOf[d] THEN ListOf[d][TrueSet(g, d)] ELSE empty
  BY DEF TrueList, empty
<1>9. LET set == ChSetId(ans, g, d)
      IN  Channels(ans, g, d) = IF set \in DOMAIN ListMap(ans, d) THEN ListMap(ans, d)[set]
                                ELSE IF set > 0 THEN ListGet(ans, d, set) ELSE empty
  BY DEF Channels, empty
<1>10. CASE ChSetId(ans, g, d) = TrueSet(g, d)
  BY <1>1, <1>2, <1>6, <1>7, <1>8, <1>9, <1>10 DEF empty
<1>11. CASE ChSetId(ans, g, d) = 0 /\ ChSetId(ans, g, d) # TrueSet(g, d)
  <2>1. Channels(ans, g, d) = empty
    BY <1>1, <1>2, <1>7, <1>9, <1>11
  <2>2. QED
    BY <1>5, <1>11, <2>1 DEF empty
<1>12. QED
  BY <1>5, <1>10, <1>11

\* Half the width on both sides is the width, up to an odd hertz.
LEMMA HalfWidths ==
    ASSUME NEW center \in Nat, NEW width \in Nat
    PROVE  (center + width \div 2) - (center - width \div 2) \in (width - 1)..width
OBVIOUS

\* The computed band of an OFDM channel covers its active subcarriers.
LEMMA BandCovers ==
    ASSUME NEW c \in DOMAIN Ofdm["ds"], OfdmBounds(Ofdm["ds"][c]) # Unbounded
    PROVE  LET row == Ofdm["ds"][c]
           IN  Covers(OfdmBounds(row), row.zero + row.first * row.spacing, row.zero + row.last * row.spacing)
<1> DEFINE row == Ofdm["ds"][c]
<1>1. row \in OfdmRow("ds")
  BY ChannelTables DEF Dir
<1>2. /\ row.zero \in Nat /\ row.first \in Nat /\ row.last \in Nat /\ row.spacing \in Nat
      /\ row.lowerGuard \in Nat /\ row.upperGuard \in Nat
  BY <1>1 DEF OfdmRow
<1>3. OfdmBounds(row) # Unbounded
  OBVIOUS
<1> SUFFICES Covers(OfdmBounds(row), row.zero + row.first * row.spacing, row.zero + row.last * row.spacing)
  OBVIOUS
<1> HIDE DEF row
<1>4. /\ row.first > 0
      /\ OfdmBounds(row).lower = row.zero - (row.first - 1) * row.spacing - row.lowerGuard
      /\ OfdmBounds(row).upper = row.last * row.spacing + row.zero + row.upperGuard
  BY <1>2, <1>3 DEF OfdmBounds
<1>5. \A m, n \in Nat : m * n \in Nat
  OBVIOUS
<1>6. (row.first - 1) * row.spacing \in Nat /\ row.first * row.spacing \in Nat /\ row.last * row.spacing \in Nat
  BY <1>2, <1>4, <1>5
<1> DEFINE below == (row.first - 1) * row.spacing
           first == row.first * row.spacing
           last == row.last * row.spacing
<1> HIDE DEF below, first, last
<1>7. below \in Nat /\ first \in Nat /\ last \in Nat
  BY <1>6 DEF below, first, last
<1>8. /\ OfdmBounds(row).lower = row.zero - below - row.lowerGuard
      /\ OfdmBounds(row).upper = last + row.zero + row.upperGuard
  BY <1>4 DEF below, last
<1>9. /\ row.zero - below - row.lowerGuard <= row.zero + first
      /\ row.zero + last <= last + row.zero + row.upperGuard
  BY <1>2, <1>7
<1>10. QED
  BY <1>8, <1>9 DEF Covers, first, last

\* The bands of a table's rows are there.
LEMMA BandsBounded ==
    ASSUME NEW d \in Dir
    PROVE  /\ \A c \in DOMAIN Ofdm[d] : TableBounds(Ofdm[d][c]) # Unbounded
           /\ \A c \in DOMAIN Qam[d] : ScQamBounds(Qam[d][c]) # Unbounded
<1>1. None \notin Int /\ Unbounded.lower = None
  BY InventoryAssumption DEF Unbounded
<1>2. \A c \in DOMAIN Ofdm[d] : TableBounds(Ofdm[d][c]).lower \in Int
  <2>1. ASSUME NEW c \in DOMAIN Ofdm[d] PROVE Ofdm[d][c].lower \in Nat
    <3>1. Ofdm[d][c] \in OfdmRow(d)
      BY ChannelTables
    <3>2. CASE d = "us"
      BY <3>1, <3>2 DEF OfdmRow
    <3>3. CASE d # "us"
      BY <3>1, <3>3 DEF OfdmRow
    <3>4. QED
      BY <3>2, <3>3
  <2>2. QED
    BY <2>1 DEF TableBounds
<1>3. \A c \in DOMAIN Qam[d] : ScQamBounds(Qam[d][c]).lower \in Int
  BY ChannelTables DEF ScQamBounds
<1>4. QED
  BY <1>1, <1>2, <1>3

\* An SC-QAM channel, and what passes for one.
LEMMA ScQamTrue ==
    ASSUME NEW ans, NEW d \in Dir, NEW c \in Nat
    PROVE  LET ch == ScQamChannel(ans, d, c)
           IN  /\ ch.id = c /\ ch.type = "scqam"
               /\ c \in DOMAIN Ofdm[d] => ch.bounds = Unbounded
               /\ ch.bounds # Unbounded => TrueBounds(ch, d)
               /\ Read(ans, d, {"qam", "qamfields"}) /\ c \in DOMAIN Qam[d] => ch.bounds # Unbounded
<1> DEFINE ch == ScQamChannel(ans, d, c)
           read == c \in DOMAIN Qam[d] /\ Read(ans, d, {"qam", "qamfields"})
<1>1. /\ ch.id = c /\ ch.type = "scqam"
      /\ ch.bounds = IF read THEN ScQamBounds(Qam[d][c]) ELSE Unbounded
      /\ ch.width = IF read THEN Qam[d][c].width ELSE None
  BY DEF ScQamChannel
<1>2. read => c \in DOMAIN Qam[d]
  OBVIOUS
<1>3. Read(ans, d, {"qam", "qamfields"}) /\ c \in DOMAIN Qam[d] => read
  OBVIOUS
<1> SUFFICES /\ c \in DOMAIN Ofdm[d] => ch.bounds = Unbounded
             /\ ch.bounds # Unbounded => TrueBounds(ch, d)
             /\ read => ch.bounds # Unbounded
  BY <1>1, <1>3
<1> HIDE DEF ch, read
<1>4. c \in DOMAIN Ofdm[d] => ~read
  BY <1>2, ChannelTables
<1>5. ASSUME read PROVE ch.bounds # Unbounded /\ TrueBounds(ch, d)
  <2>1. Qam[d][c].center \in Nat /\ Qam[d][c].width \in Nat
    BY <1>2, <1>5, ChannelTables
  <2>2. /\ ch.bounds.lower = Qam[d][c].center - Qam[d][c].width \div 2
        /\ ch.bounds.upper = Qam[d][c].center + Qam[d][c].width \div 2 /\ ch.width = Qam[d][c].width
    BY <1>1, <1>5 DEF ScQamBounds
  <2>3. ch.bounds.upper - ch.bounds.lower \in (ch.width - 1)..ch.width
    BY <2>1, <2>2, HalfWidths
  <2>4. ch.bounds # Unbounded
    BY <1>1, <1>2, <1>5, BandsBounded
  <2>5. QED
    BY <1>1, <2>2, <2>3, <2>4 DEF TrueBounds
<1>6. QED
  BY <1>1, <1>4, <1>5

LEMMA ChannelTrue ==
    ASSUME NEW ans, NEW d \in Dir, NEW c \in Nat
    PROVE  LET ch == IF d = "ds" THEN DsChannel(ans, c) ELSE UsChannel(ans, c)
           IN  /\ ch.id = c
               /\ ch.type = "ofdm" => c \in DOMAIN Ofdm[d]
               /\ c \in DOMAIN Ofdm[d] /\ ch.type # "ofdm" =>
                    ~Read(ans, d, {"ofdm", "ofdmid"}) /\ ch.bounds = Unbounded
               /\ ch.bounds # Unbounded => TrueBounds(ch, d)
               /\ /\ Read(ans, d, {"qam", "qamfields"}) /\ Read(ans, d, {"ofdm", "ofdmid"}) /\ Read(ans, d, {"bdry"})
                  /\ c \in DOMAIN Ofdm[d] \cup DOMAIN Qam[d]
                  => ch.bounds # Unbounded
<1> DEFINE ch == IF d = "ds" THEN DsChannel(ans, c) ELSE UsChannel(ans, c)
           isOfdm == c \in DOMAIN Ofdm[d] /\ Read(ans, d, {"ofdm", "ofdmid"})
<1>1. CASE ~isOfdm
  <2>1. ch = ScQamChannel(ans, d, c)
    BY <1>1 DEF DsChannel, UsChannel, Dir
  <2> HIDE DEF ch
  <2>2. c \in DOMAIN Ofdm[d] => ~Read(ans, d, {"ofdm", "ofdmid"})
    BY <1>1
  <2>3. /\ ch.id = c /\ ch.type = "scqam"
        /\ c \in DOMAIN Ofdm[d] => ch.bounds = Unbounded
        /\ ch.bounds # Unbounded => TrueBounds(ch, d)
        /\ Read(ans, d, {"qam", "qamfields"}) /\ c \in DOMAIN Qam[d] => ch.bounds # Unbounded
    BY <2>1, ScQamTrue
  <2>4. QED
    BY <2>2, <2>3 DEF ch
<1>2. CASE isOfdm /\ d = "us"
  <2>1. ch = OfdmChannel(c, Boundaries(ans, "us", c))
    BY <1>2 DEF UsChannel
  <2>2. ch.id = c /\ ch.type = "ofdm" /\ ch.bounds = Boundaries(ans, "us", c)
    BY <2>1 DEF OfdmChannel
  <2> HIDE DEF ch
  <2>3. ch.bounds = IF Read(ans, d, {"bdry"}) THEN TableBounds(Ofdm[d][c]) ELSE Unbounded
    BY <1>2, <2>2 DEF Boundaries
  <2>4. TableBounds(Ofdm[d][c]) # Unbounded
    BY <1>2, BandsBounded
  <2>5. ch.bounds # Unbounded => TrueBounds(ch, d)
    BY <1>2, <2>2, <2>3 DEF TrueBounds
  <2>6. QED
    BY <1>2, <2>2, <2>3, <2>4, <2>5 DEF ch
<1>3. CASE isOfdm /\ d = "ds"
  <2> DEFINE band == IF Read(ans, "ds", {"band"}) THEN OfdmBounds(Ofdm["ds"][c]) ELSE Unbounded
             table1 == IF Read(ans, d, {"bdry"}) THEN TableBounds(Ofdm[d][c]) ELSE Unbounded
  <2>1. ch = OfdmChannel(c, IF band # Unbounded THEN band ELSE Boundaries(ans, "ds", c))
    BY <1>3 DEF DsChannel
  <2>2. ch.id = c /\ ch.type = "ofdm" /\ ch.bounds = IF band # Unbounded THEN band ELSE Boundaries(ans, "ds", c)
    BY <2>1 DEF OfdmChannel
  <2>3. Boundaries(ans, "ds", c) = table1
    BY <1>3 DEF Boundaries
  <2>4. TableBounds(Ofdm[d][c]) # Unbounded
    BY <1>3, BandsBounded
  <2>5. band # Unbounded => band = OfdmBounds(Ofdm["ds"][c])
    OBVIOUS
  <2> HIDE DEF ch, band
  <2>6. ch.bounds # Unbounded => TrueBounds(ch, d)
    <3>1. CASE band # Unbounded
      <4>1. LET row == Ofdm["ds"][c]
            IN  Covers(ch.bounds, row.zero + row.first * row.spacing, row.zero + row.last * row.spacing)
        BY <1>3, <2>2, <2>5, <3>1, BandCovers
      <4>2. QED
        BY <1>3, <2>2, <4>1 DEF TrueBounds
    <3>2. CASE band = Unbounded
      <4>1. ch.bounds # Unbounded => ch.bounds = TableBounds(Ofdm[d][c])
        BY <2>2, <2>3, <3>2
      <4>2. QED
        BY <1>3, <2>2, <4>1 DEF TrueBounds
    <3>3. QED
      BY <3>1, <3>2
  <2>7. QED
    BY <1>3, <2>2, <2>3, <2>4, <2>6 DEF ch
<1>4. QED
  BY <1>1, <1>2, <1>3 DEF Dir

LEMMA PairsStep == InventoryIInv /\ [InventoryNext]_inventoryVars =>
    /\ Stores => \A m \in stored'[job.about].modems : Held(m.mac, m.ip) /\ InGroup(m.mac, job.about)
    /\ Answers("list") => \A m \in answer'.rows : Held(m.mac, m.ip) /\ InGroup(m.mac, job.about)
    /\ Answers("inet") /\ answer'.exists => Held(job.about, answer'.value)
    /\ Answers("sgof") /\ answer'.value # None => InGroup(job.about, answer'.value)
<1> SUFFICES ASSUME InventoryIInv, [InventoryNext]_inventoryVars
             PROVE  /\ Stores => \A m \in stored'[job.about].modems : Held(m.mac, m.ip) /\ InGroup(m.mac, job.about)
                    /\ Answers("list") => \A m \in answer'.rows : Held(m.mac, m.ip) /\ InGroup(m.mac, job.about)
                    /\ Answers("inet") /\ answer'.exists => Held(job.about, answer'.value)
                    /\ Answers("sgof") /\ answer'.value # None => InGroup(job.about, answer'.value)
  OBVIOUS
<1>1. InventoryTypeOK /\ Joined /\ LookedUp
  BY DEF InventoryIInv
<1>2. job.kind # "idle" /\ job' = Idle => InventoryNext
  BY DEF inventoryVars, Idle
<1>3. Stores => \A m \in stored'[job.about].modems : Held(m.mac, m.ip) /\ InGroup(m.mac, job.about)
  <2> SUFFICES ASSUME Stores PROVE \A m \in stored'[job.about].modems : Held(m.mac, m.ip) /\ InGroup(m.mac, job.about)
    OBVIOUS
  <2>1. Store
    BY <1>1, <1>2, LastStep DEF Stores
  <2>2. \A m \in stored'[job.about].modems : \E f \in job.found : m.mac = f.mac /\ m.ip = f.ip
    BY <1>1, <2>1, StoredModems
  <2>3. QED
    BY <1>1, <2>2 DEF Joined
<1>4. ASSUME NEW kind \in {"list", "inet", "sgof"}, Answers(kind)
      PROVE  /\ kind = "list" => answer' = [answer EXCEPT !.rows = job.found]
             /\ kind # "list" => answer' = answer
  <2>1. job.kind = kind /\ Answer
    BY <1>1, <1>2, <1>4, LastStep DEF Answers
  <2>2. CASE kind = "list"
    BY <2>1, <2>2 DEF Answer
  <2>3. CASE kind # "list"
    BY <2>1, <2>3 DEF Answer
  <2>4. QED
    BY <2>2, <2>3
<1>5. Answers("list") => \A m \in answer'.rows : Held(m.mac, m.ip) /\ InGroup(m.mac, job.about)
  <2>1. Answers("list") => answer'.rows = job.found
    BY <1>1, <1>4 DEF InventoryTypeOK
  <2>2. QED
    BY <1>1, <2>1 DEF Joined
<1>6. Answers("inet") /\ answer'.exists => Held(job.about, answer'.value)
  BY <1>1, <1>4 DEF LookedUp, Answers, Lookups
<1>7. Answers("sgof") /\ answer'.value # None => InGroup(job.about, answer'.value)
  BY <1>1, <1>4 DEF LookedUp, Answers, Lookups
<1>8. QED
  BY <1>3, <1>5, <1>6, <1>7

LEMMA DroppedStep ==
    ASSUME InventoryIInv, [InventoryNext]_inventoryVars, ~lossy
    PROVE  /\ Stores => \A r \in {x \in always : x.sg = job.about} :
                {m.ip : m \in {x \in stored'[job.about].modems : x.mac = r.mac}} = {r.ip}
           /\ Answers("inet") => \A r \in always : r.mac = job.about => answer'.value = r.ip
           /\ Answers("sgof") => \A r \in always : r.mac = job.about => answer'.value = r.sg
           /\ Answers("discover") /\ known' # None => known' = {Nodes[k].sg : k \in DOMAIN Nodes}
<1>1. InventoryTypeOK /\ RowsComplete /\ LookupsComplete /\ PlanComplete
  BY DEF InventoryIInv
<1>2. job.kind # "idle" /\ job' = Idle => InventoryNext
  BY DEF inventoryVars, Idle
<1>3. Done => ~Sending /\ job.rows = {} /\ job.row = None
  BY DEF Done
<1>4. Stores => \A r \in {x \in always : x.sg = job.about} :
                  {m.ip : m \in {x \in stored'[job.about].modems : x.mac = r.mac}} = {r.ip}
  <2> SUFFICES ASSUME Stores, NEW r \in always, r.sg = job.about
               PROVE  {m.ip : m \in {x \in stored'[job.about].modems : x.mac = r.mac}} = {r.ip}
    OBVIOUS
  <2>1. Store /\ Done /\ job.kind = "poll"
    BY <1>1, <1>2, LastStep DEF Stores
  <2>2. r.id # None
    BY <1>1, IndexesAreNumbers DEF InventoryTypeOK
  <2>3. [mac |-> r.mac, ip |-> r.ip] \in job.found
    BY <1>1, <1>3, <2>1, <2>2 DEF RowsComplete, Reads
  <2>4. \A f \in job.found : f.mac = r.mac => f.ip = r.ip
    BY <1>1 DEF RowsComplete
  <2>5. \E m \in stored'[job.about].modems : m.mac = r.mac /\ m.ip = r.ip
    BY <1>1, <2>1, <2>3, StoredModems
  <2>6. \A m \in stored'[job.about].modems : m.mac = r.mac => m.ip = r.ip
    BY <1>1, <2>1, <2>4, StoredModems
  <2>7. QED
    BY <2>5, <2>6
<1>5. ASSUME NEW kind \in Lookups, Answers(kind)
      PROVE  \A r \in always : r.mac = job.about => answer'.value = IF kind = "inet" THEN r.ip ELSE r.sg
  <2>1. job.kind = kind /\ Done /\ Answer
    BY <1>1, <1>2, <1>5, LastStep DEF Answers, Lookups
  <2>2. answer' = answer
    BY <2>1 DEF Answer, Lookups
  <2>3. job.next > 2
    <3>1. job.next \notin 1..Len(Plan(kind)) /\ job.next \in Nat \ {0}
      BY <1>1, <1>3, <2>1, PlanEnds DEF Sending, InventoryTypeOK, Job
    <3>2. Len(Plan(kind)) = 2 \/ Len(Plan(kind)) = 3
      BY PlanEnds DEF Lookups
    <3> DEFINE n == job.next
               l == Len(Plan(kind))
    <3>3. n \notin 1..l /\ n \in Nat \ {0} /\ (l = 2 \/ l = 3)
      BY <3>1, <3>2
    <3> HIDE DEF n, l
    <3>4. n > 2
      BY <3>3
    <3>5. QED
      BY <3>4 DEF n
  <2>4. QED
    BY <1>1, <2>1, <2>2, <2>3 DEF LookupsComplete
<1>6. Answers("discover") => known' = {Nodes[k].sg : k \in DOMAIN Nodes}
  <2> SUFFICES ASSUME Answers("discover") PROVE known' = {Nodes[k].sg : k \in DOMAIN Nodes}
    OBVIOUS
  <2>1. job.kind = "discover" /\ Done /\ Discover
    BY <1>1, <1>2, LastStep DEF Answers
  <2>2. Plan(job.kind) = << <<"nodes", "ds">>, <<"nodes", "us">> >>
    BY <2>1 DEF Plan
  <2>3. 1 \in DOMAIN Plan(job.kind) /\ Plan(job.kind)[1] = <<"nodes", "ds">>
    BY <2>2
  <2>4. Plan(job.kind)[1][1] \in Owed
    BY <2>3 DEF Owed
  <2>5. <<"nodes", "ds">> \in job.ans
    BY <1>1, <2>1, <2>3, <2>4, AllAnswered
  <2> DEFINE RowOf(k) == [Nodes[k] EXCEPT !.ds = NodeColumn(job.ans, "ds", @), !.us = NodeColumn(job.ans, "us", @)]
  <2>6. ServiceGroups(job.ans) = {RowOf(k) : k \in DOMAIN Nodes}
    BY <2>5 DEF ServiceGroups
  <2>7. \A k \in DOMAIN Nodes : RowOf(k).sg = Nodes[k].sg
    <3>1. \A N : \A s \in Seq(N) : \A k \in DOMAIN s : s[k] \in N
      OBVIOUS
    <3>2. \A k \in DOMAIN Nodes : Nodes[k] \in [name : STRING, sg : Group, ds : Nat, us : Nat]
      BY <3>1, ChannelAssumption
    <3>3. \A k \in DOMAIN Nodes : \A x, y : [Nodes[k] EXCEPT !.ds = x, !.us = y].sg = Nodes[k].sg
      BY <3>2
    <3>4. QED
      BY <3>3
  <2> HIDE DEF RowOf
  <2>8. {n.sg : n \in {RowOf(k) : k \in DOMAIN Nodes}} = {Nodes[k].sg : k \in DOMAIN Nodes}
    BY <2>7
  <2>9. QED
    BY <2>1, <2>6, <2>8 DEF Discover
<1>7. QED
  BY <1>4, <1>5, <1>6 DEF Lookups

LEMMA ChannelsStep ==
    ASSUME InventoryIInv, [InventoryNext]_inventoryVars, Stores, NEW d \in Dir
    PROVE  LET chs == stored'[job.about].channels[d]
               ids == {c.id : c \in chs}
               own == NormalizeChannels(TrueList(job.about, d))
           IN  /\ ids = {} \/ ids = own
               /\ \A c \in chs :
                   /\ c.type = "ofdm" => c.id \in DOMAIN Ofdm[d]
                   /\ c.id \in DOMAIN Ofdm[d] /\ c.type # "ofdm" => lossy /\ c.bounds = Unbounded
                   /\ c.bounds # Unbounded => TrueBounds(c, d)
               /\ ~lossy => /\ ids = own
                            /\ \A c \in chs : c.id \in DOMAIN Ofdm[d] \cup DOMAIN Qam[d] => c.bounds # Unbounded
<1> DEFINE ans == job.ans
           g == job.about
           chs == stored'[job.about].channels[d]
           ids == {c.id : c \in chs}
           own == NormalizeChannels(TrueList(job.about, d))
           ChannelOf(c) == IF d = "ds" THEN DsChannel(ans, c) ELSE UsChannel(ans, c)
           shown == NormalizeChannels(Channels(ans, g, d))
<1>1. InventoryTypeOK /\ PlanComplete
  BY DEF InventoryIInv
<1>2. InventoryNext
  BY DEF Stores, inventoryVars, Idle
<1>3. Store /\ Done /\ job.kind = "poll"
  BY <1>1, <1>2, LastStep DEF Stores
<1>4. chs = {ChannelOf(c) : c \in shown}
  BY <1>1, <1>3, StoredModems DEF RfChannels
<1>5. shown \subseteq Nat
  BY TopologyTyped
<1>6. \A c \in Nat :
        /\ ChannelOf(c).id = c
        /\ ChannelOf(c).type = "ofdm" => c \in DOMAIN Ofdm[d]
        /\ c \in DOMAIN Ofdm[d] /\ ChannelOf(c).type # "ofdm" =>
             ~Read(ans, d, {"ofdm", "ofdmid"}) /\ ChannelOf(c).bounds = Unbounded
        /\ ChannelOf(c).bounds # Unbounded => TrueBounds(ChannelOf(c), d)
        /\ /\ Read(ans, d, {"qam", "qamfields"}) /\ Read(ans, d, {"ofdm", "ofdmid"}) /\ Read(ans, d, {"bdry"})
           /\ c \in DOMAIN Ofdm[d] \cup DOMAIN Qam[d]
           => ChannelOf(c).bounds # Unbounded
  BY ChannelTrue
<1>7. ~lossy => /\ Read(ans, d, {"qam", "qamfields"}) /\ Read(ans, d, {"ofdm", "ofdmid"}) /\ Read(ans, d, {"bdry"})
                /\ \A t \in {"nodes", "sets", "lists"} : <<t, d>> \in ans
  BY <1>1, <1>3, PollAnswered DEF Read
<1>8. (shown = {} \/ shown = own) /\ (~lossy => shown = own)
  <2>1. NormalizeChannels(<<>>) = {}
    BY DEF NormalizeChannels, ToSet
  <2>2. QED
    BY <1>7, <2>1, OwnChannels
<1> HIDE DEF ChannelOf, shown
<1>9. ids = shown
  <2>1. \A c \in shown : ChannelOf(c) \in chs /\ ChannelOf(c).id = c
    BY <1>4, <1>5, <1>6
  <2>2. \A x \in chs : x.id \in shown
    BY <1>4, <1>5, <1>6
  <2> HIDE DEF chs
  <2>3. QED
    BY <2>1, <2>2
<1>10. \A c \in chs : c.id \in shown /\ c = ChannelOf(c.id)
  BY <1>4, <1>5, <1>6
<1> HIDE DEF chs, own
<1>11. \A c \in chs :
         /\ c.type = "ofdm" => c.id \in DOMAIN Ofdm[d]
         /\ c.id \in DOMAIN Ofdm[d] /\ c.type # "ofdm" => lossy /\ c.bounds = Unbounded
         /\ c.bounds # Unbounded => TrueBounds(c, d)
         /\ ~lossy /\ c.id \in DOMAIN Ofdm[d] \cup DOMAIN Qam[d] => c.bounds # Unbounded
  <2>1. ASSUME NEW c \in chs
        PROVE  /\ c.type = "ofdm" => c.id \in DOMAIN Ofdm[d]
               /\ c.id \in DOMAIN Ofdm[d] /\ c.type # "ofdm" => lossy /\ c.bounds = Unbounded
               /\ c.bounds # Unbounded => TrueBounds(c, d)
               /\ ~lossy /\ c.id \in DOMAIN Ofdm[d] \cup DOMAIN Qam[d] => c.bounds # Unbounded
    <3>1. PICK n \in Nat : n = c.id /\ c = ChannelOf(n)
      BY <1>5, <1>10
    <3>2. lossy \in BOOLEAN
      BY <1>1 DEF InventoryTypeOK
    <3>3. QED
      BY <1>6, <1>7, <3>1, <3>2
  <2>2. QED
    BY <2>1
<1>12. QED
  BY <1>8, <1>9, <1>11 DEF chs, own

\* The inductive invariant: what a job read was so, in rows that were given to no other modem, and
\* without a lost request everything that stayed is read or still to be read.
THEOREM InventoryInvariant == InventorySpec => []InventoryIInv
<1>1. QED
  BY InventoryIInvInit, InventoryIInvNext, PTL DEF InventorySpec

\* The tables, jobs, inventories and answers have their types in every state.
THEOREM InventoryTypeCorrect == InventorySpec => []InventoryTypeOK
<1>1. InventoryIInv => InventoryTypeOK
  BY DEF InventoryIInv
<1>2. QED
  BY <1>1, InventoryInvariant, PTL

\* Whatever registers, leaves, moves or is lost between the reads of a modem's columns
\* (cmts_cm_reg_status_entry.py:102), nothing is stored or answered of it that was not so: it was in the
\* group and had the address.
THEOREM PairsAreHeld == InventorySpec => PairsHeld
<1>1. QED
  BY InventoryInvariant, PairsStep, PTL DEF InventorySpec, PairsHeld

\* Without a lost request a poll stores every modem whose row stayed, with its own address only, a
\* lookup answers with the row of its modem (cmts_operation.py:895), and discovery finds every group
\* (cmts_operation.py:334).
THEOREM NothingIsDropped == InventorySpec => NothingDropped
<1>1. InventoryIInv /\ [InventoryNext]_inventoryVars => (~lossy =>
        /\ Stores => \A r \in {x \in always : x.sg = job.about} :
                       {m.ip : m \in {x \in stored'[job.about].modems : x.mac = r.mac}} = {r.ip}
        /\ Answers("inet") => \A r \in always : r.mac = job.about => answer'.value = r.ip
        /\ Answers("sgof") => \A r \in always : r.mac = job.about => answer'.value = r.sg
        /\ Answers("discover") /\ known' # None => known' = {Nodes[k].sg : k \in DOMAIN Nodes})
  BY DroppedStep
<1>2. QED
  BY <1>1, InventoryInvariant, PTL DEF InventorySpec, NothingDropped

\* Whatever is lost of the topology's walks and gets (cmts_operation.py:582) and of the channel tables
\* (heavy.py:385), a stored group shows its own channels or none, each with the bands of its own row;
\* when nothing is lost it shows all of them, with bands.
THEOREM ChannelsAreTrue == InventorySpec => ChannelsTrue
<1>1. InventoryIInv /\ [InventoryNext]_inventoryVars => (Stores => \A d \in Dir :
        LET chs == stored'[job.about].channels[d]
            ids == {c.id : c \in chs}
            own == NormalizeChannels(TrueList(job.about, d))
        IN  /\ ids = {} \/ ids = own
            /\ \A c \in chs :
                /\ c.type = "ofdm" => c.id \in DOMAIN Ofdm[d]
                /\ c.id \in DOMAIN Ofdm[d] /\ c.type # "ofdm" => lossy /\ c.bounds = Unbounded
                /\ c.bounds # Unbounded => TrueBounds(c, d)
            /\ ~lossy => /\ ids = own
                         /\ \A c \in chs : c.id \in DOMAIN Ofdm[d] \cup DOMAIN Qam[d] => c.bounds # Unbounded)
  BY ChannelsStep
<1>2. QED
  BY <1>1, InventoryInvariant, PTL DEF InventorySpec, ChannelsTrue

=============================================================================
