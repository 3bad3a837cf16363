----------------------------- MODULE SgwRefresh -----------------------------
(***************************************************************************)
(* The serving group worker's cache (sgw/store.py) and the one thread that *)
(* refreshes it (SgwManager.refresh_forever), against clients that request *)
(* a refresh at any moment.  Time is counted in whole seconds; every stamp *)
(* a cycle writes is the time the cycle began.  Only the refresh thread    *)
(* writes the store, so each of its store calls is one step.               *)
(***************************************************************************)
EXTENDS Integers, FiniteSets

CONSTANTS
    SG,         \* the service groups discovered at startup
    Light,      \* sgw.poll_light_seconds, also the pause between cycles
    Heavy,      \* sgw.poll_heavy_seconds
    MaxJitter,  \* sgw.refresh_jitter_seconds
    MaxAge,     \* sgw.cache_max_age_seconds
    MaxClock    \* bound of the clock

\* What SgwSettings._validate_sgw_settings accepts.
ASSUME SettingsAssumption ==
    /\ Light \in Nat \ {0} /\ Heavy \in Nat /\ Heavy >= Light
    /\ MaxJitter \in 0..Light
    /\ MaxAge \in Nat /\ MaxAge >= Light

ASSUME MaxClockAssumption == MaxClock \in Nat \ {0}

VARIABLES
    clock,    \* time.time()
    jitter,   \* _jitter_by_sg
    cache,    \* the store's entries
    request,  \* _refresh_requests
    pc,       \* where the refresh thread is
    now,      \* now_epoch of the current or the last cycle, 0 before the first
    todo,     \* service groups the current cycle has not come to
    cur,      \* the service group the cycle is at
    mode,     \* the refresh decided for cur
    wake,     \* when the pause between two cycles ends
    asked     \* history: when each pending request was accepted

settings == <<jitter>>
thread == <<pc, now, todo, cur, mode, wake>>
requests == <<request, asked>>
vars == <<clock, settings, cache, requests, thread>>

-----------------------------------------------------------------------------
(* Cache entries.  A stamp of 0 is None: the clock starts at 1. *)

Labels == {"none", "OK", "STALE", "ERROR"}

\* An entry; label "none" when the store has no entry.
Entry == [snapshot : Nat, heavy : Nat, light : Nat, label : Labels]

Absent == [snapshot |-> 0, heavy |-> 0, light |-> 0, label |-> "none"]

\* _ensure_entry: a placeholder carries the cycle's time and the default label.
Placeholder == [Absent EXCEPT !.snapshot = now, !.label = "OK"]

\* The entry after a heavy poll, after a light poll, and after a poll that raised.
HeavyRefreshed == [snapshot |-> now, heavy |-> now, light |-> now, label |-> "OK"]

\* Mutation: the snapshot time is not updated.
LightRefreshedBug(e) == [e EXCEPT !.light = now, !.label = "OK"]

LightRefreshed(e) == [e EXCEPT !.snapshot = now, !.light = now, !.label = "OK"]

MarkedError(e) == [e EXCEPT !.snapshot = now, !.label = "ERROR"]

\* The label the end of an entry's turn stores; an error is left in place.
Relabelled(e) ==
    [e EXCEPT !.label = IF @ = "ERROR" THEN @
                        ELSE IF now - e.snapshot >= MaxAge THEN "STALE" ELSE "OK"]

\* Mutation: off by one.
IsDueBug(last, interval, sg) == last = 0 \/ now - last > interval + jitter[sg]

\* _is_refresh_due
IsDue(last, interval, sg) == last = 0 \/ now - last >= interval + jitter[sg]

\* _heavy_refresh_rate_limited, asked by a client now.
RateLimited(sg) == cache[sg].heavy # 0 /\ clock - cache[sg].heavy < Heavy

-----------------------------------------------------------------------------

Init ==
    /\ clock = 1
    /\ jitter \in [SG -> 0..MaxJitter]
    /\ cache = [sg \in SG |-> Absent]
    /\ request = [sg \in SG |-> "none"]
    /\ asked = [sg \in SG |-> 0]
    /\ pc = "sleep" /\ now = 0 /\ todo = {} /\ wake = 1
    /\ cur \in SG /\ mode = "none"

Tick ==
    /\ clock < MaxClock
    /\ clock' = clock + 1
    /\ UNCHANGED <<settings, cache, requests, thread>>

\* Mutation: a light request replaces a heavy one.
RequestRefreshBug(sg, m) ==
    /\ m = "heavy" => ~RateLimited(sg)
    /\ request' = [request EXCEPT ![sg] = m]
    /\ asked' = [asked EXCEPT ![sg] = clock]
    /\ UNCHANGED <<clock, settings, cache, thread>>

\* A client's request_refresh: a heavy request is refused while the last heavy
\* refresh is recent, outranks a light one and is never replaced by it.
RequestRefresh(sg, m) ==
    /\ m = "heavy" => ~RateLimited(sg)
    /\ request[sg] # "heavy"
    /\ m = "heavy" \/ request[sg] = "none"
    /\ request' = [request EXCEPT ![sg] = m]
    /\ asked' = [asked EXCEPT ![sg] = clock]
    /\ UNCHANGED <<clock, settings, cache, thread>>

\* The pause of poll_light_seconds is over: a cycle begins and reads the clock.
StartCycle ==
    /\ pc = "sleep" /\ clock >= wake
    /\ now' = clock
    /\ todo' = SG
    /\ pc' = "next"
    /\ UNCHANGED <<clock, settings, cache, requests, cur, mode, wake>>

\* The cycle comes to the next service group and makes sure it has an entry.
EnsureEntry(sg) ==
    /\ pc = "next" /\ sg \in todo
    /\ cur' = sg
    /\ todo' = todo \ {sg}
    /\ cache' = [cache EXCEPT ![sg] = IF @.label = "none" THEN Placeholder ELSE @]
    /\ pc' = "pop"
    /\ UNCHANGED <<clock, settings, requests, now, mode, wake>>

\* What a service group's turn does: its request alone when it has one, otherwise what is due.
Decision(sg) ==
    CASE request[sg] # "none" -> request[sg]
      [] request[sg] = "none" /\ IsDue(cache[sg].heavy, Heavy, sg) -> "heavy"
      [] request[sg] = "none" /\ ~IsDue(cache[sg].heavy, Heavy, sg)
           -> IF IsDue(cache[sg].light, Light, sg) THEN "light" ELSE "none"

\* Mutation: the request is not popped when a heavy refresh is due anyway.
PopBug ==
    /\ pc = "pop"
    /\ mode' = Decision(cur)
    /\ request' = [request EXCEPT ![cur] = IF IsDue(cache[cur].heavy, Heavy, cur) THEN @ ELSE "none"]
    /\ UNCHANGED asked
    /\ pc' = IF Decision(cur) = "none" THEN "finish" ELSE "poll"
    /\ UNCHANGED <<clock, settings, cache, now, todo, cur, wake>>

\* The request is popped under the manager's lock and the refresh decided.
Pop ==
    /\ pc = "pop"
    /\ mode' = Decision(cur)
    /\ request' = [request EXCEPT ![cur] = "none"]
    /\ asked' = [asked EXCEPT ![cur] = 0]
    /\ pc' = IF Decision(cur) = "none" THEN "finish" ELSE "poll"
    /\ UNCHANGED <<clock, settings, cache, now, todo, cur, wake>>

\* The poller returns and the entry is replaced.
PollReturns ==
    /\ pc = "poll"
    /\ cache' = [cache EXCEPT ![cur] = IF mode = "heavy" THEN HeavyRefreshed ELSE LightRefreshed(@)]
    /\ pc' = "finish"
    /\ UNCHANGED <<clock, settings, requests, now, todo, cur, mode, wake>>

\* The poller raises; the cycle goes on.
PollRaises ==
    /\ pc = "poll"
    /\ cache' = [cache EXCEPT ![cur] = MarkedError(@)]
    /\ pc' = "finish"
    /\ UNCHANGED <<clock, settings, requests, now, todo, cur, mode, wake>>

\* The end of a service group's turn: age and label are stored.
Finish ==
    /\ pc = "finish"
    /\ cache' = [cache EXCEPT ![cur] = Relabelled(@)]
    /\ mode' = "none"
    /\ pc' = "next"
    /\ UNCHANGED <<clock, settings, requests, now, todo, cur, wake>>

\* The cycle is over; the thread pauses for poll_light_seconds.
EndCycle ==
    /\ pc = "next" /\ todo = {}
    /\ wake' = clock + Light
    /\ pc' = "sleep"
    /\ UNCHANGED <<clock, settings, cache, requests, now, todo, cur, mode>>

Step ==
    \/ StartCycle \/ Pop \/ PollReturns \/ PollRaises \/ Finish \/ EndCycle
    \/ \E sg \in SG : EnsureEntry(sg)

Next ==
    \/ Tick
    \/ \E sg \in SG, m \in {"light", "heavy"} : RequestRefresh(sg, m)
    \/ Step

Spec == Init /\ [][Next]_vars

-----------------------------------------------------------------------------
(* Correctness *)

\* The types of the variables.
TypeOK ==
    /\ clock \in Nat \ {0}
    /\ jitter \in [SG -> 0..MaxJitter]
    /\ cache \in [SG -> Entry]
    /\ request \in [SG -> {"none", "light", "heavy"}]
    /\ asked \in [SG -> Nat]
    /\ pc \in {"sleep", "next", "pop", "poll", "finish"}
    /\ now \in Nat /\ wake \in Nat
    /\ todo \subseteq SG /\ cur \in SG
    /\ mode \in {"none", "light", "heavy"}

\* The cycle is in sg's turn.
InTurn(sg) == sg = cur /\ pc \in {"pop", "poll", "finish"}

\* The current or last cycle is through with sg.
TurnOver(sg) == now # 0 /\ sg \notin todo /\ ~InTurn(sg)

\* Whatever clients request, jitter delays and pollers raise, each cycle leaves every service
\* group's snapshot younger than poll_light_seconds plus its jitter, and labelled by its age
\* (manager.py: the due test of 415-423 and the relabelling of 460-475 together).
AgeBounded ==
    \A sg \in SG : TurnOver(sg) =>
        LET e == cache[sg] IN
        /\ e.label # "none"
        /\ now - e.snapshot < Light + jitter[sg]
        /\ e.label = "STALE" <=> e.label # "ERROR" /\ now - e.snapshot >= MaxAge

\* A service group left in ERROR is polled again in the next cycle, whatever its jitter: a turn
\* that polls nothing never finds an error.  It needs jitter <= poll_light_seconds (the settings'
\* validator) and mark_error leaving the refresh stamps alone.
ErrorPolledAgain ==
    pc = "finish" /\ mode = "none" => cache[cur].label # "ERROR"

\* A request is answered within one cycle: what is pending after a service group's turn was
\* accepted after the cycle began (request_refresh against the pop of manager.py:402-403).
RequestServed ==
    \A sg \in SG : TurnOver(sg) /\ request[sg] # "none" => asked[sg] >= now

\* A client never sees an error disappear but by a poll that succeeded: the relabelling and the
\* placeholder of later cycles leave it in place.
ErrorVisible ==
    [][\A sg \in SG : cache[sg].label = "ERROR" /\ cache'[sg].label # "ERROR" =>
            cache'[sg].label = "OK" /\ cache'[sg].light = now /\ cache'[sg].snapshot = now]_vars

\* An accepted heavy request ends only in a heavy poll of its service group: no light request
\* replaces it and no cycle drops it.
HeavyRequestKept ==
    [][\A sg \in SG : request[sg] = "heavy" /\ request'[sg] # "heavy" =>
            cur = sg /\ pc' = "poll" /\ mode' = "heavy"]_vars

-----------------------------------------------------------------------------
(* The inductive invariant *)

\* No stamp is younger than the cycle, and a heavy refresh counts as a light one.
Stamps(sg) ==
    LET e == cache[sg] IN e.heavy <= e.light /\ e.light <= e.snapshot /\ e.snapshot <= now

Clocks ==
    /\ now <= clock
    /\ pc = "sleep" => todo = {} /\ (now = 0 \/ now + Light <= wake)
    /\ pc # "sleep" => now # 0
    /\ pc \in {"pop", "poll", "finish"} => cur \notin todo

\* Before its turn polls: the last light refresh is an earlier cycle's, and one that was
\* followed by an error is due.
Before(sg) ==
    sg \in todo \/ (sg = cur /\ pc \in {"pop", "poll"}) =>
        LET e == cache[sg] IN
        /\ e.light = 0 \/ now - e.light >= Light
        /\ e.label = "ERROR" => e.light = 0 \/ now - e.light >= Light + jitter[sg]

\* The end of a turn: a poll has just stamped the entry, or none was due.
AtFinish ==
    pc = "finish" =>
        LET e == cache[cur] IN
        /\ mode # "none" => e.snapshot = now
        /\ mode = "none" => e.label # "ERROR" /\ now - e.snapshot < Light + jitter[cur]
        /\ e.label = "ERROR" => e.light = 0 \/ now - e.light >= Light

\* An error kept after the turn will be due again by the next cycle.
After(sg) ==
    TurnOver(sg) =>
        LET e == cache[sg] IN e.label = "ERROR" => e.light = 0 \/ now - e.light >= Light

PolledMode == pc = "poll" => mode # "none"

InTurnServed == pc \in {"poll", "finish"} /\ request[cur] # "none" => asked[cur] >= now

\* The strengthening that makes AgeBounded, ErrorPolledAgain and RequestServed inductive.
IInv ==
    /\ TypeOK
    /\ Clocks /\ AtFinish /\ PolledMode /\ InTurnServed
    /\ \A sg \in SG : Stamps(sg) /\ Before(sg) /\ After(sg)
    /\ AgeBounded /\ RequestServed

=============================================================================
