------------------------------- MODULE MacroFeed -------------------------------
(***************************************************************************)
(* The macro calendar of titanium/macro, turned on: a producer publishes   *)
(* the events it knows of, a thread of the trading process (service.py,    *)
(* feed.py) reads it again and again into a cache, and the gate asks the   *)
(* cache whether a symbol may take new risk now (risk.py).                 *)
(*                                                                         *)
(* Time passes only when the thread has nothing due, so a sleep lasts what *)
(* the feed asked for. A read lasts as long as it lasts: timeout_s bounds  *)
(* the connection and each wait for data, not their sum, and a file is     *)
(* read without any limit.                                                 *)
(***************************************************************************)
EXTENDS Integers, Sequences, FiniteSets, FiniteSetsExt, Functions

CONSTANTS
    MaxThreads,  \* bound on the threads the process starts, one after the other
    Events,      \* the publications a producer may announce
    At,          \* when each is scheduled
    Currency,    \* the currency it moves
    High,        \* those of min_impact or more
    Symbols,     \* what is traded
    Codes,       \* the three-letter groups of a symbol's letters
    Ttl,         \* ttl_s
    Refresh,     \* refresh_s
    MaxBackoff,  \* max_backoff_s
    Before,      \* blackout_before_s
    After,       \* blackout_after_s
    Horizon,     \* elevated_within_s
    Skew,        \* SKEW_TOLERANCE_S
    Budget,      \* timeout_s
    Floor,       \* ARRET_S
    Margin,      \* MARGE_ARRET_S
    Drift,       \* how far the producer's clock may be ahead
    MaxTime      \* bound on the clock; nothing is announced any more when it is reached

ASSUME MacroAssumption ==
    /\ {Ttl, Refresh, MaxBackoff, Before, After, Horizon, Skew, Budget, Floor, Margin,
        Drift, MaxTime} \subseteq Nat
    /\ At \in [Events -> Nat]
    /\ High \subseteq Events
    /\ Refresh > 0 /\ Margin > 0
    /\ MaxThreads \in Nat

VARIABLES
    now,        \* the clock
    announced,  \* what the producer shows: its own time stamp and its events
    newsAt,     \* when it last published
    since,      \* history: since when it has shown each event without a break
    readable,   \* a read of the producer succeeds
    goodSince,  \* since when, 0 while it is not
    thread,     \* of each thread, where it is
    due,        \* when its sleep ends
    draft,      \* what the producer answers to its read, None while it cannot
    begun,      \* history: when its read began, forgotten when a read succeeds
    bell,       \* its stop event: off, rung from another thread, on
    fil,        \* MacroService._fil
    armed,      \* the thread whose event is MacroService._arret
    demand,     \* MacroService._arret_demande
    caller,     \* the one caller of start and stop: free, or joining until a time
    calendar,   \* the cache's calendar, None before the first
    failures,   \* the cache's consecutive failures
    failedAt    \* last_attempt_at while they last

producer == <<announced, newsAt, since, readable, goodSince>>
loop     == <<thread, due, draft, begun, bell>>
service  == <<fil, armed, demand, caller>>
cache    == <<calendar, failures, failedAt>>
vars     == <<now, producer, loop, service, cache>>

Threads == 1..MaxThreads
Nobody == 0
None  == [at |-> -1, events |-> {}]
Never == MaxTime + 1
Free  == [pc |-> "free", until |-> 0, whole |-> FALSE]

Alive(t) == thread[t] \in {"starting", "reading", "asleep", "ending"}
Running  == fil \in Threads /\ Alive(fil)

Init ==
    /\ now = 0
    /\ announced \in [at : 0..Drift, events : SUBSET Events]
    /\ newsAt = 0
    /\ since = [e \in Events |-> IF e \in announced.events THEN 0 ELSE Never]
    /\ readable \in BOOLEAN
    /\ goodSince = 0
    /\ thread = [t \in Threads |-> "unborn"]
    /\ due = [t \in Threads |-> 0]
    /\ draft = [t \in Threads |-> None]
    /\ begun = [t \in Threads |-> 0]
    /\ bell = [t \in Threads |-> "off"]
    /\ fil = Nobody
    /\ armed = Nobody
    /\ demand = FALSE
    /\ caller = Free
    /\ calendar = None
    /\ failures = 0
    /\ failedAt = 0

(***************************************************************************)
(* The producer, outside the process: it replaces what it shows, at most   *)
(* once per instant, and its file or endpoint comes and goes.              *)
(***************************************************************************)
Announce(shown, ahead) ==
    /\ newsAt < now /\ now < MaxTime
    /\ announced' = [at |-> now + ahead, events |-> shown]
    /\ newsAt' = now
    /\ since' = [e \in Events |->
                   IF e \notin shown THEN Never
                   ELSE IF since[e] = Never THEN now ELSE since[e]]
    /\ UNCHANGED <<now, readable, goodSince, loop, service, cache>>

Break ==
    /\ readable
    /\ readable' = FALSE
    /\ goodSince' = 0
    /\ UNCHANGED <<now, announced, newsAt, since, loop, service, cache>>

Mend ==
    /\ ~readable
    /\ readable' = TRUE
    /\ goodSince' = now
    /\ UNCHANGED <<now, announced, newsAt, since, loop, service, cache>>

(***************************************************************************)
(* MacroFeed, run by the thread.                                           *)
(***************************************************************************)
\* Mutant: the interval doubles without a cap.
DelayUncapped == Refresh * 2^Min({failures', 8})

\* _delai_suivant, after the outcome of the read has been recorded.
Delay == IF failures' = 0 THEN Refresh ELSE Min({Refresh * 2^Min({failures', 8}), MaxBackoff})

BeginRead(t) ==
    /\ thread' = [thread EXCEPT ![t] = "reading"]
    /\ begun' = [begun EXCEPT ![t] = now]
    /\ draft' = [draft EXCEPT ![t] = IF readable THEN announced ELSE None]

\* The producer answers at some instant of the read, at its beginning or later.
Answer(t) ==
    /\ thread[t] = "reading"
    /\ readable /\ draft[t] # announced
    /\ draft' = [draft EXCEPT ![t] = announced]
    /\ UNCHANGED <<now, producer, thread, due, begun, bell, service, cache>>

\* Mutant: the reader's own clock dates what it has read.
PublishReadAt(read) == calendar' = [read EXCEPT !.at = now] /\ failures' = 0 /\ failedAt' = 0

\* publish: the whole calendar is replaced, under the producer's time stamp.
Publish(read) == calendar' = read /\ failures' = 0 /\ failedAt' = 0

\* record_failure: the last calendar stays.
RecordFailure == failures' = failures + 1 /\ failedAt' = now /\ UNCHANGED calendar

\* The rest of a turn of the loop: the stop event, or a sleep.
AfterRead(t) ==
    /\ IF bell[t] = "on"
         THEN /\ thread' = [thread EXCEPT ![t] = "ending"]
              /\ UNCHANGED <<due, begun>>
         ELSE /\ thread' = [thread EXCEPT ![t] = "asleep"]
              /\ due' = [due EXCEPT ![t] = now + Delay]
              /\ begun' = [begun EXCEPT ![t] = IF failures' = 0 THEN 0 ELSE @]
    /\ draft' = [draft EXCEPT ![t] = None]

\* fetch returns with the answer; or it fails, because the source was down at some instant
\* of the read, though it may be back by now.
EndRead(t) ==
    /\ thread[t] = "reading"
    /\ \/ draft[t] # None /\ Publish(draft[t])
       \/ (~readable \/ goodSince >= begun[t]) /\ RecordFailure
    /\ AfterRead(t)
    /\ UNCHANGED <<now, producer, bell, service>>

\* The sleep ends, by itself or by the stop event.
Wake(t) ==
    /\ thread[t] = "asleep"
    /\ \/ /\ bell[t] = "on"
          /\ thread' = [thread EXCEPT ![t] = "ending"]
          /\ UNCHANGED <<draft, begun>>
       \/ /\ bell[t] # "on" /\ due[t] <= now
          /\ BeginRead(t)
    /\ due' = [due EXCEPT ![t] = 0]
    /\ UNCHANGED <<now, producer, bell, service, cache>>

\* The thread's event loop runs the callback that stop handed to it.
Ring(t) ==
    /\ thread[t] \in {"reading", "asleep"}
    /\ bell[t] = "rung"
    /\ bell' = [bell EXCEPT ![t] = "on"]
    /\ UNCHANGED <<now, producer, thread, due, draft, begun, service, cache>>

(***************************************************************************)
(* MacroService.                                                           *)
(***************************************************************************)
Start(t) ==
    /\ caller = Free
    /\ ~Running
    /\ thread[t] = "unborn" /\ \A u \in Threads : u < t => thread[u] # "unborn"
    /\ demand' = FALSE
    /\ fil' = t
    /\ thread' = [thread EXCEPT ![t] = "starting"]
    /\ UNCHANGED <<now, producer, due, draft, begun, bell, armed, caller, cache>>

\* Mutant: the thread arms its event without looking for an earlier demand.
ArmDeaf(t) ==
    /\ thread[t] = "starting"
    /\ armed' = t
    /\ BeginRead(t)
    /\ UNCHANGED <<now, producer, due, bell, fil, demand, caller, cache>>

\* _boucle_macro: the event is armed and the demand read under one lock.
Arm(t) ==
    /\ thread[t] = "starting"
    /\ armed' = t
    /\ IF demand
         THEN /\ bell' = [bell EXCEPT ![t] = "on"]
              /\ thread' = [thread EXCEPT ![t] = "ending"]
              /\ UNCHANGED <<draft, begun>>
         ELSE BeginRead(t) /\ UNCHANGED bell
    /\ UNCHANGED <<now, producer, due, fil, demand, caller, cache>>

\* asyncio.run raises: the thread notes the error and ends.
Collapse(t) ==
    /\ thread[t] \in {"starting", "reading", "asleep"}
    /\ thread' = [thread EXCEPT ![t] = "ending"]
    /\ due' = [due EXCEPT ![t] = 0]
    /\ draft' = [draft EXCEPT ![t] = None]
    /\ UNCHANGED <<now, producer, begun, bell, service, cache>>

\* The end of _servir.
End(t) ==
    /\ thread[t] = "ending"
    /\ armed' = Nobody
    /\ thread' = [thread EXCEPT ![t] = "dead"]
    /\ bell' = [bell EXCEPT ![t] = "off"]
    /\ begun' = [begun EXCEPT ![t] = 0]
    /\ UNCHANGED <<now, producer, due, draft, fil, demand, caller, cache>>

\* Mutant: a fixed delay, whatever a read may take.
JoinDelayFixed == Floor

\* _delai_arret.
JoinDelay == Max({Floor, Budget + Margin})

\* stop, with its own delay (whole) or one the caller gave: the demand first, then the bell
\* of the event it found, then the join.
Stop(whole, delay) ==
    /\ caller = Free
    /\ delay = IF whole THEN JoinDelay ELSE 0
    /\ demand' = TRUE
    /\ IF fil = Nobody
         THEN UNCHANGED <<bell, caller>>
         ELSE /\ bell' = [t \in Threads |->
                            IF t = armed /\ bell[t] = "off" THEN "rung" ELSE bell[t]]
              /\ caller' = [pc |-> "joining", until |-> now + delay, whole |-> whole]
    /\ UNCHANGED <<now, producer, thread, due, draft, begun, fil, armed, cache>>

\* Mutant: the thread is forgotten even when it has not ended.
JoinForgets ==
    /\ caller.pc = "joining"
    /\ ~Running \/ now >= caller.until
    /\ fil' = Nobody
    /\ caller' = Free
    /\ UNCHANGED <<now, producer, loop, armed, demand, cache>>

\* The join returns: only a thread that has ended is forgotten.
Join ==
    /\ caller.pc = "joining"
    /\ \/ ~Running /\ fil' = Nobody
       \/ Running /\ now >= caller.until /\ UNCHANGED fil
    /\ caller' = Free
    /\ UNCHANGED <<now, producer, loop, armed, demand, cache>>

\* Time passes when nothing is due in the thread.
Tick ==
    /\ now < MaxTime
    /\ \A t \in Threads : Alive(t) =>
         /\ bell[t] # "rung"
         /\ \/ thread[t] = "reading"
            \/ thread[t] = "asleep" /\ due[t] > now /\ bell[t] # "on"
    /\ now' = now + 1
    /\ UNCHANGED <<producer, loop, service, cache>>

Turn(t) == EndRead(t) \/ Wake(t) \/ Ring(t) \/ Arm(t) \/ End(t)

Next ==
    \/ \E shown \in SUBSET Events, ahead \in 0..Drift : Announce(shown, ahead)
    \/ Break \/ Mend \/ Join \/ Tick
    \/ \E t \in Threads : Turn(t) \/ Answer(t) \/ Start(t) \/ Collapse(t)
    \/ \E whole \in BOOLEAN, delay \in {0, JoinDelay} : Stop(whole, delay)

Spec == Init /\ [][Next]_vars

\* The thread is scheduled, and a read returns, though nothing says when.
FairSpec == Spec /\ \A t \in Threads : WF_vars(Turn(t))

(***************************************************************************)
(* evaluate_macro_risk and the gate.                                       *)
(***************************************************************************)
\* currencies_of and _devises_suivies: the groups of a name of two groups at least.
Followed(s) == IF Len(Codes[s]) < 2 THEN {} ELSE Range(Codes[s])

\* _pertinents: nothing known of the symbol keeps every event.
Relevant(s) ==
    {e \in calendar.events \cap High : Followed(s) = {} \/ Currency[e] \in Followed(s)}

Frozen(s)   == \E e \in Relevant(s) : now - After <= At[e] /\ At[e] <= now + Before
Imminent(s) == \E e \in Relevant(s) : now <= At[e] /\ At[e] <= now + Horizon

Verdict(s) ==
    IF calendar = None THEN "UNKNOWN"
    ELSE IF calendar.at > now + Skew \/ calendar.at < now - Ttl THEN "STALE"
    ELSE IF calendar.events = {} THEN "UNKNOWN"
    ELSE IF Frozen(s) THEN "BLACKOUT"
    ELSE IF Imminent(s) THEN "ELEVATED"
    ELSE "CLEAR"

\* The gate: an entry goes on only past allows_new_risk and conservative.
Passes(s) == Verdict(s) = "CLEAR"

(***************************************************************************)
(* Properties.                                                             *)
(***************************************************************************)
Calendars == [at : Nat, events : SUBSET Events] \cup {None}

TypeOK ==
    /\ now \in 0..MaxTime
    /\ announced \in [at : Nat, events : SUBSET Events]
    /\ newsAt \in 0..now
    /\ since \in [Events -> 0..Never]
    /\ readable \in BOOLEAN
    /\ goodSince \in 0..now
    /\ thread \in [Threads -> {"unborn", "starting", "reading", "asleep", "ending", "dead"}]
    /\ due \in [Threads -> Nat]
    /\ draft \in [Threads -> Calendars]
    /\ begun \in [Threads -> 0..now]
    /\ bell \in [Threads -> {"off", "rung", "on"}]
    /\ fil \in Threads \cup {Nobody}
    /\ armed \in Threads \cup {Nobody}
    /\ demand \in BOOLEAN
    /\ caller \in [pc : {"free", "joining"}, until : Nat, whole : BOOLEAN]
    /\ calendar \in Calendars
    /\ failures \in Nat
    /\ failedAt \in 0..now

\* At most one thread reads the calendar: it is the one the service holds, and an event
\* that is armed is its own.
OneReader ==
    \A t \in Threads :
        /\ Alive(t) => fil = t
        /\ armed = t => Alive(t)

\* An event shown without a break since a calendar was stamped is in that calendar.
Complete(c) == \A e \in Events : since[e] + Drift <= c.at => e \in c.events

Honest(c) == c = None \/ (c.at <= newsAt + Drift /\ Complete(c))

\* What the service, its thread and the cache hold of the producer was once shown.
NothingInvented ==
    /\ Honest(announced) /\ Honest(calendar)
    /\ \A t \in Threads : Honest(draft[t])

\* A thread that serves has armed its event, and sleeps after a failure for MaxBackoff at
\* most.
Serves ==
    \A t \in Threads :
        /\ thread[t] \in {"reading", "asleep"} => armed = t
        /\ thread[t] = "asleep" /\ failures > 0 => due[t] <= failedAt + MaxBackoff

\* When the stop under way was asked.
Asked == caller.until - JoinDelay

\* Since stop was asked, with its own delay, the thread knows, and no other read than the one
\* it was in has gone on.
StopUnderway ==
    caller.pc = "joining" /\ caller.whole =>
        \A t \in Threads :
            /\ thread[t] = "starting" => demand
            /\ thread[t] \in {"reading", "asleep"} => bell[t] \in {"rung", "on"}
            /\ thread[t] \in {"starting", "asleep"} => now <= Asked
            /\ thread[t] = "reading" => begun[t] <= Asked /\ (bell[t] = "rung" => now <= Asked)
            /\ thread[t] = "ending" => begun[t] <= Asked

\* An entry on a symbol passes the gate only if every event that moves one of its
\* currencies, and that the producer has shown for the length of the freshness limit, is
\* outside the freeze and the horizon: a dead producer that is still read, a failing read
\* and a late answer all refuse rather than calm.
NoBlindEntry ==
    \A s \in Symbols, e \in High :
        /\ Passes(s)
        /\ since[e] + Drift + Ttl <= now
        /\ Followed(s) = {} \/ Currency[e] \in Followed(s)
        => ~(now - After <= At[e] /\ At[e] <= now + Before)
           /\ ~(now <= At[e] /\ At[e] <= now + Horizon)

\* A symbol of no known currency keeps every publication: it is frozen whenever another is.
UnknownKeepsAll ==
    \A s \in Symbols, other \in Symbols :
        Range(Codes[s]) \cap Range(Currency) = {} /\ Verdict(other) = "BLACKOUT"
            => Verdict(s) = "BLACKOUT"

\* A source that answers again is read again within the longest backoff of its return, or
\* of the end of the read that its return found under way: that read may still fail, and no
\* read begun after the return does.
RecoveryBounded ==
    \A t \in Threads :
        thread[t] = "asleep" /\ readable /\ failures > 0 =>
            /\ begun[t] <= goodSince
            /\ due[t] <= Max({goodSince, failedAt}) + MaxBackoff

\* stop with its own delay finds the thread ended by the end of it, unless the read it was in
\* when stop was asked outlasts the budget: it never finds it asleep, before its first read,
\* or in a read begun since.
StopInTime ==
    caller.pc = "joining" /\ caller.whole /\ now >= caller.until =>
        \A t \in Threads : Alive(t) =>
            /\ thread[t] \in {"reading", "ending"}
            /\ begun[t] <= Asked
            /\ now - begun[t] > Budget

\* What service.py:21-25 says: the delay covers the read that is allowed. A read that overruns
\* its budget is not covered (README).
StopCoversRead == caller.pc = "joining" /\ caller.whole /\ now >= caller.until => ~Running

\* The inductive invariant behind the three.
IInv ==
    /\ TypeOK
    /\ OneReader
    /\ NothingInvented
    /\ Serves
    /\ RecoveryBounded
    /\ StopUnderway

\* A demanded stop ends the thread, even one that had not armed its event yet.
StopIsHeard == (demand /\ Running) ~> ~Running

=============================================================================
