---------------------------- MODULE CalendarPlugin ----------------------------
(***************************************************************************)
(* The calendar plugin's poller: a tick looks at the clock, fetches the    *)
(* events of a window around that time, which takes a while, and publishes *)
(* once each of the configured lead times that an event has reached; after *)
(* it the poller sleeps for the poll interval.  The program is restarted,  *)
(* ticks fail, and events move.                                            *)
(***************************************************************************)
EXTENDS Integers, FiniteSets

CONSTANTS
  Events,
  Leads,       \* lead_minutes
  Poll,        \* poll_interval
  Minimum,     \* the band is at least so wide: 120 seconds
  MaxTick,     \* bound on the time a tick takes
  MaxFailed,   \* bound on the ticks that fail one after the other
  Lookahead,   \* lookahead_hours
  Cap,         \* entries of the set of what was published
  Horizon,     \* bound on the clock
  MaxMoves, MaxRestarts,
  None

CalendarAssumption ==
  /\ Leads \subseteq Nat \ {0} /\ Leads # {} /\ {Poll, Lookahead} \subseteq Nat \ {0}
  /\ {Minimum, MaxTick, MaxFailed, Cap, Horizon, MaxMoves, MaxRestarts} \subseteq Nat
  /\ IsFiniteSet(Events) /\ IsFiniteSet(Leads) /\ None \notin Nat

VARIABLES
  now,
  creds,      \* the store has tokens
  up,         \* the plugin runs and is initialized
  due,        \* when the next tick begins
  looked,     \* the time that the tick under way goes by
  fired,      \* the pairs of event and lead that were published
  failed,     \* ticks that failed since the last that did not
  start,      \* [Events -> start time, or None where the calendar has no such event]
  steady,     \* history: [Events -> since when neither it nor the plugin changed]
  published,  \* history: by which run of the plugin a pair was published how often
  moves, restarts

counters == <<moves, restarts>>
poller == <<due, looked, fired, failed>>
vars == <<now, creds, up, poller, start, steady, published, counters>>

Time == 0..Horizon
Pairs == Events \X Leads
Runs == 0..MaxRestarts

TypeOK ==
  /\ now \in Time /\ creds \in BOOLEAN /\ up \in BOOLEAN /\ due \in 0..Horizon + Poll
  /\ looked \in Time \cup {None} /\ fired \subseteq Pairs /\ failed \in 0..MaxFailed
  /\ start \in [Events -> Time \cup {None}]
  /\ steady \in [Events -> Time] /\ published \in [Pairs \X Runs -> Nat]
  /\ moves \in 0..MaxMoves /\ restarts \in 0..MaxRestarts

Init ==
  /\ now = 0 /\ creds \in BOOLEAN /\ up = FALSE
  /\ due = 0 /\ looked = None /\ fired = {} /\ failed = 0
  /\ start \in [Events -> Time \cup {None}] /\ steady = [e \in Events |-> 0]
  /\ published = [x \in Pairs \X Runs |-> 0] /\ moves = 0 /\ restarts = 0

\* Since this moment nothing has changed that a reminder depends on.
Unsteady(events) == steady' = [e \in Events |-> IF e \in events THEN now ELSE steady[e]]

-----------------------------------------------------------------------------
(* The poller *)

\* The first tick is at once.
Start ==
  /\ ~up /\ up' = TRUE /\ due' = now /\ Unsteady(Events)
  /\ UNCHANGED <<now, creds, looked, fired, failed, start, published, counters>>

\* Without tokens a tick does nothing.
TickBegins ==
  /\ up /\ looked = None /\ now = due
  /\ IF creds THEN looked' = now /\ UNCHANGED due ELSE due' = now + Poll /\ UNCHANGED looked
  /\ UNCHANGED <<now, creds, up, fired, failed, start, steady, published, counters>>

\* What list_events returns: the window reaches back by the longest lead.
Listed ==
  {e \in Events : /\ start[e] # None /\ start[e] <= looked + Lookahead
                  /\ \E longest \in Leads : start[e] >= looked - longest}

FiringTime(e, lead) == start[e] - lead
Band == IF 2 * Poll > Minimum THEN 2 * Poll ELSE Minimum

Mutant_InBand(e, lead) ==
  looked >= FiringTime(e, lead) /\ looked < start[e] /\ looked < FiringTime(e, lead) + Poll
\* Reached, not started, and not so long ago that the reminder lost its meaning.
InBand(e, lead) ==
  looked >= FiringTime(e, lead) /\ looked < start[e] /\ looked <= FiringTime(e, lead) + Band

Mutant_ShouldFire == {p \in Listed \X Leads : InBand(p[1], p[2])}
ShouldFire == {p \in Listed \X Leads : InBand(p[1], p[2]) /\ p \notin fired}

\* gc_fired_set: past the cap the whole set is dropped.
Collected(pairs) == IF Cardinality(pairs) > Cap THEN {} ELSE pairs

\* The listing is there and what is due is published, or it fails; then the poller sleeps.
TickEnds ==
  /\ looked # None /\ looked' = None /\ due' = now + Poll
  /\ \/ /\ failed' = 0 /\ fired' = Collected(fired \cup ShouldFire)
        /\ published' = [x \in Pairs \X Runs |->
             published[x] + (IF x[1] \in ShouldFire /\ x[2] = restarts THEN 1 ELSE 0)]
     \/ failed < MaxFailed /\ failed' = failed + 1 /\ UNCHANGED <<fired, published>>
  /\ UNCHANGED <<now, creds, up, start, steady, counters>>

-----------------------------------------------------------------------------
(* The clock, the user, the calendar *)

Pass ==
  /\ now < Horizon /\ now' = now + 1
  /\ up => IF looked = None THEN now < due ELSE now < looked + MaxTick
  /\ UNCHANGED <<creds, up, poller, start, steady, published, counters>>

Auth ==
  /\ ~creds /\ creds' = TRUE /\ Unsteady(Events)
  /\ UNCHANGED <<now, up, poller, start, published, counters>>

Stop ==
  /\ up /\ restarts < MaxRestarts /\ restarts' = restarts + 1
  /\ up' = FALSE /\ due' = 0 /\ looked' = None /\ fired' = {} /\ failed' = 0
  /\ UNCHANGED <<now, creds, start, steady, published, moves>>

\* An event is made, moved or cancelled.
Move(e) ==
  /\ moves < MaxMoves /\ moves' = moves + 1
  /\ \E t \in {s \in Time : s >= now} \cup {None} : t # start[e] /\ start' = [start EXCEPT ![e] = t]
  /\ Unsteady({e})
  /\ UNCHANGED <<now, creds, up, poller, published, restarts>>

-----------------------------------------------------------------------------
Next == Start \/ TickBegins \/ TickEnds \/ Pass \/ Auth \/ Stop \/ \E e \in Events : Move(e)

Spec == Init /\ [][Next]_vars

-----------------------------------------------------------------------------
(* Properties *)

\* gc_fired_set never drops what was published.
Fits == Cardinality(Pairs) <= Cap

\* When the time for it is over: at the start, or when the band is.
Over(e, lead) == now >= start[e] \/ now > FiringTime(e, lead) + Band

\* The band is wide enough for the ticks that fail, each a poll and its own work after the
\* one before: with the two polls of a long interval for one that takes no time at all.
Timely == (MaxFailed + 1) * (Poll + MaxTick) <= Band

\* A lead of a band or more is reminded of in time, where the event and the plugin were
\* there before the firing time, though ticks drift by the work they do and some fail: as
\* long as the band is wide enough for that and the set of what was published fits.  Said
\* whenever no tick is under way.
\* (poller.rs should_fire "[firing_time, firing_time + max(2*poll, 2min)]")
RemindedInTime == Fits /\ Timely =>
  \A e \in Events, lead \in {l \in Leads : l >= Band /\ l <= Lookahead} :
    up /\ creds /\ looked = None /\ start[e] # None /\ steady[e] < FiringTime(e, lead) /\ Over(e, lead)
      => <<e, lead>> \in fired

\* Each run of the plugin publishes a pair once, whatever the calendar does, as long
\* as the set of what was published fits.
\* (docs/roadmap.md:278 "The dedupe key ... enforces exactly-once")
OncePerLead == Fits => \A x \in Pairs \X Runs : published[x] <= 1

-----------------------------------------------------------------------------
(* What the code does not keep *)

\* Restarted within the band, the plugin publishes a reminder a second time.
OnceEver ==
  \A p \in Pairs, r, q \in Runs : published[<<p, r>>] > 0 /\ published[<<p, q>>] > 0 => r = q

\* With an interval of a minute or more the band is two polls: a tick that fails, or one
\* that fails and takes its time, puts the next look behind it.
RemindedThoughLate ==
  \A e \in Events, lead \in {l \in Leads : l >= Band /\ l <= Lookahead} :
    up /\ creds /\ looked = None /\ start[e] # None /\ steady[e] < FiringTime(e, lead) /\ Over(e, lead)
      => <<e, lead>> \in fired

\* An event that is moved after its reminder gets none for the new time: the key has
\* no time in it.
MovedIsReminded ==
  \A e \in Events, lead \in {l \in Leads : l >= Band /\ l <= Lookahead} :
    up /\ creds /\ start[e] # None /\ steady[e] < FiringTime(e, lead) /\ Over(e, lead) /\ moves > 0
      => published[<<<<e, lead>>, restarts>>] > moves

\* A lead below the interval, or beyond the window, which the configuration allows.
EveryLead ==
  \A e \in Events, lead \in Leads :
    up /\ creds /\ start[e] # None /\ steady[e] < FiringTime(e, lead) /\ Over(e, lead)
      => <<e, lead>> \in fired
=============================================================================
