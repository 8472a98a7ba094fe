--------------------------- MODULE CallbackTimers ---------------------------
(***************************************************************************)
(* Callback timers of one node: ctimer.c on top of etimer.c and the event  *)
(* queue of process.c.  An expired timer is not called but turned into an  *)
(* event, and what happens to the timer until the event is delivered makes *)
(* the difficulty.                                                         *)
(*                                                                         *)
(* Times are relative to the clock.  ctimer_list is a set, the code only   *)
(* searches it.  Timers of other processes appear as the events they post. *)
(***************************************************************************)
EXTENDS Integers, FiniteSets, SequencesExt, Sublists

CONSTANTS
  Timers,
  Intervals,    \* delays asked for, in ticks
  NumEvents,    \* PROCESS_CONF_NUMEVENTS, 32
  ClockRange,   \* number of values of clock_time_t
  Other,        \* an event of another process
  MaxLate,      \* bound: ticks by which the main loop may be late
  MaxSets,      \* bound: calls of ctimer_set
  MaxOthers     \* bound: events of other processes

ASSUME CallbackTimersAssumption ==
  /\ Other \notin Timers
  /\ Intervals \subseteq Nat
  /\ NumEvents \in Nat \ {0}
  /\ MaxLate \in Nat
  /\ ClockRange \in Nat \ {0} /\ \A i \in Intervals : i + MaxLate < ClockRange

VARIABLES
  timerlist,     \* etimers that run, latest set first
  owned,         \* timers whose etimer has a process
  left,          \* [c]: ticks until the etimer expires, negative if it is late
  wake,          \* next_expiration, relative to the clock
  poll,          \* TRUE iff etimer_process is to be polled
  ctimer_list,   \* callback timers that wait for their event
  events,        \* the event queue: timers, and events of other processes
  overtaken,     \* history: timers set while an event of theirs was queued
  sets, others   \* history: counts for the bounds

vars ==
  <<timerlist, owned, left, wake, poll, ctimer_list, events, overtaken, sets,
    others>>

\* main starts etimer_process and ctimer_process before any timer is set.
Init ==
  /\ timerlist = << >> /\ owned = {}
  /\ left = [c \in Timers |-> 0]
  /\ wake = 0 /\ poll = FALSE
  /\ ctimer_list = {}
  /\ events = << >>
  /\ overtaken = {}
  /\ sets = 0 /\ others = 0

-----------------------------------------------------------------------------
FirstOfList(list, rest) ==   \* mutant: the list is not searched for the next one
  IF list = << >> THEN 0 ELSE rest[Head(list)]

\* update_time: the timer that expires first.  The difference is unsigned, so
\* a late one is behind all the others.
Earliest(list, rest) ==
  LET distances == {rest[c] : c \in ToSet(list)} IN
  IF list = << >> THEN 0
  ELSE CHOOSE d \in distances :
         \A e \in distances : d % ClockRange <= e % ClockRange

PushedAgain(c) == <<c>> \o timerlist   \* mutant: the search is left out

\* add_timer: a timer on the list stays where it is.
Added(c) ==
  IF c \in owned /\ c \in ToSet(timerlist) THEN timerlist ELSE <<c>> \o timerlist

\* ctimer_set, called from a callback or any other handler.
SetTimer(c, interval) ==
  /\ sets < MaxSets
  /\ sets' = sets + 1
  /\ left' = [left EXCEPT ![c] = interval]
  /\ poll' = TRUE
  /\ timerlist' = Added(c)
  /\ owned' = owned \cup {c}
  /\ wake' = Earliest(timerlist', left')
  /\ ctimer_list' = ctimer_list \cup {c}
  /\ overtaken' = IF c \in ToSet(events) THEN overtaken \cup {c} ELSE overtaken \ {c}
  /\ UNCHANGED <<events, others>>

CutOff(list, c) ==   \* mutant: next is cleared before it is used
  IF Contains(list, c) THEN SubSeq(list, 1, SelectInSeq(list, LAMBDA d : d = c) - 1)
  ELSE list

Without(list, c) == Sublist(list, Timers \ {c})

\* ctimer_stop: an event that is queued stays in the queue.
StopTimer(c) ==
  /\ timerlist' = Without(timerlist, c)
  /\ wake' = IF c \in ToSet(timerlist) THEN Earliest(timerlist', left) ELSE wake
  /\ owned' = owned \ {c}
  /\ ctimer_list' = ctimer_list \ {c}
  /\ UNCHANGED <<left, poll, events, overtaken, sets, others>>

-----------------------------------------------------------------------------
ExpiredOneEarly(c) == left[c] <= 1   \* mutant: diff is one too large

ExpiredInTime(c) == left[c] = 0   \* mutant: equal, not at least

Expired(c) == left[c] <= 0

Room == NumEvents - Len(events)

PostedAll ==   \* mutant: the queue is never full
  Sublist(timerlist, {c \in Timers : Expired(c)})

\* The expired timers of the list, in its order, as far as the queue takes them.
Posted ==
  LET expired == Sublist(timerlist, {c \in Timers : Expired(c)}) IN
  IF Len(expired) <= Room THEN expired ELSE SubSeq(expired, 1, Room)

(***************************************************************************)
(* etimer_process is polled: every expired timer is turned into an event.  *)
(* One for which there is no room stays on the list and asks for a poll.   *)
(***************************************************************************)
EtimerPoll ==
  /\ poll
  /\ LET gone == ToSet(Posted)
         late == {c \in ToSet(timerlist) : Expired(c)} \ gone IN
     /\ events' = events \o Posted
     /\ timerlist' = Sublist(timerlist, Timers \ gone)
     /\ owned' = owned \ gone
     /\ wake' = IF gone = {} THEN wake ELSE Earliest(timerlist', left)
     /\ poll' = (late # {})
  /\ UNCHANGED <<left, ctimer_list, overtaken, sets, others>>

\* do_event: ctimer_process calls back the timer of the event if it is on its
\* list, whatever its etimer does.
DeliverEvent ==
  /\ events # << >>
  /\ events' = Tail(events)
  /\ ctimer_list' = ctimer_list \ {Head(events)}
  /\ UNCHANGED <<timerlist, owned, left, wake, poll, overtaken, sets, others>>

\* Another process posts an event; a full queue does not take it.
PostOther ==
  /\ others < MaxOthers
  /\ Room > 0
  /\ others' = others + 1
  /\ events' = Append(events, Other)
  /\ UNCHANGED <<timerlist, owned, left, wake, poll, ctimer_list, overtaken, sets>>

(***************************************************************************)
(* The clock advances.  The simulated node wakes up when next_expiration   *)
(* is reached, or earlier for another reason; cooja_tick then polls        *)
(* etimer_process if there are any timers.                                 *)
(***************************************************************************)
Tick ==
  /\ \A c \in ToSet(timerlist) : left[c] > -MaxLate
  /\ left' = [c \in Timers |-> IF c \in ToSet(timerlist) THEN left[c] - 1 ELSE left[c]]
  /\ wake' = IF timerlist = << >> THEN 0 ELSE wake - 1
  /\ \/ poll' = (poll \/ timerlist # << >>)
     \/ wake' > 0 /\ poll' = poll
  /\ UNCHANGED <<timerlist, owned, ctimer_list, events, overtaken, sets, others>>

Next ==
  \/ \E c \in Timers :
       \/ \E interval \in Intervals : SetTimer(c, interval)
       \/ StopTimer(c)
  \/ EtimerPoll \/ DeliverEvent \/ PostOther \/ Tick

\* The clock runs, and process_run polls and takes events.
Fairness == WF_vars(Tick) /\ WF_vars(EtimerPoll) /\ WF_vars(DeliverEvent)

Spec == Init /\ [][Next]_vars /\ Fairness

-----------------------------------------------------------------------------
\* Shape of the state, the limit of the event queue included.
TypeOK ==
  /\ timerlist \in Seq(Timers)
  /\ owned \subseteq Timers
  /\ left \in [Timers -> Int]
  /\ \A c \in Timers : \E i \in Intervals \cup {0} : left[c] \in -MaxLate .. i
  /\ poll \in BOOLEAN
  /\ ctimer_list \subseteq Timers
  /\ events \in Seq(Timers \cup {Other}) /\ Len(events) <= NumEvents
  /\ overtaken \subseteq Timers

\* A timer is on the list once, which would otherwise be circular, and exactly
\* as long as its etimer has a process: add_timer searches only for those.
ListSound ==
  /\ ToSet(timerlist) = owned
  /\ Cardinality(owned) = Len(timerlist)

\* In whatever order timers are set, stopped and expire and however full the
\* queue is: a callback timer that waits has a running etimer or an event.
NoTimerLost == \A c \in ctimer_list : c \in ToSet(timerlist) \/ c \in ToSet(events)

\* next_expiration never makes the node sleep past the expiry of a timer: one
\* that is due is about to be posted.
DueIsPolled == \A c \in ToSet(timerlist) : left[c] <= 0 => poll

\* A callback comes before its time only if the timer was set again while its
\* last expiry was queued: the event of that is taken for one of the new
\* delay, as it may be for statistic_timer, which every accepted SetHLMAC sets.
NeverEarly ==
  \A c \in ctimer_list : c \in ToSet(events) => left[c] <= 0 \/ c \in overtaken

\* A callback timer that is set is called, or stopped, in the end.
EveryTimerCalled == \A c \in Timers : c \in ctimer_list ~> c \notin ctimer_list
=============================================================================
