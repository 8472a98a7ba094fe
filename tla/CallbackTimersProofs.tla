------------------------ MODULE CallbackTimersProofs ------------------------
(***************************************************************************)
(* Proofs about the callback timers, for any number of timers, any delays  *)
(* that fit the clock, any length of the event queue.                      *)
(***************************************************************************)
EXTENDS CallbackTimers, RecursionProofs

Running == ToSet(timerlist)

(***************************************************************************)
(* The inductive invariant.  An event is kept to its time also when its    *)
(* timer is not awaited any more, and next_expiration is not behind any    *)
(* timer that still has time left: it may be behind one that is late,      *)
(* whose distance is taken for a large one.                                *)
(***************************************************************************)
EventsInTime ==
  \A c \in Timers : c \in ToSet(events) => left[c] <= 0 \/ c \in overtaken

WakesInTime == \A c \in Running : left[c] > 0 => wake <= left[c]

TimersInv ==
  /\ TypeOK /\ wake \in Int
  /\ Running = owned /\ Distinct(timerlist)
  /\ NoTimerLost /\ DueIsPolled
  /\ EventsInTime /\ WakesInTime

-----------------------------------------------------------------------------
LEMMA ModOfSmall ==
  ASSUME NEW n \in Nat \ {0}, NEW d \in 0 .. n - 1
  PROVE  d % n = d
  OBVIOUS

LEMMA RunningTimers ==
  ASSUME TypeOK
  PROVE  /\ Running \subseteq Timers /\ Running = Members(timerlist)
         /\ timerlist = << >> <=> Running = {}
<1>1. timerlist \in Seq(Timers)
  BY DEF TypeOK
<1>2. /\ Len(timerlist) \in Nat /\ DOMAIN timerlist = 1 .. Len(timerlist)
      /\ \A i \in 1 .. Len(timerlist) : timerlist[i] \in Timers
  BY <1>1, LenProperties, ElementOfSeq
<1>3. Running \subseteq Timers /\ Running = Members(timerlist)
  BY <1>2 DEF Running, ToSet, Members
<1>4. timerlist = << >> => Running = {}
  BY DEF Running, ToSet
<1>5. timerlist # << >> => Running # {}
  <2> SUFFICES ASSUME timerlist # << >> PROVE Running # {}
    OBVIOUS
  <2>1. 1 \in DOMAIN timerlist
    BY <1>1, <1>2, EmptySeq
  <2> QED
    BY <2>1 DEF Running, ToSet
<1> QED
  BY <1>3, <1>4, <1>5

\* No timer has more left than the clock can tell.
LEMMA LeftFitsClock ==
  ASSUME TypeOK, NEW c \in Timers
  PROVE  left[c] \in Int /\ -MaxLate <= left[c] /\ left[c] < ClockRange
<1>1. left[c] \in Int /\ \E i \in Intervals \cup {0} : left[c] \in -MaxLate .. i
  BY DEF TypeOK
<1>2. PICK i \in Intervals \cup {0} : left[c] \in -MaxLate .. i
  BY <1>1
<1>3. i \in Nat /\ i < ClockRange
  BY <1>2, CallbackTimersAssumption
<1> QED
  BY <1>1, <1>2, <1>3, CallbackTimersAssumption

(***************************************************************************)
(* update_time compares unsigned distances; a late timer is behind all the *)
(* others, so what it finds is never after a timer that has time left.     *)
(***************************************************************************)
LEMMA EarliestIsEarly ==
  ASSUME NEW list \in Seq(Timers), NEW rest \in [Timers -> Int],
         \A c \in Timers : rest[c] < ClockRange
  PROVE  /\ Earliest(list, rest) \in Int
         /\ \A c \in ToSet(list) : rest[c] > 0 => Earliest(list, rest) <= rest[c]
<1> DEFINE distances == {rest[c] : c \in ToSet(list)}
           unsigned == {d % ClockRange : d \in distances}
           least(d) == d \in distances /\ \A e \in distances : d % ClockRange <= e % ClockRange
<1>1. ClockRange \in Nat \ {0}
  BY CallbackTimersAssumption
<1>2. ToSet(list) \subseteq Timers
  BY LenProperties, ElementOfSeq DEF ToSet
<1>3. CASE list = << >>
  BY <1>3 DEF Earliest, ToSet
<1>4. CASE list # << >>
  <2>1. distances # {}
    <3>1. 1 \in DOMAIN list
      BY <1>4, EmptySeq, LenProperties
    <3> QED
      BY <3>1 DEF ToSet
  <2>2. \A d \in distances : d \in Int /\ d % ClockRange \in Nat /\ d < ClockRange
    BY <1>1, <1>2
  <2>3. PICK m \in unsigned : \A u \in unsigned : m <= u
    <3>1. unsigned \subseteq Nat /\ unsigned # {}
      BY <2>1, <2>2
    <3> HIDE DEF unsigned
    <3> QED
      BY <3>1, SmallestExists
  <2>4. \E d : least(d)
    BY <2>3
  <2>5. Earliest(list, rest) = CHOOSE d : least(d)
    BY <1>4 DEF Earliest
  <2>6. PICK d : d = Earliest(list, rest) /\ least(d)
    BY <2>4, <2>5
  <2>7. ASSUME NEW c \in ToSet(list), rest[c] > 0 PROVE d <= rest[c]
    <3>1. rest[c] \in distances /\ rest[c] \in Int /\ rest[c] < ClockRange
      BY <1>2
    <3>2. d \in Int /\ d < ClockRange /\ d % ClockRange <= rest[c] % ClockRange
      BY <2>2, <2>6, <3>1
    <3>3. rest[c] % ClockRange = rest[c]
      <4>1. rest[c] \in 0 .. ClockRange - 1
        BY <1>1, <2>7, <3>1
      <4> QED
        BY <1>1, <4>1, ModOfSmall
    <3>4. d >= 0 => d % ClockRange = d
      <4>1. d >= 0 => d \in 0 .. ClockRange - 1
        BY <1>1, <3>2
      <4> QED
        BY <1>1, <4>1, ModOfSmall
    <3> HIDE DEF distances, unsigned, least
    <3> QED
      BY <1>1, <2>7, <3>1, <3>2, <3>3, <3>4
  <2> QED
    BY <2>2, <2>6, <2>7
<1> QED
  BY <1>3, <1>4

-----------------------------------------------------------------------------
LEMMA InvariantAtInit == Init => TimersInv
<1> SUFFICES ASSUME Init PROVE TimersInv
  OBVIOUS
<1>1. TypeOK
  <2>1. \A c \in Timers : \E i \in Intervals \cup {0} : left[c] \in -MaxLate .. i
    <3>1. \A c \in Timers : left[c] = 0
      BY DEF Init
    <3>2. 0 \in Intervals \cup {0} /\ 0 \in -MaxLate .. 0
      BY CallbackTimersAssumption
    <3> QED
      BY <3>1, <3>2
  <2>2. left \in [Timers -> Int]
    BY DEF Init
  <2>3. events \in Seq(Timers \cup {Other}) /\ Len(events) <= NumEvents
    BY CallbackTimersAssumption DEF Init
  <2>4. timerlist \in Seq(Timers)
    BY DEF Init
  <2>5. poll \in BOOLEAN
    BY DEF Init
  <2>6. owned \subseteq Timers /\ ctimer_list \subseteq Timers /\ overtaken \subseteq Timers
    BY DEF Init
  <2> QED
    BY <2>1, <2>2, <2>3, <2>4, <2>5, <2>6 DEF TypeOK
<1>2. Running = {} /\ ToSet(events) = {} /\ Distinct(timerlist)
  BY DEF Init, Running, ToSet, Distinct
<1> QED
  BY <1>1, <1>2 DEF Init, TimersInv, NoTimerLost, DueIsPolled, EventsInTime,
                    WakesInTime, Running

LEMMA SetTimerPreserves ==
  ASSUME TimersInv, NEW c \in Timers, NEW interval \in Intervals,
         SetTimer(c, interval)
  PROVE  TimersInv'
<1>1. TypeOK /\ Running = owned /\ Distinct(timerlist)
  BY DEF TimersInv
<1>2. Running \subseteq Timers /\ Running = Members(timerlist)
  BY <1>1, RunningTimers
<1>3. interval \in Nat /\ interval + MaxLate < ClockRange /\ MaxLate \in Nat
  BY CallbackTimersAssumption
<1>4. /\ timerlist' \in Seq(Timers) /\ Distinct(timerlist')
      /\ Members(timerlist') = Running \cup {c}
  <2>1. CASE c \in Running
    <3>1. timerlist' = timerlist
      BY <1>1, <2>1 DEF SetTimer, Added, Running
    <3> QED
      BY <1>1, <1>2, <2>1, <3>1 DEF TypeOK
  <2>2. CASE c \notin Running
    <3>1. timerlist' = <<c>> \o timerlist /\ timerlist \in Seq(Timers)
      BY <1>1, <2>2 DEF SetTimer, Added, TypeOK
    <3> QED
      BY <1>1, <1>2, <2>2, <3>1, MembersOfCons
  <2> QED
    BY <2>1, <2>2
<1>5. Running' = Running \cup {c} /\ owned' = Running'
  BY <1>1, <1>4 DEF Running, ToSet, Members, SetTimer
<1>6. /\ left' \in [Timers -> Int] /\ left'[c] = interval
      /\ \A d \in Timers : d # c => left'[d] = left[d]
  BY <1>1, <1>3 DEF TypeOK, SetTimer
<1>7. \A d \in Timers : \E i \in Intervals \cup {0} : left'[d] \in -MaxLate .. i
  <2> SUFFICES ASSUME NEW d \in Timers
               PROVE  \E i \in Intervals \cup {0} : left'[d] \in -MaxLate .. i
    OBVIOUS
  <2>1. CASE d = c
    <3>1. left'[d] \in -MaxLate .. interval
      BY <1>3, <1>6, <2>1
    <3> QED
      BY <3>1
  <2>2. CASE d # c
    BY <1>1, <1>6, <2>2 DEF TypeOK
  <2> QED
    BY <2>1, <2>2
<1>8. TypeOK'
  BY <1>1, <1>2, <1>4, <1>5, <1>6, <1>7 DEF TypeOK, SetTimer
<1>9. wake' \in Int /\ WakesInTime'
  <2>1. \A d \in Timers : left'[d] < ClockRange
    <3> SUFFICES ASSUME NEW d \in Timers PROVE left'[d] < ClockRange
      OBVIOUS
    <3>1. PICK i \in Intervals \cup {0} : left'[d] \in -MaxLate .. i
      BY <1>7
    <3>2. i \in Nat /\ i < ClockRange /\ ClockRange \in Nat
      BY <3>1, CallbackTimersAssumption
    <3>3. left'[d] \in Int /\ left'[d] <= i
      BY <1>3, <3>1, <3>2
    <3> QED
      BY <3>2, <3>3
  <2>2. wake' = Earliest(timerlist', left')
    BY DEF SetTimer
  <2> QED
    BY <1>4, <1>6, <2>1, <2>2, EarliestIsEarly DEF WakesInTime, Running
<1>10. NoTimerLost' /\ DueIsPolled' /\ EventsInTime'
  <2>1. UNCHANGED events /\ poll' = TRUE /\ ctimer_list' = ctimer_list \cup {c}
    BY DEF SetTimer
  <2>2. NoTimerLost'
    BY <1>5, <2>1 DEF TimersInv, NoTimerLost, Running
  <2>3. EventsInTime'
    BY <1>6, <2>1 DEF TimersInv, EventsInTime, SetTimer
  <2> QED
    BY <2>1, <2>2, <2>3 DEF DueIsPolled
<1> QED
  BY <1>4, <1>5, <1>8, <1>9, <1>10 DEF TimersInv

LEMMA StopTimerPreserves ==
  ASSUME TimersInv, NEW c \in Timers, StopTimer(c)
  PROVE  TimersInv'
<1>1. TypeOK /\ Running = owned /\ Distinct(timerlist) /\ timerlist \in Seq(Timers)
  BY DEF TimersInv, TypeOK
<1>2. Running \subseteq Timers /\ Running = Members(timerlist)
  BY <1>1, RunningTimers
<1>3. /\ timerlist' \in Seq(Timers) /\ Distinct(timerlist')
      /\ Members(timerlist') = Running \cap (Timers \ {c})
  BY <1>1, <1>2, SublistMembers DEF StopTimer, Without
<1>4. Running' = Running \ {c} /\ owned' = Running'
  BY <1>1, <1>2, <1>3 DEF Running, ToSet, Members, StopTimer
<1>5. TypeOK'
  BY <1>1, <1>2, <1>3, <1>4 DEF TypeOK, StopTimer
<1>6. wake' \in Int /\ WakesInTime'
  <2>1. CASE c \in Running
    <3>1. wake' = Earliest(timerlist', left)
      BY <2>1 DEF StopTimer, Running
    <3>2. \A d \in Timers : left[d] < ClockRange
      BY <1>1, LeftFitsClock
    <3>3. left \in [Timers -> Int]
      BY <1>1 DEF TypeOK
    <3> QED
      BY <1>3, <3>1, <3>2, <3>3, EarliestIsEarly DEF WakesInTime, Running, StopTimer
  <2>2. CASE c \notin Running
    <3>1. wake' = wake /\ left' = left
      BY <2>2 DEF StopTimer, Running
    <3> QED
      BY <1>4, <3>1 DEF TimersInv, WakesInTime
  <2> QED
    BY <2>1, <2>2
<1>7. NoTimerLost' /\ DueIsPolled' /\ EventsInTime'
  BY <1>4 DEF TimersInv, NoTimerLost, DueIsPolled, EventsInTime, Running, StopTimer
<1> QED
  BY <1>3, <1>4, <1>5, <1>6, <1>7 DEF TimersInv

\* What one poll posts.
LEMMA PostedTimers ==
  ASSUME TypeOK, Distinct(timerlist)
  PROVE  /\ Posted \in Seq(Timers) /\ Len(events) + Len(Posted) <= NumEvents
         /\ ToSet(Posted) \subseteq {c \in Running : Expired(c)}
<1> DEFINE expired == Sublist(timerlist, {c \in Timers : Expired(c)})
<1>1. Running \subseteq Timers /\ Running = Members(timerlist)
  BY RunningTimers
<1>2. /\ expired \in Seq(Timers)
      /\ Members(expired) = Running \cap {c \in Timers : Expired(c)}
  BY <1>1, SublistMembers DEF TypeOK
<1> HIDE DEF expired
<1>3. Members(expired) = {c \in Running : Expired(c)}
  BY <1>1, <1>2
<1>4. /\ Len(expired) \in Nat /\ DOMAIN expired = 1 .. Len(expired)
      /\ Room \in Nat /\ Len(events) + Room = NumEvents
      /\ Len(events) \in Nat /\ NumEvents \in Nat
  BY <1>2, LenProperties, CallbackTimersAssumption DEF TypeOK, Room
<1>5. Posted = IF Len(expired) <= Room THEN expired ELSE SubSeq(expired, 1, Room)
  BY DEF Posted, expired
<1>6. CASE Len(expired) <= Room
  BY <1>2, <1>3, <1>4, <1>5, <1>6 DEF Members, ToSet
<1>7. CASE ~ (Len(expired) <= Room)
  <2>1. \A i \in 1 .. Room : i \in 1 .. Len(expired)
    BY <1>4, <1>7
  <2>2. \A i \in 1 .. Room : expired[i] \in Timers
    BY <1>2, <2>1, ElementOfSeq
  <2>3. /\ Posted \in Seq(Timers) /\ Len(Posted) = Room
        /\ \A i \in 1 .. Room : Posted[i] = expired[i]
    BY <1>2, <1>4, <1>5, <1>7, <2>1, <2>2, SubSeqProperties
  <2>4. DOMAIN Posted = 1 .. Room
    BY <2>3, LenProperties
  <2>5. ToSet(Posted) \subseteq Members(expired)
    BY <1>4, <2>1, <2>3, <2>4 DEF ToSet, Members
  <2> QED
    BY <1>3, <1>4, <2>3, <2>5
<1> QED
  BY <1>6, <1>7

LEMMA EtimerPollPreserves ==
  ASSUME TimersInv, EtimerPoll
  PROVE  TimersInv'
<1> DEFINE gone == ToSet(Posted)
<1>1. TypeOK /\ Running = owned /\ Distinct(timerlist) /\ timerlist \in Seq(Timers)
  BY DEF TimersInv, TypeOK
<1>2. Running \subseteq Timers /\ Running = Members(timerlist)
  BY <1>1, RunningTimers
<1>3. /\ Posted \in Seq(Timers) /\ Len(events) + Len(Posted) <= NumEvents
      /\ gone \subseteq {c \in Running : Expired(c)}
  BY <1>1, PostedTimers
<1>4. /\ events' = events \o Posted
      /\ timerlist' = Sublist(timerlist, Timers \ gone)
      /\ owned' = owned \ gone
      /\ wake' = IF gone = {} THEN wake ELSE Earliest(timerlist', left)
      /\ poll' = ({c \in Running : Expired(c)} \ gone # {})
      /\ UNCHANGED <<left, ctimer_list, overtaken>>
  BY DEF EtimerPoll, Running
<1> HIDE DEF gone
<1>5. /\ timerlist' \in Seq(Timers) /\ Distinct(timerlist')
      /\ Members(timerlist') = Running \cap (Timers \ gone)
  BY <1>1, <1>2, <1>4, SublistMembers
<1>6. Running' = Running \ gone /\ owned' = Running'
  BY <1>1, <1>2, <1>4, <1>5 DEF Running, ToSet, Members
<1>7. /\ events' \in Seq(Timers \cup {Other}) /\ Len(events') <= NumEvents
      /\ ToSet(events') = ToSet(events) \cup gone
  <2>1. events \in Seq(Timers \cup {Other}) /\ Posted \in Seq(Timers \cup {Other})
    BY <1>1, <1>3, SeqMonotonic DEF TypeOK
  <2>2. ToSet(events \o Posted) = ToSet(events) \cup ToSet(Posted)
    <3>1. \A s : ToSet(s) = Range(s)
      BY DEF ToSet, Range
    <3>2. Range(events \o Posted) = Range(events) \cup Range(Posted)
      BY <2>1, RangeConcatenation
    <3> QED
      BY <3>1, <3>2
  <2> QED
    BY <1>3, <1>4, <2>1, <2>2, ConcatProperties DEF gone
<1>8. TypeOK'
  <2>1. poll' \in BOOLEAN
    BY <1>4
  <2> QED
    BY <1>1, <1>2, <1>4, <1>5, <1>6, <1>7, <2>1 DEF TypeOK
<1>9. wake' \in Int /\ WakesInTime'
  <2>1. CASE gone # {}
    <3>1. wake' = Earliest(timerlist', left)
      BY <1>4, <2>1
    <3>2. \A d \in Timers : left[d] < ClockRange
      BY <1>1, LeftFitsClock
    <3>3. left \in [Timers -> Int]
      BY <1>1 DEF TypeOK
    <3> QED
      BY <1>4, <1>5, <3>1, <3>2, <3>3, EarliestIsEarly DEF WakesInTime, Running
  <2>2. CASE gone = {}
    <3>1. wake' = wake /\ left' = left
      BY <1>4, <2>2
    <3> QED
      BY <1>6, <3>1 DEF TimersInv, WakesInTime
  <2> QED
    BY <2>1, <2>2
<1>10. NoTimerLost'
  BY <1>4, <1>6, <1>7 DEF TimersInv, NoTimerLost, Running
<1>11. DueIsPolled'
  <2> SUFFICES ASSUME NEW c \in Running', left'[c] <= 0 PROVE poll'
    BY DEF DueIsPolled, Running
  <2>1. c \in Running /\ c \notin gone /\ Expired(c)
    BY <1>4, <1>6 DEF Expired
  <2> QED
    BY <1>4, <2>1
<1>12. EventsInTime'
  BY <1>3, <1>4, <1>7 DEF TimersInv, EventsInTime, Expired
<1> QED
  BY <1>5, <1>6, <1>8, <1>9, <1>10, <1>11, <1>12 DEF TimersInv

LEMMA DeliverEventPreserves ==
  ASSUME TimersInv, DeliverEvent
  PROVE  TimersInv'
<1>1. TypeOK /\ events \in Seq(Timers \cup {Other}) /\ events # << >>
      /\ Len(events) <= NumEvents /\ NumEvents \in Nat
  BY CallbackTimersAssumption DEF TimersInv, TypeOK, DeliverEvent
<1>2. /\ events' \in Seq(Timers \cup {Other}) /\ Len(events') <= NumEvents
      /\ ToSet(events) = {Head(events)} \cup ToSet(events')
  <2> DEFINE n == Len(events)
  <2>1. /\ n \in Nat \ {0} /\ DOMAIN events = 1 .. n
        /\ events' \in Seq(Timers \cup {Other}) /\ Len(events') = n - 1
        /\ Head(events) = events[1]
        /\ \A i \in 1 .. n - 1 : events'[i] = events[i + 1]
    BY <1>1, HeadTailProperties, LenProperties, EmptySeq DEF DeliverEvent
  <2>2. DOMAIN events' = 1 .. n - 1
    BY <2>1, LenProperties
  <2> HIDE DEF n
  <2>3. \A i \in 1 .. n : i = 1 \/ i - 1 \in 1 .. n - 1
    BY <2>1
  <2>4. ASSUME NEW e \in ToSet(events) PROVE e \in {Head(events)} \cup ToSet(events')
    <3>1. PICK i \in 1 .. n : e = events[i]
      BY <2>1 DEF ToSet
    <3>2. CASE i = 1
      BY <2>1, <3>1, <3>2
    <3>3. CASE i - 1 \in 1 .. n - 1
      <4>1. (i - 1) + 1 = i
        BY <2>1
      <4>2. events'[i - 1] = e
        BY <2>1, <3>1, <3>3, <4>1
      <4> QED
        BY <2>2, <3>3, <4>2 DEF ToSet
    <3> QED
      BY <2>3, <3>2, <3>3
  <2>5. ASSUME NEW e \in ToSet(events') PROVE e \in ToSet(events)
    <3>1. PICK i \in 1 .. n - 1 : e = events'[i]
      BY <2>2 DEF ToSet
    <3>2. i + 1 \in 1 .. n /\ e = events[i + 1]
      BY <2>1, <3>1
    <3> QED
      BY <2>1, <3>2 DEF ToSet
  <2>6. Head(events) \in ToSet(events)
    BY <2>1 DEF ToSet
  <2>7. Len(events') <= NumEvents
    BY <1>1, <2>1 DEF n
  <2> QED
    BY <2>1, <2>4, <2>5, <2>6, <2>7
<1>3. /\ ctimer_list' = ctimer_list \ {Head(events)}
      /\ UNCHANGED <<timerlist, owned, left, wake, poll, overtaken>>
  BY DEF DeliverEvent
<1>4. Running' = Running
  BY <1>3 DEF Running
<1>5. TypeOK'
  BY <1>1, <1>2, <1>3 DEF TypeOK
<1>6. NoTimerLost' /\ DueIsPolled' /\ EventsInTime' /\ WakesInTime'
  BY <1>2, <1>3, <1>4
     DEF TimersInv, NoTimerLost, DueIsPolled, EventsInTime, WakesInTime, Running
<1> QED
  BY <1>3, <1>4, <1>5, <1>6 DEF TimersInv, Distinct

LEMMA PostOtherPreserves ==
  ASSUME TimersInv, PostOther
  PROVE  TimersInv'
<1>1. TypeOK /\ events \in Seq(Timers \cup {Other}) /\ NumEvents \in Nat
  BY CallbackTimersAssumption DEF TimersInv, TypeOK
<1>2. /\ events' = Append(events, Other) /\ Len(events) < NumEvents
      /\ UNCHANGED <<timerlist, owned, left, wake, poll, ctimer_list, overtaken>>
  <2>1. Len(events) \in Nat
    BY <1>1, LenProperties
  <2> QED
    BY <1>1, <2>1 DEF PostOther, Room
<1>3. /\ events' \in Seq(Timers \cup {Other}) /\ Len(events') <= NumEvents
      /\ ToSet(events') = ToSet(events) \cup {Other}
  <2>1. Members(events') = Members(events) \cup {Other}
    BY <1>1, <1>2, MembersOfAppend
  <2>2. Len(events') = Len(events) + 1 /\ Len(events) \in Nat
    BY <1>1, <1>2, AppendProperties, LenProperties
  <2> QED
    BY <1>1, <1>2, <2>1, <2>2, AppendProperties DEF Members, ToSet
<1>4. Other \notin Timers /\ Running' = Running
  BY <1>2, CallbackTimersAssumption DEF Running
<1>5. TypeOK'
  BY <1>1, <1>2, <1>3 DEF TypeOK
<1>6. NoTimerLost' /\ DueIsPolled' /\ EventsInTime' /\ WakesInTime'
  BY <1>2, <1>3, <1>4
     DEF TimersInv, NoTimerLost, DueIsPolled, EventsInTime, WakesInTime, Running
<1> QED
  BY <1>2, <1>4, <1>5, <1>6 DEF TimersInv, Distinct

LEMMA TickPreserves ==
  ASSUME TimersInv, Tick
  PROVE  TimersInv'
<1>1. TypeOK /\ Running \subseteq Timers /\ wake \in Int
  BY RunningTimers DEF TimersInv
<1>2. /\ \A c \in Running : left[c] > -MaxLate
      /\ left' = [c \in Timers |-> IF c \in Running THEN left[c] - 1 ELSE left[c]]
      /\ wake' = IF timerlist = << >> THEN 0 ELSE wake - 1
      /\ (poll' = (poll \/ timerlist # << >>)) \/ (wake' > 0 /\ poll' = poll)
      /\ UNCHANGED <<timerlist, owned, ctimer_list, events, overtaken>>
  BY DEF Tick, Running
<1>3. Running' = Running /\ (timerlist = << >> <=> Running = {})
  BY <1>1, <1>2, RunningTimers DEF Running
<1>4. \A c \in Timers : left[c] \in Int /\ left'[c] = IF c \in Running THEN left[c] - 1 ELSE left[c]
  BY <1>1, <1>2 DEF TypeOK
<1>5. TypeOK'
  <2>1. left' \in [Timers -> Int]
    BY <1>2, <1>4
  <2>2. ASSUME NEW c \in Timers
        PROVE  \E i \in Intervals \cup {0} : left'[c] \in -MaxLate .. i
    <3>1. PICK i \in Intervals \cup {0} : left[c] \in -MaxLate .. i
      BY <1>1 DEF TypeOK
    <3>2. i \in Nat /\ MaxLate \in Nat
      BY <3>1, CallbackTimersAssumption
    <3>3. left'[c] \in -MaxLate .. i
      BY <1>2, <1>4, <3>1, <3>2
    <3> QED
      BY <3>3
  <2>3. poll' \in BOOLEAN
    BY <1>1, <1>2 DEF TypeOK
  <2> QED
    BY <1>1, <1>2, <2>1, <2>2, <2>3 DEF TypeOK
<1>6. WakesInTime' /\ wake' \in Int
  <2>1. ASSUME NEW c \in Running, left'[c] > 0 PROVE wake' <= left'[c]
    <3>1. left'[c] = left[c] - 1 /\ left[c] \in Int /\ timerlist # << >>
      BY <1>1, <1>3, <1>4
    <3>2. wake <= left[c]
      BY <2>1, <3>1 DEF TimersInv, WakesInTime
    <3>3. wake' = wake - 1
      BY <1>2, <3>1
    <3> QED
      BY <1>1, <3>1, <3>2, <3>3
  <2>2. wake' \in Int
    BY <1>1, <1>2
  <2> QED
    BY <1>3, <2>1, <2>2 DEF WakesInTime
<1>7. DueIsPolled'
  <2> SUFFICES ASSUME NEW c \in Running, left'[c] <= 0 PROVE poll'
    BY <1>3 DEF DueIsPolled, Running
  <2>1. left'[c] = left[c] - 1 /\ left[c] \in Int /\ timerlist # << >>
    BY <1>1, <1>3, <1>4
  <2>2. CASE poll' = (poll \/ timerlist # << >>)
    BY <2>1, <2>2
  <2>3. CASE wake' > 0 /\ poll' = poll
    <3>1. wake > 1
      BY <1>1, <1>2, <2>1, <2>3
    <3>2. left[c] > 0 => wake <= left[c]
      BY DEF TimersInv, WakesInTime
    <3>3. left[c] <= 0
      BY <1>1, <2>1, <3>1, <3>2
    <3>4. poll
      BY <3>3 DEF TimersInv, DueIsPolled, Running
    <3> QED
      BY <2>3, <3>4
  <2> QED
    BY <1>2, <2>2, <2>3
<1>8. NoTimerLost'
  BY <1>2 DEF TimersInv, NoTimerLost
<1>9. EventsInTime'
  <2> SUFFICES ASSUME NEW c \in Timers, c \in ToSet(events), c \notin overtaken
               PROVE  left'[c] <= 0
    BY <1>2 DEF EventsInTime
  <2>1. left[c] <= 0
    BY DEF TimersInv, EventsInTime
  <2> QED
    BY <1>4, <2>1
<1> QED
  BY <1>2, <1>3, <1>5, <1>6, <1>7, <1>8, <1>9 DEF TimersInv, Distinct

-----------------------------------------------------------------------------
LEMMA InvariantHolds == Spec => []TimersInv
<1>1. Init => TimersInv
  BY InvariantAtInit
<1>2. TimersInv /\ [Next]_vars => TimersInv'
  <2> SUFFICES ASSUME TimersInv, [Next]_vars PROVE TimersInv'
    OBVIOUS
  <2>1. CASE UNCHANGED vars
    BY <2>1 DEF vars, TimersInv, TypeOK, Running, Distinct, NoTimerLost, DueIsPolled,
                EventsInTime, WakesInTime
  <2>2. CASE \E c \in Timers : \E interval \in Intervals : SetTimer(c, interval)
    BY <2>2, SetTimerPreserves
  <2>3. CASE \E c \in Timers : StopTimer(c)
    BY <2>3, StopTimerPreserves
  <2>4. CASE EtimerPoll
    BY <2>4, EtimerPollPreserves
  <2>5. CASE DeliverEvent
    BY <2>5, DeliverEventPreserves
  <2>6. CASE PostOther
    BY <2>6, PostOtherPreserves
  <2>7. CASE Tick
    BY <2>7, TickPreserves
  <2> QED
    BY <2>1, <2>2, <2>3, <2>4, <2>5, <2>6, <2>7 DEF Next
<1> QED
  BY <1>1, <1>2, PTL DEF Spec

\* The shape of the state, for any timers and queue: no poll posts more events
\* than the queue has room for.
THEOREM TimersTypeCorrect == Spec => []TypeOK
<1>1. TimersInv => TypeOK
  BY DEF TimersInv
<1> QED
  BY <1>1, InvariantHolds, PTL

\* The list of etimers never becomes circular and matches their processes.
THEOREM ListIsSound == Spec => []ListSound
<1>1. TimersInv => ListSound
  <2> SUFFICES ASSUME TimersInv PROVE ListSound
    OBVIOUS
  <2>1. timerlist \in Seq(Timers) /\ Distinct(timerlist) /\ Running = owned
    BY DEF TimersInv, TypeOK
  <2>2. Running = Members(timerlist)
    BY RunningTimers DEF TimersInv
  <2> QED
    BY <2>1, <2>2, DistinctCardinality DEF ListSound, Running
<1> QED
  BY <1>1, InvariantHolds, PTL

\* No callback timer is forgotten, however full the event queue is and in
\* whatever order timers are set, stopped and expire.
THEOREM NoTimerIsLost == Spec => []NoTimerLost
<1>1. TimersInv => NoTimerLost
  BY DEF TimersInv
<1> QED
  BY <1>1, InvariantHolds, PTL

\* The node does not sleep past the expiry of a timer.
THEOREM DueTimersArePolled == Spec => []DueIsPolled
<1>1. TimersInv => DueIsPolled
  BY DEF TimersInv
<1> QED
  BY <1>1, InvariantHolds, PTL

\* Only a timer that was set while its event was queued is called early.
THEOREM NoCallIsEarly == Spec => []NeverEarly
<1>1. TimersInv => NeverEarly
  BY DEF TimersInv, TypeOK, EventsInTime, NeverEarly
<1> QED
  BY <1>1, InvariantHolds, PTL
=============================================================================
