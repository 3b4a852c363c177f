----------------------------- MODULE TimerHeap -----------------------------
(***************************************************************************)
(* The timers and their dispatcher (system/interrupt.h, timeout.c,         *)
(* dispatch/epoll.h).                                                      *)
(*                                                                         *)
(* Timers wait in a binary heap that interruptMutex protects, every timer  *)
(* knows its position.  The dispatcher runs the handlers of those that are *)
(* due and sleeps until the next one; it is notified when a timer becomes  *)
(* the first.  One timer is the runtime's periodic one, the others are     *)
(* timeouts that fire once and are stopped at any time.  The deadline of a *)
(* timer is 0 when it is not in the heap, as is its index, which counts    *)
(* from 1.                                                                 *)
(***************************************************************************)
EXTENDS Naturals, Sequences, FiniteSets, SequencesExt

CONSTANTS
  Timeouts,  \* timers of chiTimeoutStart
  Interval,  \* the runtime's timer
  MaxTime    \* bound on the clock

Timer == Timeouts \cup {Interval}
Periods == {1, 2}
None == "none"

VARIABLES
  clock,      \* chiClockFine
  heap,       \* timerHeap
  timers,     \* timer |-> its deadline and its index
  triggered,  \* timeouts that have fired or have been stopped
  tpc,        \* where the thread is that starts and stops a timeout
  dpc,        \* where the dispatcher is
  us,         \* the time it has read
  sleep,      \* how long it has to sleep
  alarm,      \* expiry of the timerfd
  notify      \* the eventfd has been written to

heapState == <<heap, timers, triggered>>
dispatcher == <<dpc, us, sleep, alarm>>
vars == <<clock, heapState, tpc, dispatcher, notify>>

-----------------------------------------------------------------------------
(* The heap, as a record of the sequence and the timers.                   *)
Due(s, i) == s.timers[s.heap[i]].due
Place(s, i, t) == [s EXCEPT !.heap[i] = t, !.timers[t].index = i]
TimerSwap(s, i, j) == LET a == s.heap[i]  b == s.heap[j] IN Place(Place(s, i, b), j, a)

(* A timer sinks while one below it is less, and rises while the one above *)
(* it is greater.                                                          *)
Least(s, i) ==
  LET less(j, m) == IF j <= Len(s.heap) /\ Due(s, j) < Due(s, m) THEN j ELSE m
  IN  less(2 * i + 1, less(2 * i, i))
SiftDown(s, i) ==
  LET Down[n \in Nat] ==
        IF n = 0 THEN [s |-> s, at |-> i]
        ELSE LET d == Down[n - 1]
                 min == Least(d.s, d.at)
             IN  IF min = d.at THEN d ELSE [s |-> TimerSwap(d.s, min, d.at), at |-> min]
  IN  Down[Len(s.heap)].s
TimerHeapify(s, i) == IF i > Len(s.heap) THEN s ELSE SiftDown(s, i)

SiftUp(s, i) ==
  LET Up[n \in Nat] ==
        IF n = 0 THEN [s |-> s, at |-> i]
        ELSE LET u == Up[n - 1]
                 above == u.at \div 2
             IN  IF above > 0 /\ Due(u.s, u.at) < Due(u.s, above)
                 THEN [s |-> TimerSwap(u.s, above, u.at), at |-> above] ELSE u
  IN  Up[i].s

(* Broken: the moved timer keeps the index it had.                         *)
TimerRemove_index(s, t) ==
  LET i == s.timers[t].index
      cleared == [s EXCEPT !.timers[t] = [due |-> 0, index |-> 0]]
      moved == [cleared EXCEPT !.heap[i] = Last(s.heap)]
  IN  IF i = 0 THEN s ELSE TimerHeapify([moved EXCEPT !.heap = Front(@)], i)

(* The last timer moves into the gap; it is t itself when t is the last.   *)
TimerRemove(s, t) ==
  LET i == s.timers[t].index
      cleared == [s EXCEPT !.timers[t] = [due |-> 0, index |-> 0]]
      moved == Place(cleared, i, Last(s.heap))
  IN  IF i = 0 THEN s ELSE TimerHeapify([moved EXCEPT !.heap = Front(@)], i)

TimerInsert(s, t) ==
  LET last == Len(s.heap) + 1
  IN  SiftUp(Place([s EXCEPT !.heap = Append(@, t)], last, t), last)

(* timerDispatch with timeoutHandler and timerHandler: every timer that is *)
(* due, and therefore each of them at most once; the periodic one comes    *)
(* back.                                                                   *)
TimerDispatch(s, at) ==
  LET Run[n \in Nat] ==
        IF n = 0 THEN s
        ELSE LET d == Run[n - 1]
                 t == Head(d.heap)
                 r == TimerRemove(d, t)
             IN  IF d.heap = <<>> \/ at < d.timers[t].due THEN d
                 ELSE IF t = Interval THEN TimerInsert([r EXCEPT !.timers[t].due = at + 1], t)
                 ELSE [r EXCEPT !.triggered = @ \cup {t}]
      end == Run[Cardinality(Timer)]
  IN  [end EXCEPT !.sleep = IF end.heap = <<>> THEN 0 ELSE end.timers[Head(end.heap)].due - at]

State == [heap |-> heap, timers |-> timers, triggered |-> triggered, sleep |-> 0]
Become(s) == heap' = s.heap /\ timers' = s.timers /\ triggered' = s.triggered

Init ==
  /\ clock = 0
  /\ LET idle == [t \in Timer |-> [due |-> 0, index |-> 0]]
     IN  timers = [idle EXCEPT ![Interval] = [due |-> 1, index |-> 1]]
  /\ heap = <<Interval>>
  /\ triggered = Timeouts
  /\ tpc = [t \in Timeouts |-> "idle"]
  /\ dpc = "read"
  /\ us = 0 /\ sleep = 0 /\ alarm = 0
  /\ notify = FALSE

-----------------------------------------------------------------------------
(* chiTimeoutStart, chiTimerInstall: the deadline is computed before the   *)
(* mutex is taken, the dispatcher notified after it has been released.     *)
TimeoutStart(t) ==
  /\ tpc[t] = "idle"
  /\ \E timeout \in Periods :
       timers' = [timers EXCEPT ![t] = [due |-> timeout + clock, index |-> 0]]
  /\ triggered' = triggered \ {t}
  /\ tpc' = [tpc EXCEPT ![t] = "insert"]
  /\ UNCHANGED <<clock, heap, dispatcher, notify>>

(* Broken: the dispatcher is notified only of a first timer.               *)
InstallTimer_first(t) ==
  /\ tpc[t] = "insert"
  /\ Become(TimerInsert(State, t))
  /\ tpc' = [tpc EXCEPT ![t] = IF heap = <<>> THEN "notify" ELSE "running"]
  /\ UNCHANGED <<clock, dispatcher, notify>>

InstallTimer(t) ==
  /\ tpc[t] = "insert"
  /\ Become(TimerInsert(State, t))
  /\ tpc' = [tpc EXCEPT ![t] = IF timers'[t].index = 1 THEN "notify" ELSE "running"]
  /\ UNCHANGED <<clock, dispatcher, notify>>

DispatcherNotify(t) ==
  /\ tpc[t] = "notify"
  /\ notify' = TRUE
  /\ tpc' = [tpc EXCEPT ![t] = "running"]
  /\ UNCHANGED <<clock, heapState, dispatcher>>

(* chiTimeoutStop, chiTimerRemove                                          *)
TimeoutStop(t) ==
  /\ tpc[t] = "running"
  /\ LET s == TimerRemove(State, t)
     IN  Become([s EXCEPT !.triggered = @ \cup {t}])
  /\ tpc' = [tpc EXCEPT ![t] = "idle"]
  /\ UNCHANGED <<clock, dispatcher, notify>>

-----------------------------------------------------------------------------
(* dispatcherRun; dispatchTimers reads the clock before it takes the mutex.*)
ReadClock ==
  /\ dpc = "read"
  /\ us' = clock
  /\ dpc' = "dispatch"
  /\ UNCHANGED <<clock, heapState, tpc, sleep, alarm, notify>>

DispatchTimers ==
  /\ dpc = "dispatch"
  /\ LET s == TimerDispatch(State, us) IN Become(s) /\ sleep' = s.sleep
  /\ dpc' = "arm"
  /\ UNCHANGED <<clock, tpc, us, alarm, notify>>

Arm ==
  /\ dpc = "arm"
  /\ alarm' = IF sleep = 0 THEN alarm ELSE clock + sleep
  /\ dpc' = "wait"
  /\ UNCHANGED <<clock, heapState, tpc, us, sleep, notify>>

Expired == alarm # 0 /\ alarm <= clock

Wake ==
  /\ dpc = "wait"
  /\ notify \/ Expired
  /\ notify' = FALSE
  /\ alarm' = IF Expired THEN 0 ELSE alarm
  /\ dpc' = "read"
  /\ UNCHANGED <<clock, heapState, tpc, us, sleep>>

Tick ==
  /\ clock < MaxTime
  /\ clock' = clock + 1
  /\ UNCHANGED <<heapState, tpc, dispatcher, notify>>

Next ==
  \/ \E t \in Timeouts : TimeoutStart(t) \/ InstallTimer(t) \/ DispatcherNotify(t) \/ TimeoutStop(t)
  \/ ReadClock \/ DispatchTimers \/ Arm \/ Wake \/ Tick

Spec == Init /\ [][Next]_vars

-----------------------------------------------------------------------------
(* The timers that have been installed and have neither fired nor been     *)
(* stopped.                                                                *)
Waiting == {Interval} \cup {t \in Timeouts \ triggered : tpc[t] \in {"notify", "running"}}

(* No timer is lost, fires twice or is left behind: exactly the timers     *)
(* that wait are in the heap, where their index says.                      *)
TimersQueued ==
  /\ Len(heap) = Cardinality(Waiting)
  /\ \A t \in Waiting : timers[t].index \in DOMAIN heap /\ heap[timers[t].index] = t

(* No timer but those at the given places comes behind one due later.      *)
InOrder(s, except) ==
  \A i \in DOMAIN s.heap \ ({1} \cup except) : Due(s, i \div 2) <= Due(s, i)

(* A heap of timers with these deadlines, and all heaps of at most six:    *)
(* three levels, as a timer below the second one is needed for a removal   *)
(* to put it under a timer that is due later.                              *)
Queue(due) == [heap |-> [i \in DOMAIN due |-> i], triggered |-> {}, sleep |-> 0,
               timers |-> [i \in DOMAIN due |-> [due |-> due[i], index |-> i]]]
Queues == {q \in {Queue(due) : due \in UNION {[1 .. n -> 1 .. 3] : n \in 1 .. 6}} : InOrder(q, {})}

(* The timers of q but t are those of r, and know where they are.          *)
Holds(r, q, t) ==
  /\ Len(r.heap) = Cardinality(ToSet(q.heap) \ {t}) /\ ToSet(r.heap) = ToSet(q.heap) \ {t}
  /\ \A i \in DOMAIN r.heap : r.timers[r.heap[i]].index = i

(* In any heap: a timer inserted finds its place.  A removal keeps the     *)
(* order but for the timer it moves into the gap, and this one is wrong    *)
(* there just if it is due before the timer above the gap: timerRemove     *)
(* never lets it rise (interrupt.h:65-68), so that the condition of        *)
(* timerCheck fails.  The timer at the top, which timerDispatch removes,   *)
(* leaves the heap in order.                                               *)
HeapKept ==
  \A q \in Queues :
    LET n == Len(q.heap)
    IN  /\ \A due \in 1 .. 3 :
             LET new == Queue(Append([i \in 1 .. n |-> q.timers[i].due], due))
                 r == TimerInsert([new EXCEPT !.heap = Front(@)], n + 1)
             IN  Holds(r, new, 0) /\ InOrder(r, {})
        /\ \A t \in 1 .. n :
             LET r == TimerRemove(q, t)
             IN  /\ Holds(r, q, t) /\ InOrder(r, {t})
                 /\ t \in 2 .. n - 1 =>
                      (InOrder(r, {}) <=> q.timers[t \div 2].due <= q.timers[n].due)

(* What timerCheck asserts, which does not hold of six timers.             *)
TimersInOrder == InOrder(State, {})

(* A dispatcher that sleeps wakes up for the first timer, however late a   *)
(* timer has been installed, unless its notification is on the way.  This  *)
(* is so while the heap is in order; fewer than six timers always are.     *)
WakesInTime ==
  dpc \in {"arm", "wait"} /\ ~notify /\ (\A t \in Timeouts : tpc[t] # "notify")
    => \A t \in Waiting : sleep # 0 /\ us + sleep <= timers[t].due

=============================================================================
