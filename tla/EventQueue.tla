----------------------------- MODULE EventQueue -----------------------------
(***************************************************************************)
(* The event queue of DefaultSimulatorImpl: a map of events ordered by the *)
(* pair of time stamp and uid, where uids are given out in the order of    *)
(* scheduling.  The order is all that matters of a uid, so the queue is a  *)
(* sequence in which a new event comes after all that are due no later.    *)
(* Times are relative to Now: wait is the time left until an event is due. *)
(***************************************************************************)
EXTENDS Integers, Sequences, FiniteSets

Event(wait, what) == [wait |-> wait, what |-> what]

(* MapScheduler::Insert, of an event that comes after the first n.         *)
Insert(events, n, event) ==
  SubSeq(events, 1, n) \o <<event>> \o SubSeq(events, n + 1, Len(events))

(* Seeded fault: of events due at the same time the newest comes first. *)
ScheduleFirst(events, wait, what) ==
  LET sooner == Cardinality({i \in DOMAIN events : events[i].wait < wait})
  IN  Insert(events, sooner, Event(wait, what))

(* Schedule, ScheduleWithContext and ScheduleNow.                          *)
Schedule(events, wait, what) ==
  LET notLater == Cardinality({i \in DOMAIN events : events[i].wait <= wait})
  IN  Insert(events, notLater, Event(wait, what))

(* Run processes an event when it is the first and its time has come.      *)
IsNext(events, what) == events # <<>> /\ Head(events) = Event(0, what)

(* m_currentTs moves towards the time stamp of the first event.            *)
Elapse(events) == [i \in DOMAIN events |-> [events[i] EXCEPT !.wait = @ - 1]]

(* What is scheduled, in the order in which it will run.                   *)
Agenda(events) == [i \in DOMAIN events |-> events[i].what]
=============================================================================
