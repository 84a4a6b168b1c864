-------------------------- MODULE TestRunnerProofs --------------------------
(***************************************************************************)
(* Theorems about the threads of test.py, for every number of tests and of *)
(* workers, whatever they interleave and whenever the interrupt comes.     *)
(***************************************************************************)
EXTENDS TestRunner, FiniteSetTheorems, TLAPS

AnyJob == [test : 0..Tests, isBreak : BOOLEAN, isSkip : BOOLEAN, returncode : 0..Broken]

Fates == Kinds \cup {"pending", "interrupted", "lost"}

Busy == {"got", "running", "died"}

TypeInv ==
  /\ input_queue \in Seq(AnyJob) /\ output_queue \in Seq(AnyJob)
  /\ main \in {"dispatch", "collect", "done"}
  /\ jobs \in 0..Tests /\ received \in Nat
  /\ counted \in [Kinds -> Nat]
  /\ worker \in [Workers -> [at : {"get", "returned"} \cup Busy, job : AnyJob]]
  /\ happened \in [1..Tests -> Fates]

(* The tests in a queue, and that no two of its places have the same.      *)
TestsIn(q) == {q[i].test : i \in DOMAIN q} \ {0}

Unique(q) == \A i, j \in DOMAIN q : q[i].test = q[j].test /\ q[i].test # 0 => i = j

Held == {worker[w].job.test : w \in InHands}

(* Jobs keep apart: those of tests from break jobs, and tests from each    *)
(* other.                                                                  *)
JobsApart ==
  /\ Unique(input_queue)
  /\ Unique(output_queue)
  /\ \A v, w \in InHands : worker[v].job.test = worker[w].job.test => v = w
  /\ TestsIn(input_queue) \cap TestsIn(output_queue) = {}
  /\ TestsIn(input_queue) \cap Held = {}
  /\ TestsIn(output_queue) \cap Held = {}
  /\ (TestsIn(input_queue) \cup TestsIn(output_queue)) \cup Held \subseteq 1..jobs

RightJobs ==
  /\ \A i \in DOMAIN input_queue : input_queue[i].isBreak <=> input_queue[i].test = 0
  /\ \A i \in DOMAIN output_queue : output_queue[i].test # 0
  /\ \A w \in Workers :
       /\ worker[w].at \in Busy <=> worker[w].job.test # 0
       /\ worker[w].at \in {"got", "running"} => ~worker[w].job.isBreak
       /\ worker[w].at = "running" => ~worker[w].job.isSkip

PlaceInv == TypeInv /\ JobsApart /\ RightJobs

(* The tests the main thread has taken out of output_queue.                *)
Taken == (1..jobs) \ ((TestsIn(input_queue) \cup TestsIn(output_queue)) \cup Held)

Outcome(job) ==
  IF job.isBreak THEN "interrupted"
  ELSE IF job.isSkip THEN "skipped" ELSE KindOf(job.returncode)

TakenWith(k) == {t \in Taken : happened[t] = k}

(* The summary so far is that of the tests taken, and a job says what      *)
(* became of its test.                                                     *)
CountInv ==
  /\ Cardinality(Taken) = received
  /\ \A i \in DOMAIN output_queue : happened[output_queue[i].test] = Outcome(output_queue[i])
  /\ \A k \in Kinds : counted[k] = Cardinality(TakenWith(k))

(* The main thread waits for all tests and all threads.                    *)
EndInv ==
  /\ main # "dispatch" => jobs = Tests
  /\ main = "done" =>
       /\ received = jobs
       /\ \A w \in Workers : worker[w].at = "returned"
       /\ status = "success" <=> counted["passed"] + counted["skipped"] = jobs

-----------------------------------------------------------------------------
(* Queues.                                                                 *)

LEMMA QueueFacts ==
  ASSUME NEW S, NEW q \in Seq(S)
  PROVE  /\ DOMAIN q = 1 .. Len(q) /\ Len(q) \in Nat
         /\ \A i \in DOMAIN q : q[i] \in S
OBVIOUS

LEMMA AppendFacts ==
  ASSUME NEW S, NEW q \in Seq(S), NEW e \in S
  PROVE  /\ Append(q, e) \in Seq(S)
         /\ DOMAIN Append(q, e) = 1 .. Len(q) + 1
         /\ \A i \in 1 .. Len(q) : Append(q, e)[i] = q[i]
         /\ Append(q, e)[Len(q) + 1] = e
OBVIOUS

LEMMA TailFacts ==
  ASSUME NEW S, NEW q \in Seq(S), q # <<>>
  PROVE  /\ Tail(q) \in Seq(S) /\ Head(q) \in S
         /\ Head(q) = q[1] /\ 1 \in DOMAIN q
         /\ DOMAIN Tail(q) = 1 .. Len(q) - 1
         /\ \A i \in 1 .. Len(q) - 1 : Tail(q)[i] = q[i + 1]
OBVIOUS

LEMMA AppendTests ==
  ASSUME NEW q \in Seq(AnyJob), NEW e \in AnyJob
  PROVE  /\ e.test # 0 => TestsIn(Append(q, e)) = TestsIn(q) \cup {e.test}
         /\ e.test = 0 => TestsIn(Append(q, e)) = TestsIn(q)
         /\ Unique(q) /\ e.test \notin TestsIn(q) => Unique(Append(q, e))
<1> DEFINE r == Append(q, e)
<1>1. /\ DOMAIN q = 1 .. Len(q) /\ Len(q) \in Nat
      /\ DOMAIN r = 1 .. Len(q) + 1
      /\ \A i \in 1 .. Len(q) : r[i] = q[i]
      /\ r[Len(q) + 1] = e
  BY QueueFacts, AppendFacts
<1> HIDE DEF r
<1>2. DOMAIN r = (DOMAIN q) \cup {Len(q) + 1} /\ Len(q) + 1 \notin DOMAIN q
  BY <1>1
<1>3. {r[i].test : i \in DOMAIN r} = {q[i].test : i \in DOMAIN q} \cup {e.test}
  BY <1>1, <1>2
<1>4. ASSUME Unique(q), e.test \notin TestsIn(q) PROVE Unique(r)
  BY <1>1, <1>2, <1>4 DEF Unique, TestsIn
<1> QED
  BY <1>3, <1>4 DEF TestsIn, r

LEMMA TailTests ==
  ASSUME NEW q \in Seq(AnyJob), q # <<>>, Unique(q)
  PROVE  /\ TestsIn(Tail(q)) = TestsIn(q) \ {Head(q).test}
         /\ Head(q).test # 0 => Head(q).test \in TestsIn(q)
         /\ Unique(Tail(q))
<1> DEFINE r == Tail(q)
           h == Head(q)
<1>1. /\ DOMAIN q = 1 .. Len(q) /\ Len(q) \in Nat
      /\ h = q[1] /\ 1 \in DOMAIN q
      /\ DOMAIN r = 1 .. Len(q) - 1
      /\ \A i \in 1 .. Len(q) - 1 : r[i] = q[i + 1]
  BY QueueFacts, TailFacts
<1> HIDE DEF r, h
<1>2. \A i \in DOMAIN r : i + 1 \in DOMAIN q /\ i + 1 # 1 /\ r[i] = q[i + 1]
  BY <1>1
<1>3. \A j \in DOMAIN q : j = 1 \/ (j - 1 \in DOMAIN r /\ q[j] = r[j - 1])
  BY <1>1
<1>4. Unique(r)
  <2>1. \A i, j \in DOMAIN r : i + 1 = j + 1 => i = j
    BY <1>1
  <2> QED
    BY <1>2, <2>1 DEF Unique
<1>5. TestsIn(r) \subseteq TestsIn(q) \ {h.test}
  BY <1>1, <1>2 DEF TestsIn, Unique
<1>6. TestsIn(q) \ {h.test} \subseteq TestsIn(r)
  BY <1>1, <1>3 DEF TestsIn
<1> QED
  BY <1>1, <1>4, <1>5, <1>6 DEF TestsIn, r, h

-----------------------------------------------------------------------------
(* Workers.                                                                *)

OneWorkerEach == \A v, w \in InHands : worker[v].job.test = worker[w].job.test => v = w

WorkerStates == [at : {"get", "returned"} \cup Busy, job : AnyJob]

(* A worker takes up a test that no other has.                             *)
LEMMA TakesUp ==
  ASSUME NEW w \in Workers, NEW s \in WorkerStates,
         worker \in [Workers -> WorkerStates],
         worker' = [worker EXCEPT ![w] = s],
         worker[w].job.test = 0, s.job.test # 0, s.job.test \notin Held,
         OneWorkerEach
  PROVE  Held' = Held \cup {s.job.test} /\ OneWorkerEach'
<1>1. /\ worker'[w] = s
      /\ \A v \in Workers \ {w} : worker'[v] = worker[v]
  OBVIOUS
<1>2. InHands' = InHands \cup {w} /\ w \notin InHands /\ InHands \subseteq Workers
  BY <1>1 DEF InHands
<1>3. \A v \in InHands : worker'[v] = worker[v]
  BY <1>1, <1>2
<1>4. Held' = {worker'[v].job.test : v \in InHands \cup {w}}
  BY <1>2 DEF Held
<1>5. Held' = Held \cup {s.job.test}
  <2>1. \A v \in InHands : worker'[v].job.test \in Held
    BY <1>3 DEF Held
  <2>2. \A v \in InHands : worker[v].job.test \in Held'
    BY <1>3, <1>4
  <2>3. worker'[w].job.test = s.job.test /\ s.job.test \in Held'
    BY <1>1, <1>4
  <2>4. Held' \subseteq Held \cup {s.job.test}
    BY <1>4, <2>1, <2>3
  <2>5. Held \subseteq Held'
    BY <2>2 DEF Held
  <2> QED
    BY <2>3, <2>4, <2>5
<1>6. OneWorkerEach'
  BY <1>1, <1>2, <1>3 DEF OneWorkerEach, Held
<1> QED
  BY <1>5, <1>6

(* A worker parts with its test.                                           *)
LEMMA PartsWith ==
  ASSUME NEW w \in Workers, NEW s \in WorkerStates,
         worker \in [Workers -> WorkerStates],
         worker' = [worker EXCEPT ![w] = s],
         s.job.test = 0, OneWorkerEach
  PROVE  Held' = Held \ {worker[w].job.test} /\ OneWorkerEach'
<1>1. /\ worker'[w] = s
      /\ \A v \in Workers \ {w} : worker'[v] = worker[v]
  OBVIOUS
<1>2. InHands' = InHands \ {w} /\ InHands \subseteq Workers
  BY <1>1 DEF InHands
<1>3. \A v \in InHands' : worker'[v] = worker[v] /\ v \in InHands /\ v # w
  BY <1>1, <1>2
<1>4. OneWorkerEach'
  BY <1>3 DEF OneWorkerEach
<1>5. Held' \subseteq Held \ {worker[w].job.test}
  <2> SUFFICES ASSUME NEW v \in InHands'
               PROVE  worker'[v].job.test \in Held \ {worker[w].job.test}
    BY DEF Held
  <2>1. w \in InHands => worker[v].job.test # worker[w].job.test
    BY <1>3 DEF OneWorkerEach
  <2>2. w \notin InHands => worker[v].job.test # worker[w].job.test
    BY <1>3 DEF InHands
  <2> QED
    BY <1>3, <2>1, <2>2 DEF Held
<1>6. Held \ {worker[w].job.test} \subseteq Held'
  <2> SUFFICES ASSUME NEW v \in InHands, worker[v].job.test # worker[w].job.test
               PROVE  worker[v].job.test \in Held'
    BY DEF Held
  <2>1. v \in InHands' /\ worker'[v] = worker[v]
    BY <1>1, <1>2
  <2> QED
    BY <2>1 DEF Held
<1> QED
  BY <1>4, <1>5, <1>6

(* A worker goes on with the job it has.                                   *)
LEMMA KeepsJob ==
  ASSUME NEW w \in Workers, NEW a,
         worker \in [Workers -> WorkerStates],
         worker' = [worker EXCEPT ![w].at = a]
  PROVE  /\ \A v \in Workers : worker'[v].job = worker[v].job
         /\ InHands' = InHands /\ Held' = Held
         /\ OneWorkerEach => OneWorkerEach'
<1>1. \A v \in Workers : worker'[v].job = worker[v].job
  BY DEF WorkerStates
<1>2. InHands' = InHands /\ InHands \subseteq Workers
  BY <1>1 DEF InHands
<1> QED
  BY <1>1, <1>2 DEF Held, OneWorkerEach

-----------------------------------------------------------------------------
(* What a step does to the tests in the three places.                      *)

Moves ==
  \/ /\ TestsIn(input_queue)' = TestsIn(input_queue) \cup {jobs + 1}
     /\ UNCHANGED <<output_queue, Held>> /\ jobs' = jobs + 1
  \/ \E t \in TestsIn(input_queue) :
       /\ TestsIn(input_queue)' = TestsIn(input_queue) \ {t}
       /\ Held' = Held \cup {t} /\ UNCHANGED <<output_queue, jobs>>
  \/ \E t \in Held :
       /\ Held' = Held \ {t}
       /\ TestsIn(output_queue)' = TestsIn(output_queue) \cup {t}
       /\ UNCHANGED <<TestsIn(input_queue), jobs>>
  \/ /\ TestsIn(output_queue)' = TestsIn(output_queue) \ {Head(output_queue).test}
     /\ UNCHANGED <<TestsIn(input_queue), Held, jobs>>
  \/ UNCHANGED <<TestsIn(input_queue), TestsIn(output_queue), Held, jobs>>

LEMMA MovesKeepApart ==
  ASSUME PlaceInv, Moves
  PROVE  /\ TestsIn(input_queue)' \cap TestsIn(output_queue)' = {}
         /\ TestsIn(input_queue)' \cap Held' = {}
         /\ TestsIn(output_queue)' \cap Held' = {}
         /\ (TestsIn(input_queue)' \cup TestsIn(output_queue)') \cup Held' \subseteq 1..jobs'
<1> DEFINE I == TestsIn(input_queue)
           O == TestsIn(output_queue)
<1>1. /\ I \cap O = {} /\ I \cap Held = {} /\ O \cap Held = {}
      /\ \A t \in I \cup O \cup Held : t \in 1..jobs
      /\ jobs \in Nat
  BY DEF PlaceInv, JobsApart, TypeInv
<1>2. /\ \A t \in 1..jobs : t # jobs + 1 /\ t \in 1..jobs + 1
      /\ jobs + 1 \in 1..jobs + 1
  BY <1>1
<1>3. UNCHANGED output_queue => UNCHANGED O
  BY DEF TestsIn
<1> HIDE DEF I, O
<1> SUFFICES /\ I' \cap O' = {} /\ I' \cap Held' = {} /\ O' \cap Held' = {}
             /\ (I' \cup O') \cup Held' \subseteq 1..jobs'
  BY DEF I, O
<1>4. \/ I' = I \cup {jobs + 1} /\ UNCHANGED <<O, Held>> /\ jobs' = jobs + 1
      \/ \E t \in I : I' = I \ {t} /\ Held' = Held \cup {t} /\ UNCHANGED <<O, jobs>>
      \/ \E t \in Held : Held' = Held \ {t} /\ O' = O \cup {t} /\ UNCHANGED <<I, jobs>>
      \/ O' = O \ {Head(output_queue).test} /\ UNCHANGED <<I, Held, jobs>>
      \/ UNCHANGED <<I, O, Held, jobs>>
  BY <1>3 DEF Moves, I, O
<1> QED
  BY <1>1, <1>2, <1>4

-----------------------------------------------------------------------------
(* The places of the tests, action by action.                              *)

LEMMA PlacesAfterMoves ==
  ASSUME PlaceInv, Moves, TypeInv', RightJobs',
         Unique(input_queue)', Unique(output_queue)', OneWorkerEach'
  PROVE  PlaceInv'
BY MovesKeepApart DEF PlaceInv, JobsApart, OneWorkerEach

LEMMA PlaceFacts ==
  ASSUME PlaceInv
  PROVE  /\ TypeInv /\ RightJobs /\ OneWorkerEach
         /\ Unique(input_queue) /\ Unique(output_queue)
         /\ worker \in [Workers -> WorkerStates]
         /\ \A t \in TestsIn(input_queue) : t \in 1..jobs /\ t \notin Held /\ t \notin TestsIn(output_queue)
         /\ \A t \in Held : t \in 1..jobs /\ t \notin TestsIn(output_queue)
         /\ jobs \in Nat /\ jobs <= Tests
<1>1. jobs \in Nat /\ jobs <= Tests
  BY TestRunnerAssumption DEF PlaceInv, TypeInv
<1> QED
  BY <1>1 DEF PlaceInv, JobsApart, TypeInv, OneWorkerEach, WorkerStates

LEMMA HeldUnchanged ==
  ASSUME UNCHANGED worker
  PROVE  UNCHANGED Held /\ (OneWorkerEach => OneWorkerEach')
BY DEF Held, InHands, OneWorkerEach

LEMMA DispatchPlaces ==
  ASSUME PlaceInv, Dispatch
  PROVE  PlaceInv' /\ UNCHANGED <<output_queue, Held>> /\ jobs' = jobs + 1
         /\ TestsIn(input_queue)' = TestsIn(input_queue) \cup {jobs + 1}
<1>1. PICK skip \in BOOLEAN : input_queue' = Append(input_queue, Job(jobs + 1, skip))
  BY DEF Dispatch
<1> DEFINE job == Job(jobs + 1, skip)
<1>2. /\ TypeInv /\ RightJobs /\ UNCHANGED <<output_queue, worker>>
      /\ input_queue \in Seq(AnyJob) /\ Unique(input_queue)
  BY PlaceFacts DEF Dispatch, TypeInv
<1>3. /\ jobs + 1 \in 1..Tests /\ jobs + 1 \notin TestsIn(input_queue)
  BY PlaceFacts, TestRunnerAssumption DEF Dispatch
<1>4. job \in AnyJob /\ job.test = jobs + 1 /\ job.test # 0 /\ ~job.isBreak
  BY <1>3 DEF Job, AnyJob, Broken
<1> HIDE DEF job
<1>5. input_queue' = Append(input_queue, job)
  BY <1>1 DEF job
<1>6. /\ TestsIn(input_queue)' = TestsIn(input_queue) \cup {jobs + 1}
      /\ Unique(input_queue)'
  BY <1>2, <1>3, <1>4, <1>5, AppendTests DEF TestsIn, Unique
<1>7. /\ input_queue' \in Seq(AnyJob)
      /\ DOMAIN input_queue' = 1 .. Len(input_queue) + 1
      /\ DOMAIN input_queue = 1 .. Len(input_queue) /\ Len(input_queue) \in Nat
      /\ \A i \in 1 .. Len(input_queue) : input_queue'[i] = input_queue[i]
      /\ input_queue'[Len(input_queue) + 1] = job
  BY <1>2, <1>4, <1>5, AppendFacts, QueueFacts
<1>8. \A i \in DOMAIN input_queue' : i \in DOMAIN input_queue \/ i = Len(input_queue) + 1
  BY <1>7
<1>9. RightJobs'
  BY <1>2, <1>4, <1>7, <1>8 DEF RightJobs
<1>10. TypeInv'
  BY <1>2, <1>3, <1>7 DEF TypeInv, Dispatch
<1>11. UNCHANGED Held /\ OneWorkerEach' /\ Unique(output_queue)' /\ jobs' = jobs + 1
  BY <1>2, PlaceFacts, HeldUnchanged DEF Dispatch, Unique
<1>12. Moves
  BY <1>2, <1>6, <1>11 DEF Moves
<1> QED
  BY <1>2, <1>6, <1>9, <1>10, <1>11, <1>12, PlacesAfterMoves

LEMMA DispatchBreakPlaces ==
  ASSUME PlaceInv, DispatchBreak
  PROVE  PlaceInv' /\ UNCHANGED <<output_queue, Held, jobs, TestsIn(input_queue)>>
<1> DEFINE job == BreakJob
<1>2. /\ TypeInv /\ RightJobs /\ UNCHANGED <<output_queue, worker, jobs>>
      /\ input_queue \in Seq(AnyJob) /\ Unique(input_queue)
  BY PlaceFacts DEF DispatchBreak, TypeInv
<1>4. job \in AnyJob /\ job.test = 0 /\ job.isBreak
  BY TestRunnerAssumption DEF BreakJob, AnyJob, Broken
<1> HIDE DEF job
<1>5. input_queue' = Append(input_queue, job)
  BY DEF DispatchBreak, job
<1>6. UNCHANGED TestsIn(input_queue) /\ Unique(input_queue)'
  <2>1. 0 \notin TestsIn(input_queue)
    BY DEF TestsIn
  <2> QED
    BY <1>2, <1>4, <1>5, <2>1, AppendTests DEF TestsIn, Unique
<1>7. /\ input_queue' \in Seq(AnyJob)
      /\ DOMAIN input_queue' = 1 .. Len(input_queue) + 1
      /\ DOMAIN input_queue = 1 .. Len(input_queue) /\ Len(input_queue) \in Nat
      /\ \A i \in 1 .. Len(input_queue) : input_queue'[i] = input_queue[i]
      /\ input_queue'[Len(input_queue) + 1] = job
  BY <1>2, <1>4, <1>5, AppendFacts, QueueFacts
<1>8. \A i \in DOMAIN input_queue' : i \in DOMAIN input_queue \/ i = Len(input_queue) + 1
  BY <1>7
<1>9. RightJobs'
  BY <1>2, <1>4, <1>7, <1>8 DEF RightJobs
<1>10. TypeInv'
  BY <1>2, <1>7 DEF TypeInv, DispatchBreak
<1>11. UNCHANGED Held /\ OneWorkerEach' /\ Unique(output_queue)'
  BY <1>2, PlaceFacts, HeldUnchanged DEF Unique
<1>12. Moves
  BY <1>2, <1>6, <1>11 DEF Moves, TestsIn
<1> QED
  BY <1>2, <1>6, <1>9, <1>10, <1>11, <1>12, PlacesAfterMoves

LEMMA CountedType ==
  ASSUME TypeInv, NEW job \in AnyJob
  PROVE  Counted(job) \in [Kinds -> Nat]
<1>1. \A c \in [Kinds -> Nat], k \in Kinds : [c EXCEPT ![k] = @ + 1] \in [Kinds -> Nat]
  OBVIOUS
<1>2. "skipped" \in Kinds /\ KindOf(job.returncode) \in Kinds
  BY DEF Kinds, KindOf
<1> QED
  BY <1>1, <1>2 DEF TypeInv, Counted

LEMMA CollectPlaces ==
  ASSUME PlaceInv, Collect
  PROVE  /\ PlaceInv' /\ UNCHANGED <<input_queue, Held, jobs, happened>>
         /\ Head(output_queue).test \in TestsIn(output_queue)
         /\ TestsIn(output_queue)' = TestsIn(output_queue) \ {Head(output_queue).test}
<1>1. /\ TypeInv /\ RightJobs /\ UNCHANGED <<input_queue, worker, jobs, happened>>
      /\ output_queue \in Seq(AnyJob) /\ Unique(output_queue)
      /\ output_queue # <<>> /\ output_queue' = Tail(output_queue)
      /\ received \in Nat
  BY PlaceFacts DEF Collect, TypeInv
<1>2. /\ output_queue' \in Seq(AnyJob) /\ Head(output_queue) \in AnyJob
      /\ 1 \in DOMAIN output_queue /\ Head(output_queue) = output_queue[1]
      /\ DOMAIN output_queue' = 1 .. Len(output_queue) - 1
      /\ DOMAIN output_queue = 1 .. Len(output_queue) /\ Len(output_queue) \in Nat
      /\ \A i \in 1 .. Len(output_queue) - 1 : output_queue'[i] = output_queue[i + 1]
  BY <1>1, TailFacts, QueueFacts
<1>3. \A i \in DOMAIN output_queue' :
         i + 1 \in DOMAIN output_queue /\ output_queue'[i] = output_queue[i + 1]
  BY <1>2
<1>4. Head(output_queue).test # 0
  BY <1>1, <1>2 DEF RightJobs
<1>5. /\ Head(output_queue).test \in TestsIn(output_queue)
      /\ TestsIn(output_queue)' = TestsIn(output_queue) \ {Head(output_queue).test}
      /\ Unique(output_queue)'
  <2>1. /\ TestsIn(Tail(output_queue)) = TestsIn(output_queue) \ {Head(output_queue).test}
        /\ Head(output_queue).test \in TestsIn(output_queue)
        /\ Unique(Tail(output_queue))
    BY <1>1, <1>4, TailTests
  <2>2. TestsIn(output_queue)' = TestsIn(Tail(output_queue))
    BY <1>1 DEF TestsIn
  <2>3. Unique(output_queue)'
    BY <1>1, <2>1 DEF Unique
  <2> QED
    BY <2>1, <2>2, <2>3
<1>6. RightJobs'
  BY <1>1, <1>3 DEF RightJobs
<1>7. TypeInv'
  BY <1>1, <1>2, CountedType DEF TypeInv, Collect
<1>8. UNCHANGED Held /\ OneWorkerEach' /\ Unique(input_queue)' /\ UNCHANGED TestsIn(input_queue)
  BY <1>1, PlaceFacts, HeldUnchanged DEF Unique, TestsIn
<1>9. Moves
  BY <1>1, <1>5, <1>8 DEF Moves
<1> QED
  BY <1>1, <1>5, <1>6, <1>7, <1>8, <1>9, PlacesAfterMoves

LEMMA GetPlaces ==
  ASSUME PlaceInv, NEW w \in Workers, Get(w)
  PROVE  /\ PlaceInv' /\ UNCHANGED <<output_queue, jobs, happened>>
         /\ \/ /\ UNCHANGED <<TestsIn(input_queue), Held>>
            \/ \E t \in TestsIn(input_queue) :
                 /\ TestsIn(input_queue)' = TestsIn(input_queue) \ {t}
                 /\ Held' = Held \cup {t}
<1> DEFINE job == Head(input_queue)
           s == IF job.isBreak THEN [at |-> "returned", job |-> NoJob]
                               ELSE [at |-> "got", job |-> job]
<1>1. /\ TypeInv /\ RightJobs /\ UNCHANGED <<output_queue, jobs, happened, mainVars>>
      /\ worker[w].at = "get" /\ worker[w].job.test = 0
      /\ input_queue \in Seq(AnyJob) /\ Unique(input_queue)
      /\ input_queue # <<>> /\ input_queue' = Tail(input_queue)
      /\ worker \in [Workers -> WorkerStates] /\ OneWorkerEach
      /\ worker' = [worker EXCEPT ![w] = s]
  BY PlaceFacts DEF Get, TypeInv, RightJobs, Busy, mainVars
<1>2. /\ input_queue' \in Seq(AnyJob) /\ job \in AnyJob
      /\ 1 \in DOMAIN input_queue /\ job = input_queue[1]
      /\ DOMAIN input_queue' = 1 .. Len(input_queue) - 1
      /\ DOMAIN input_queue = 1 .. Len(input_queue) /\ Len(input_queue) \in Nat
      /\ \A i \in 1 .. Len(input_queue) - 1 : input_queue'[i] = input_queue[i + 1]
  BY <1>1, TailFacts, QueueFacts
<1>3. \A i \in DOMAIN input_queue' :
         i + 1 \in DOMAIN input_queue /\ input_queue'[i] = input_queue[i + 1]
  BY <1>2
<1>4. /\ TestsIn(input_queue)' = TestsIn(input_queue) \ {job.test}
      /\ job.test # 0 => job.test \in TestsIn(input_queue)
      /\ Unique(input_queue)'
  <2>1. /\ TestsIn(Tail(input_queue)) = TestsIn(input_queue) \ {job.test}
        /\ job.test # 0 => job.test \in TestsIn(input_queue)
        /\ Unique(Tail(input_queue))
    BY <1>1, TailTests
  <2>2. TestsIn(input_queue)' = TestsIn(Tail(input_queue))
    BY <1>1 DEF TestsIn
  <2>3. Unique(input_queue)'
    BY <1>1, <2>1 DEF Unique
  <2> QED
    BY <2>1, <2>2, <2>3
<1>5. job.isBreak <=> job.test = 0
  BY <1>1, <1>2 DEF RightJobs
<1> HIDE DEF job
<1>6. /\ s \in WorkerStates
      /\ s.job.test = job.test
      /\ s.at \in Busy <=> s.job.test # 0
      /\ s.at \in {"got", "running"} => ~s.job.isBreak
      /\ s.at # "running"
  <2>1. CASE job.isBreak
    BY <1>5, <2>1, TestRunnerAssumption DEF NoJob, BreakJob, WorkerStates, AnyJob, Busy, Broken
  <2>2. CASE ~job.isBreak
    BY <1>2, <1>5, <2>2 DEF WorkerStates, Busy
  <2> QED
    BY <2>1, <2>2
<1> HIDE DEF s
<1>7. /\ worker'[w] = s /\ \A v \in Workers \ {w} : worker'[v] = worker[v]
      /\ worker' \in [Workers -> WorkerStates]
  BY <1>1, <1>6
<1>8. RightJobs'
  BY <1>1, <1>3, <1>6, <1>7 DEF RightJobs
<1>9. TypeInv'
  BY <1>1, <1>2, <1>7 DEF TypeInv, WorkerStates, mainVars
<1>10. CASE job.test = 0
  <2>1. Held' = Held /\ OneWorkerEach'
    <3>1. Held' = Held \ {worker[w].job.test} /\ OneWorkerEach'
      BY <1>1, <1>6, <1>10, PartsWith
    <3>2. worker[w].job.test \notin Held
      BY <1>1 DEF Held, InHands
    <3> QED
      BY <3>1, <3>2
  <2>2. UNCHANGED TestsIn(input_queue)
    BY <1>4, <1>10 DEF TestsIn
  <2>3. Moves
    BY <1>1, <2>1, <2>2 DEF Moves, TestsIn
  <2>4. Unique(output_queue)'
    BY <1>1, PlaceFacts DEF Unique
  <2> QED
    BY <1>1, <1>4, <1>8, <1>9, <2>1, <2>2, <2>3, <2>4, PlacesAfterMoves
<1>11. CASE job.test # 0
  <2>1. Held' = Held \cup {job.test} /\ OneWorkerEach'
    BY <1>1, <1>4, <1>6, <1>11, PlaceFacts, TakesUp
  <2>2. \E t \in TestsIn(input_queue) :
          /\ TestsIn(input_queue)' = TestsIn(input_queue) \ {t}
          /\ Held' = Held \cup {t}
    BY <1>4, <1>11, <2>1
  <2>3. Moves
    BY <1>1, <2>2 DEF Moves
  <2>4. Unique(output_queue)'
    BY <1>1, PlaceFacts DEF Unique
  <2> QED
    BY <1>1, <1>4, <1>8, <1>9, <2>1, <2>2, <2>3, <2>4, PlacesAfterMoves
<1> QED
  BY <1>10, <1>11

LEMMA PutPlaces ==
  ASSUME PlaceInv, NEW w \in Workers, NEW job \in AnyJob, NEW what \in Fates,
         worker[w].at \in {"got", "running"}, job.test = worker[w].job.test,
         Put(w, job, what)
  PROVE  /\ PlaceInv' /\ UNCHANGED <<TestsIn(input_queue), jobs>>
         /\ job.test \in Held /\ Held' = Held \ {job.test}
         /\ TestsIn(output_queue)' = TestsIn(output_queue) \cup {job.test}
<1> DEFINE s == [at |-> "get", job |-> NoJob]
<1>1. /\ TypeInv /\ RightJobs /\ UNCHANGED <<input_queue, jobs, mainVars>>
      /\ output_queue \in Seq(AnyJob) /\ Unique(output_queue)
      /\ output_queue' = Append(output_queue, job)
      /\ worker \in [Workers -> WorkerStates] /\ OneWorkerEach
      /\ worker' = [worker EXCEPT ![w] = s]
      /\ happened' = [happened EXCEPT ![job.test] = what]
  BY PlaceFacts DEF Put, TypeInv, mainVars
<1>2. job.test # 0 /\ job.test \in Held /\ job.test \notin TestsIn(output_queue)
  <2>1. worker[w].job.test # 0
    BY <1>1 DEF RightJobs, Busy
  <2>2. worker[w].job.test \in Held
    BY <2>1 DEF Held, InHands
  <2> QED
    BY <2>1, <2>2, PlaceFacts
<1>3. /\ output_queue' \in Seq(AnyJob)
      /\ DOMAIN output_queue' = 1 .. Len(output_queue) + 1
      /\ DOMAIN output_queue = 1 .. Len(output_queue) /\ Len(output_queue) \in Nat
      /\ \A i \in 1 .. Len(output_queue) : output_queue'[i] = output_queue[i]
      /\ output_queue'[Len(output_queue) + 1] = job
  BY <1>1, AppendFacts, QueueFacts
<1>4. \A i \in DOMAIN output_queue' : i \in DOMAIN output_queue \/ i = Len(output_queue) + 1
  BY <1>3
<1>5. /\ TestsIn(output_queue)' = TestsIn(output_queue) \cup {job.test}
      /\ Unique(output_queue)'
  <2>1. /\ TestsIn(Append(output_queue, job)) = TestsIn(output_queue) \cup {job.test}
        /\ Unique(Append(output_queue, job))
    BY <1>1, <1>2, AppendTests
  <2>2. TestsIn(output_queue)' = TestsIn(Append(output_queue, job))
    BY <1>1 DEF TestsIn
  <2>3. Unique(output_queue)'
    BY <1>1, <2>1 DEF Unique
  <2> QED
    BY <2>1, <2>2, <2>3
<1>6. s \in WorkerStates /\ s.job.test = 0 /\ s.at \notin Busy
  BY TestRunnerAssumption DEF NoJob, BreakJob, WorkerStates, AnyJob, Busy, Broken
<1> HIDE DEF s
<1>7. /\ worker'[w] = s /\ \A v \in Workers \ {w} : worker'[v] = worker[v]
      /\ worker' \in [Workers -> WorkerStates]
  BY <1>1, <1>6
<1>8. RightJobs'
  BY <1>1, <1>2, <1>3, <1>4, <1>6, <1>7 DEF RightJobs, Busy
<1>9. TypeInv'
  BY <1>1, <1>3, <1>7 DEF TypeInv, WorkerStates, mainVars
<1>10. Held' = Held \ {job.test} /\ OneWorkerEach'
  BY <1>1, <1>6, PartsWith
<1>11. UNCHANGED TestsIn(input_queue) /\ Unique(input_queue)'
  BY <1>1, PlaceFacts DEF TestsIn, Unique
<1>12. Moves
  BY <1>1, <1>2, <1>5, <1>10, <1>11 DEF Moves
<1> QED
  BY <1>1, <1>2, <1>5, <1>8, <1>9, <1>10, <1>11, <1>12, PlacesAfterMoves

(* The three steps that put a job, with the fate the job tells.            *)
PutsOutcome(w) ==
  \E job \in AnyJob :
    /\ worker[w].at \in {"got", "running"} /\ job.test = worker[w].job.test
    /\ Put(w, job, Outcome(job))

LEMMA PuttingSteps ==
  ASSUME PlaceInv, NEW w \in Workers, GiveBack(w) \/ Skip(w) \/ Finish(w)
  PROVE  PutsOutcome(w)
<1> DEFINE job == worker[w].job
<1>1. /\ job \in AnyJob
      /\ worker[w].at \in {"got", "running"} => ~job.isBreak
      /\ worker[w].at = "running" => ~job.isSkip
  BY DEF PlaceInv, TypeInv, RightJobs
<1>2. CASE GiveBack(w)
  <2> DEFINE back == [job EXCEPT !.isBreak = TRUE]
  <2>1. back \in AnyJob /\ back.test = job.test /\ back.isBreak
    BY <1>1 DEF AnyJob
  <2>2. Outcome(back) = "interrupted"
    BY <2>1 DEF Outcome
  <2>3. worker[w].at = "got" /\ Put(w, back, "interrupted")
    BY <1>2 DEF GiveBack
  <2> HIDE DEF back
  <2> QED
    BY <2>1, <2>2, <2>3 DEF PutsOutcome
<1>3. CASE Skip(w)
  <2>1. worker[w].at = "got" /\ job.isSkip /\ Put(w, job, "skipped")
    BY <1>3 DEF Skip
  <2>2. Outcome(job) = "skipped"
    BY <1>1, <2>1 DEF Outcome
  <2> HIDE DEF job
  <2> QED
    BY <1>1, <2>1, <2>2 DEF PutsOutcome, job
<1>4. CASE Finish(w)
  <2>1. PICK code \in 0..Broken : Put(w, [job EXCEPT !.returncode = code], KindOf(code))
    BY <1>4 DEF Finish
  <2> DEFINE done == [job EXCEPT !.returncode = code]
  <2>2. /\ done \in AnyJob /\ done.test = job.test /\ done.returncode = code
        /\ done.isBreak = job.isBreak /\ done.isSkip = job.isSkip
    BY <1>1 DEF AnyJob
  <2>3. worker[w].at = "running"
    BY <1>4 DEF Finish
  <2>4. Put(w, done, KindOf(code))
    BY <2>1
  <2> HIDE DEF done
  <2>5. Outcome(done) = KindOf(code)
    BY <1>1, <2>2, <2>3 DEF Outcome
  <2> QED
    BY <2>2, <2>3, <2>4, <2>5 DEF PutsOutcome
<1> QED
  BY <1>2, <1>3, <1>4

LEMMA OutcomeIsFate ==
  ASSUME NEW job
  PROVE  Outcome(job) \in Kinds \cup {"interrupted"}
BY DEF Outcome, KindOf, Kinds

(* A worker that launches its test or dies with it.                        *)
LEMMA KeptPlaces ==
  ASSUME PlaceInv, NEW w \in Workers, Launch(w) \/ Raise(w)
  PROVE  PlaceInv' /\ UNCHANGED <<input_queue, output_queue, Held, jobs>>
<1>1. PICK a \in {"running", "died"} :
        /\ worker' = [worker EXCEPT ![w].at = a]
        /\ worker[w].at \in {"got", "running"}
        /\ a = "running" => ~worker[w].job.isSkip
  BY DEF Launch, Raise
<1>2. /\ TypeInv /\ RightJobs /\ UNCHANGED <<input_queue, output_queue, jobs, mainVars>>
      /\ worker \in [Workers -> WorkerStates] /\ OneWorkerEach
  BY PlaceFacts DEF Launch, Raise, mainVars
<1>3. /\ \A v \in Workers : worker'[v].job = worker[v].job
      /\ UNCHANGED Held /\ OneWorkerEach'
  BY <1>1, <1>2, KeepsJob
<1>4. /\ worker'[w].at = a
      /\ \A v \in Workers \ {w} : worker'[v] = worker[v]
      /\ worker' \in [Workers -> WorkerStates]
  BY <1>1, <1>2 DEF WorkerStates, Busy
<1>5. RightJobs'
  BY <1>1, <1>2, <1>3, <1>4 DEF RightJobs, Busy
<1>6. happened' \in [1..Tests -> Fates]
  <2>1. \A t : [happened EXCEPT ![t] = "lost"] \in [1..Tests -> Fates]
    BY <1>2 DEF TypeInv, Fates
  <2> QED
    BY <1>2, <2>1 DEF TypeInv, Launch, Raise
<1>7. TypeInv'
  BY <1>2, <1>4, <1>6 DEF TypeInv, WorkerStates, mainVars
<1>8. Unique(input_queue)' /\ Unique(output_queue)' /\ Moves
  BY <1>2, <1>3, PlaceFacts DEF Unique, Moves, TestsIn
<1> QED
  BY <1>2, <1>3, <1>5, <1>7, <1>8, PlacesAfterMoves

LEMMA StillPlaces ==
  ASSUME PlaceInv, JoinAndSumUp \/ sigint_hook \/ UNCHANGED vars
  PROVE  PlaceInv' /\ UNCHANGED <<input_queue, output_queue, Held, jobs, happened>>
<1>1. /\ TypeInv /\ RightJobs /\ OneWorkerEach
      /\ UNCHANGED <<input_queue, output_queue, worker, jobs, happened, counted, received>>
      /\ main' \in {main, "done"}
  BY PlaceFacts DEF JoinAndSumUp, sigint_hook, vars, mainVars
<1>2. TypeInv' /\ RightJobs'
  BY <1>1 DEF TypeInv, RightJobs
<1>3. UNCHANGED Held /\ OneWorkerEach'
  BY <1>1, HeldUnchanged
<1>4. Unique(input_queue)' /\ Unique(output_queue)' /\ Moves
  BY <1>1, <1>3, PlaceFacts DEF Unique, Moves, TestsIn
<1> QED
  BY <1>1, <1>2, <1>3, <1>4, PlacesAfterMoves

LEMMA InitPlaces == Init => PlaceInv
<1> SUFFICES ASSUME Init PROVE PlaceInv
  OBVIOUS
<1>1. NoJob \in AnyJob /\ NoJob.test = 0
  BY TestRunnerAssumption DEF NoJob, BreakJob, AnyJob, Broken
<1>2. \A w \in Workers : worker[w] = [at |-> "get", job |-> NoJob]
  BY DEF Init
<1>3. InHands = {} /\ Held = {}
  BY <1>1, <1>2 DEF InHands, Held
<1>4. TestsIn(input_queue) = {} /\ TestsIn(output_queue) = {}
  BY DEF Init, TestsIn
<1>5. TypeInv
  <2>1. worker \in [Workers -> [at : {"get", "returned"} \cup Busy, job : AnyJob]]
    BY <1>1 DEF Init
  <2>2. counted \in [Kinds -> Nat] /\ happened \in [1..Tests -> Fates]
    BY DEF Init, Fates
  <2> QED
    BY <2>1, <2>2, TestRunnerAssumption DEF Init, TypeInv
<1>6. JobsApart
  BY <1>3, <1>4 DEF Init, JobsApart, Unique
<1>7. RightJobs
  BY <1>1, <1>2 DEF Init, RightJobs, Busy
<1> QED
  BY <1>5, <1>6, <1>7 DEF PlaceInv

LEMMA StepPlaces == PlaceInv /\ [Next]_vars => PlaceInv'
<1> SUFFICES ASSUME PlaceInv, [Next]_vars PROVE PlaceInv'
  OBVIOUS
<1>1. ASSUME NEW w \in Workers, PutsOutcome(w) PROVE PlaceInv'
  BY <1>1, OutcomeIsFate, PutPlaces DEF PutsOutcome, Fates
<1>2. ASSUME NEW w \in Workers, run(w) \/ Finish(w) \/ Raise(w) PROVE PlaceInv'
  BY <1>1, <1>2, GetPlaces, PuttingSteps, KeptPlaces DEF run
<1> QED
  BY <1>2, DispatchPlaces, DispatchBreakPlaces, CollectPlaces, StillPlaces DEF Next, run_tests

-----------------------------------------------------------------------------
(* The summary.                                                            *)

LEMMA FiniteTaken ==
  ASSUME PlaceInv
  PROVE  /\ IsFiniteSet(Taken) /\ Taken \subseteq 1..jobs
         /\ \A k : IsFiniteSet(TakenWith(k)) /\ TakenWith(k) \subseteq Taken
<1>1. IsFiniteSet(1..jobs) /\ Taken \subseteq 1..jobs
  BY PlaceFacts, FS_Interval DEF Taken
<1>2. IsFiniteSet(Taken)
  BY <1>1, FS_Subset
<1>3. \A k : TakenWith(k) \subseteq Taken
  BY DEF TakenWith
<1> QED
  BY <1>1, <1>2, <1>3, FS_Subset

LEMMA WithinTests ==
  ASSUME PlaceInv
  PROVE  /\ \A t \in 1..jobs : t \in 1..Tests
         /\ \A t \in Taken : t \in 1..Tests
         /\ \A t \in Held : t \in 1..Tests
         /\ \A t \in TestsIn(output_queue) : t \in 1..Tests
         /\ \A i \in DOMAIN output_queue : output_queue[i].test \in TestsIn(output_queue)
<1>1. \A t \in 1..jobs : t \in 1..Tests
  BY PlaceFacts, TestRunnerAssumption
<1>2. \A t \in Taken : t \in 1..jobs
  BY FiniteTaken
<1>3. \A t \in TestsIn(output_queue) \cup Held : t \in 1..jobs
  BY DEF PlaceInv, JobsApart
<1>4. \A i \in DOMAIN output_queue : output_queue[i].test \in TestsIn(output_queue)
  BY DEF PlaceInv, RightJobs, TestsIn
<1> QED
  BY <1>1, <1>2, <1>3, <1>4

(* As long as no test is taken the summary does not change.                *)
LEMMA SameTaken ==
  ASSUME PlaceInv, CountInv, Taken' = Taken, UNCHANGED <<counted, received>>,
         \A t \in Taken : happened'[t] = happened[t],
         \A i \in DOMAIN output_queue' :
           happened'[output_queue'[i].test] = Outcome(output_queue'[i])
  PROVE  CountInv'
<1>1. \A k : TakenWith(k)' = TakenWith(k)
  BY DEF TakenWith
<1> QED
  BY <1>1 DEF CountInv

LEMMA CollectCounts ==
  ASSUME PlaceInv, CountInv, Collect
  PROVE  CountInv'
<1> DEFINE job == Head(output_queue)
<1>1. /\ PlaceInv' /\ UNCHANGED <<input_queue, Held, jobs, happened>>
      /\ job.test \in TestsIn(output_queue)
      /\ TestsIn(output_queue)' = TestsIn(output_queue) \ {job.test}
      /\ TestsIn(input_queue)' = TestsIn(input_queue)
  BY CollectPlaces DEF TestsIn
<1>2. /\ output_queue \in Seq(AnyJob) /\ output_queue # <<>>
      /\ output_queue' = Tail(output_queue)
      /\ counted' = Counted(job) /\ received' = received + 1
      /\ counted \in [Kinds -> Nat]
  BY DEF Collect, PlaceInv, TypeInv
<1>3. /\ job \in AnyJob /\ 1 \in DOMAIN output_queue /\ job = output_queue[1]
      /\ DOMAIN output_queue' = 1 .. Len(output_queue) - 1
      /\ DOMAIN output_queue = 1 .. Len(output_queue) /\ Len(output_queue) \in Nat
      /\ \A i \in 1 .. Len(output_queue) - 1 : output_queue'[i] = output_queue[i + 1]
  BY <1>2, TailFacts, QueueFacts
<1>4. \A i \in DOMAIN output_queue' :
         i + 1 \in DOMAIN output_queue /\ output_queue'[i] = output_queue[i + 1]
  BY <1>3
<1>5. /\ Taken' = Taken \cup {job.test} /\ job.test \notin Taken
      /\ happened[job.test] = Outcome(job)
  <2>1. happened[job.test] = Outcome(job)
    BY <1>3 DEF CountInv
  <2>2. /\ job.test \in 1..jobs
        /\ job.test \notin TestsIn(input_queue) /\ job.test \notin Held
    BY <1>1 DEF PlaceInv, JobsApart
  <2> QED
    BY <1>1, <2>1, <2>2 DEF Taken
<1> HIDE DEF job
<1>6. Cardinality(Taken') = received'
  BY <1>2, <1>5, FiniteTaken, FS_AddElement DEF CountInv
<1>7. \A i \in DOMAIN output_queue' :
        happened'[output_queue'[i].test] = Outcome(output_queue'[i])
  BY <1>1, <1>4 DEF CountInv
<1>8. ASSUME NEW k \in Kinds PROVE counted'[k] = Cardinality(TakenWith(k)')
  <2>1. CASE Outcome(job) = k
    <3>1. ~job.isBreak /\ counted' = [counted EXCEPT ![k] = @ + 1]
      BY <1>2, <2>1 DEF Outcome, Counted, Kinds
    <3>2. TakenWith(k)' = TakenWith(k) \cup {job.test} /\ job.test \notin TakenWith(k)
      BY <1>1, <1>5, <2>1 DEF TakenWith
    <3>3. counted'[k] = counted[k] + 1
      BY <1>2, <3>1
    <3> QED
      BY <3>2, <3>3, FiniteTaken, FS_AddElement DEF CountInv
  <2>2. CASE Outcome(job) # k
    <3>1. counted'[k] = counted[k]
      BY <1>2, <2>2 DEF Outcome, Counted
    <3>2. TakenWith(k)' = TakenWith(k)
      BY <1>1, <1>5, <2>2 DEF TakenWith
    <3> QED
      BY <3>1, <3>2 DEF CountInv
  <2> QED
    BY <2>1, <2>2
<1> QED
  BY <1>6, <1>7, <1>8 DEF CountInv

LEMMA PutCounts ==
  ASSUME PlaceInv, CountInv, NEW w \in Workers, PutsOutcome(w)
  PROVE  CountInv'
<1>1. PICK job \in AnyJob :
        /\ worker[w].at \in {"got", "running"} /\ job.test = worker[w].job.test
        /\ Put(w, job, Outcome(job))
  BY DEF PutsOutcome
<1>2. Outcome(job) \in Fates
  BY OutcomeIsFate DEF Fates
<1>3. /\ PlaceInv' /\ UNCHANGED <<TestsIn(input_queue), jobs>>
      /\ job.test \in Held /\ Held' = Held \ {job.test}
      /\ TestsIn(output_queue)' = TestsIn(output_queue) \cup {job.test}
  BY <1>1, <1>2, PutPlaces
<1>4. /\ output_queue \in Seq(AnyJob) /\ output_queue' = Append(output_queue, job)
      /\ happened' = [happened EXCEPT ![job.test] = Outcome(job)]
      /\ happened \in [1..Tests -> Fates]
      /\ UNCHANGED <<counted, received>>
  BY <1>1 DEF Put, PlaceInv, TypeInv, mainVars
<1>5. Taken' = Taken /\ job.test \notin Taken
  BY <1>3 DEF Taken
<1>6. job.test \in 1..Tests /\ job.test \notin TestsIn(output_queue)
  BY <1>3, PlaceFacts, WithinTests
<1>7. /\ happened'[job.test] = Outcome(job)
      /\ \A t \in 1..Tests : t # job.test => happened'[t] = happened[t]
  BY <1>4, <1>6
<1>8. \A t \in Taken : happened'[t] = happened[t]
  <2>1. \A t \in Taken : t \in 1..Tests
    BY WithinTests
  <2> QED
    BY <1>5, <1>7, <2>1
<1>9. /\ DOMAIN output_queue' = 1 .. Len(output_queue) + 1
      /\ DOMAIN output_queue = 1 .. Len(output_queue) /\ Len(output_queue) \in Nat
      /\ \A i \in 1 .. Len(output_queue) : output_queue'[i] = output_queue[i]
      /\ output_queue'[Len(output_queue) + 1] = job
  BY <1>4, AppendFacts, QueueFacts
<1>10. \A i \in DOMAIN output_queue :
         output_queue[i].test \in TestsIn(output_queue) /\ output_queue[i].test \in 1..Tests
  BY WithinTests
<1>11. \A i \in DOMAIN output_queue' :
        happened'[output_queue'[i].test] = Outcome(output_queue'[i])
  <2>1. \A i \in DOMAIN output_queue :
          happened'[output_queue'[i].test] = Outcome(output_queue'[i])
    BY <1>6, <1>7, <1>9, <1>10 DEF CountInv
  <2>2. \A i \in DOMAIN output_queue' : i \in DOMAIN output_queue \/ i = Len(output_queue) + 1
    BY <1>9
  <2> QED
    BY <1>7, <1>9, <2>1, <2>2
<1> QED
  BY <1>4, <1>5, <1>8, <1>11, SameTaken

LEMMA KeptCounts ==
  ASSUME PlaceInv, CountInv, Taken' = Taken, UNCHANGED <<output_queue, counted, received, happened>>
  PROVE  CountInv'
BY SameTaken DEF CountInv

LEMMA RaiseCounts ==
  ASSUME PlaceInv, CountInv, NEW w \in Workers, Raise(w)
  PROVE  CountInv'
<1> DEFINE t == worker[w].job.test
<1>1. /\ UNCHANGED <<input_queue, output_queue, Held, jobs, counted, received>>
      /\ happened' = [happened EXCEPT ![t] = "lost"] /\ worker[w].at = "running"
      /\ happened \in [1..Tests -> Fates]
  BY KeptPlaces DEF Raise, mainVars, PlaceInv, TypeInv
<1>2. t # 0 /\ t \in Held
  <2>1. t # 0
    BY <1>1, PlaceFacts DEF RightJobs, Busy
  <2> QED
    BY <2>1 DEF Held, InHands
<1>3. Taken' = Taken /\ t \notin Taken
  BY <1>1, <1>2 DEF Taken, TestsIn
<1>4. \A u \in 1..Tests : u # t => happened'[u] = happened[u]
  BY <1>1
<1>5. \A u \in Taken : happened'[u] = happened[u]
  <2>1. \A u \in Taken : u \in 1..Tests
    BY WithinTests
  <2> QED
    BY <1>3, <1>4, <2>1
<1>6. \A i \in DOMAIN output_queue :
         /\ output_queue[i].test \in 1..Tests
         /\ output_queue[i].test # t
  <2>1. \A i \in DOMAIN output_queue : output_queue[i].test \in TestsIn(output_queue)
    BY WithinTests
  <2>2. \A u \in TestsIn(output_queue) : u \in 1..Tests
    BY WithinTests
  <2> QED
    BY <1>2, <2>1, <2>2, PlaceFacts
<1>7. \A i \in DOMAIN output_queue' :
        happened'[output_queue'[i].test] = Outcome(output_queue'[i])
  BY <1>1, <1>4, <1>6 DEF CountInv
<1> QED
  BY <1>1, <1>3, <1>5, <1>7, SameTaken

LEMMA InitCounts == Init => CountInv
<1> SUFFICES ASSUME Init PROVE CountInv
  OBVIOUS
<1>1. Taken = {}
  <2>1. jobs = 0 /\ 1..0 = {}
    BY DEF Init
  <2> QED
    BY <2>1 DEF Taken
<1>2. \A k \in Kinds : TakenWith(k) = {} /\ counted[k] = 0
  BY <1>1 DEF TakenWith, Init
<1> QED
  <2>1. DOMAIN output_queue = {} /\ received = 0
    BY DEF Init
  <2>2. Cardinality({}) = 0
    BY FS_EmptySet
  <2> QED
    BY <1>1, <1>2, <2>1, <2>2 DEF CountInv

LEMMA StepCounts == PlaceInv /\ CountInv /\ [Next]_vars => CountInv'
<1> SUFFICES ASSUME PlaceInv, CountInv, [Next]_vars PROVE CountInv'
  OBVIOUS
<1>1. CASE Dispatch
  <2>1. /\ UNCHANGED <<output_queue, Held, counted, received, happened>>
        /\ TestsIn(output_queue)' = TestsIn(output_queue)
        /\ jobs' = jobs + 1 /\ jobs \in Nat
        /\ TestsIn(input_queue)' = TestsIn(input_queue) \cup {jobs + 1}
    BY <1>1, DispatchPlaces, PlaceFacts DEF Dispatch, TestsIn
  <2>2. 1..jobs + 1 = (1..jobs) \cup {jobs + 1} /\ jobs + 1 \notin 1..jobs
    BY <2>1
  <2>3. Taken' = Taken
    BY <2>1, <2>2 DEF Taken
  <2> QED
    BY <2>1, <2>3, KeptCounts
<1>2. CASE DispatchBreak
  <2>1. UNCHANGED <<output_queue, Held, jobs, TestsIn(input_queue), counted, received, happened>>
    BY <1>2, DispatchBreakPlaces DEF DispatchBreak
  <2> QED
    BY <2>1, KeptCounts DEF Taken, TestsIn
<1>3. CASE JoinAndSumUp \/ sigint_hook \/ UNCHANGED vars
  <2>1. /\ UNCHANGED <<input_queue, output_queue, Held, jobs, happened>>
        /\ UNCHANGED <<counted, received>>
    BY <1>3, StillPlaces DEF JoinAndSumUp, sigint_hook, vars, mainVars
  <2> QED
    BY <2>1, KeptCounts DEF Taken, TestsIn
<1>4. ASSUME NEW w \in Workers, Get(w) PROVE CountInv'
  <2>1. /\ UNCHANGED <<output_queue, jobs, happened, counted, received>>
        /\ TestsIn(output_queue)' = TestsIn(output_queue)
        /\ \/ UNCHANGED <<TestsIn(input_queue), Held>>
           \/ \E t \in TestsIn(input_queue) :
                /\ TestsIn(input_queue)' = TestsIn(input_queue) \ {t}
                /\ Held' = Held \cup {t}
    BY <1>4, GetPlaces DEF Get, mainVars, TestsIn
  <2>2. TestsIn(input_queue)' \cup Held' = TestsIn(input_queue) \cup Held
    BY <2>1
  <2>3. Taken' = Taken
    BY <2>1, <2>2 DEF Taken
  <2> QED
    BY <2>1, <2>3, KeptCounts
<1>5. ASSUME NEW w \in Workers, Launch(w) PROVE CountInv'
  <2>1. UNCHANGED <<input_queue, output_queue, Held, jobs, counted, received, happened>>
    BY <1>5, KeptPlaces DEF Launch, mainVars
  <2> QED
    BY <2>1, KeptCounts DEF Taken, TestsIn
<1>6. ASSUME NEW w \in Workers, GiveBack(w) \/ Skip(w) \/ Finish(w) PROVE CountInv'
  BY <1>6, PuttingSteps, PutCounts
<1> QED
  BY <1>1, <1>2, <1>3, <1>4, <1>5, <1>6, CollectCounts, RaiseCounts
     DEF Next, run_tests, run

LEMMA StepEnd == PlaceInv /\ CountInv /\ EndInv /\ [Next]_vars => EndInv'
<1> SUFFICES ASSUME PlaceInv, CountInv, EndInv, [Next]_vars PROVE EndInv'
  OBVIOUS
<1>1. CASE Dispatch
  BY <1>1 DEF Dispatch, EndInv
<1>2. CASE DispatchBreak
  BY <1>2 DEF DispatchBreak, EndInv
<1>3. CASE Collect
  BY <1>3 DEF Collect, EndInv
<1>4. CASE JoinAndSumUp
  <2>1. /\ main = "collect" /\ received = jobs /\ UNCHANGED <<jobs, received, worker, counted>>
        /\ \A w \in Workers : worker[w].at \in {"returned", "died"}
        /\ status' = IF counted["passed"] + counted["skipped"] = jobs THEN "success" ELSE "error"
    BY <1>4 DEF JoinAndSumUp
  <2>2. Taken = 1..jobs
    <3>1. Cardinality(1..jobs) = jobs /\ IsFiniteSet(1..jobs)
      BY PlaceFacts, FS_Interval
    <3> QED
      BY <2>1, <3>1, FiniteTaken, FS_Subset DEF CountInv
  <2>3. Held = {}
    BY <2>2, PlaceFacts DEF Taken
  <2>4. \A w \in Workers : worker[w].job.test = 0
    BY <2>3 DEF Held, InHands
  <2>5. \A w \in Workers : worker[w].at = "returned"
    BY <2>1, <2>4, PlaceFacts DEF RightJobs, Busy
  <2> QED
    BY <2>1, <2>5 DEF EndInv
<1>5. CASE sigint_hook \/ UNCHANGED vars
  BY <1>5 DEF sigint_hook, vars, mainVars, EndInv
<1>6. ASSUME NEW w \in Workers, run(w) \/ Finish(w) \/ Raise(w) PROVE EndInv'
  <2>1. worker[w].at # "returned" /\ UNCHANGED mainVars
    BY <1>6 DEF run, Get, GiveBack, Skip, Launch, Finish, Raise, Put
  <2> QED
    BY <2>1 DEF EndInv, mainVars
<1> QED
  BY <1>1, <1>2, <1>3, <1>4, <1>5, <1>6 DEF Next, run_tests

LEMMA RunnerInvariance == RunnerSpec => [](PlaceInv /\ CountInv /\ EndInv)
<1>1. Init => EndInv
  BY DEF Init, EndInv
<1> QED
  BY <1>1, InitPlaces, StepPlaces, InitCounts, StepCounts, StepEnd, PTL DEF RunnerSpec

-----------------------------------------------------------------------------

LEMMA UpTo ==
  ASSUME NEW n \in Nat
  PROVE  IsFiniteSet(1..n) /\ Cardinality(1..n) = n
BY FS_Interval

LEMMA SameSize ==
  ASSUME NEW S, NEW T, IsFiniteSet(S), NEW f \in [S -> T],
         \A x, y \in S : f[x] = f[y] => x = y,
         \A z \in T : \E x \in S : f[x] = z
  PROVE  Cardinality(S) = Cardinality(T)
<1>1. f \in Injection(S, T)
  BY DEF Injection, IsInjective
<1>2. f \in Surjection(S, T)
  BY DEF Surjection
<1> QED
  BY <1>1, <1>2, FS_Bijection DEF Bijection, ExistsBijection

(* The tests of a queue are as many as its places with a test.             *)
LEMMA AsManyTests ==
  ASSUME NEW q \in Seq(AnyJob), Unique(q)
  PROVE  LET places == {i \in DOMAIN q : q[i].test # 0}
         IN  Cardinality(places) = Cardinality(TestsIn(q))
<1> DEFINE places == {i \in DOMAIN q : q[i].test # 0}
           f == [i \in places |-> q[i].test]
<1>1. /\ f \in [places -> TestsIn(q)]
      /\ \A i, j \in places : f[i] = f[j] => i = j
      /\ \A t \in TestsIn(q) : \E i \in places : f[i] = t
  BY DEF TestsIn, Unique
<1>2. IsFiniteSet(places)
  <2>1. IsFiniteSet(DOMAIN q)
    BY QueueFacts, FS_Interval
  <2> QED
    BY <2>1, FS_Subset
<1> HIDE DEF f, places
<1>3. Cardinality(TestsIn(q)) = Cardinality(places)
  BY <1>1, <1>2, SameSize
<1> QED
  BY <1>3 DEF places

LEMMA AsManyHeld ==
  ASSUME OneWorkerEach
  PROVE  Cardinality(InHands) = Cardinality(Held)
<1> DEFINE f == [w \in InHands |-> worker[w].job.test]
<1>1. /\ f \in [InHands -> Held]
      /\ \A v, w \in InHands : f[v] = f[w] => v = w
      /\ \A t \in Held : \E w \in InHands : f[w] = t
  BY DEF Held, OneWorkerEach
<1>2. IsFiniteSet(InHands)
  BY TestRunnerAssumption, FS_Subset DEF InHands
<1> HIDE DEF f
<1> QED
  BY <1>1, <1>2, SameSize

LEMMA SumOfThree ==
  ASSUME NEW n \in Nat, NEW I, NEW O, NEW H,
         I \cap O = {}, I \cap H = {}, O \cap H = {}, (I \cup O) \cup H \subseteq 1..n
  PROVE  /\ Cardinality((I \cup O) \cup H) = (Cardinality(I) + Cardinality(O)) + Cardinality(H)
         /\ Cardinality((1..n) \ ((I \cup O) \cup H)) = n - Cardinality((I \cup O) \cup H)
         /\ Cardinality(I) \in Nat /\ Cardinality(O) \in Nat /\ Cardinality(H) \in Nat
<1>1. IsFiniteSet(1..n) /\ Cardinality(1..n) = n
  BY FS_Interval
<1>2. IsFiniteSet(I) /\ IsFiniteSet(O) /\ IsFiniteSet(H)
  <2>1. I \in SUBSET (1..n) /\ O \in SUBSET (1..n) /\ H \in SUBSET (1..n)
    OBVIOUS
  <2> QED
    BY <1>1, <2>1, FS_Subset
<1>3. /\ IsFiniteSet(I \cup O)
      /\ Cardinality(I \cup O) = Cardinality(I) + Cardinality(O) - Cardinality({})
  BY <1>2, FS_Union
<1>4. /\ IsFiniteSet((I \cup O) \cup H)
      /\ Cardinality((I \cup O) \cup H) = Cardinality(I \cup O) + Cardinality(H) - Cardinality({})
  <2>1. (I \cup O) \cap H = {}
    OBVIOUS
  <2> QED
    BY <1>2, <1>3, <2>1, FS_Union
<1>5. Cardinality({}) = 0
  BY FS_EmptySet
<1>6. Cardinality(I) \in Nat /\ Cardinality(O) \in Nat /\ Cardinality(H) \in Nat
  BY <1>2, FS_CardinalityType
<1>7. Cardinality((1..n) \ ((I \cup O) \cup H)) = n - Cardinality((I \cup O) \cup H)
  <2>1. (1..n) \cap ((I \cup O) \cup H) = (I \cup O) \cup H
    OBVIOUS
  <2> QED
    BY <1>1, <2>1, FS_Difference
<1> QED
  BY <1>3, <1>4, <1>5, <1>6, <1>7

(* test.py:935: however the threads interleave and whenever the interrupt  *)
(* comes, no test is put twice and none is dropped, for every number of    *)
(* tests and workers.                                                      *)
THEOREM OnePlaceEach == RunnerSpec => []EachTestInOnePlace
<1>1. PlaceInv /\ CountInv => EachTestInOnePlace
  <2> SUFFICES ASSUME PlaceInv, CountInv PROVE EachTestInOnePlace
    OBVIOUS
  <2> DEFINE I == TestsIn(input_queue)
             O == TestsIn(output_queue)
  <2>1. /\ input_queue \in Seq(AnyJob) /\ output_queue \in Seq(AnyJob)
        /\ Unique(input_queue) /\ Unique(output_queue) /\ OneWorkerEach
        /\ jobs \in Nat /\ received \in Nat
        /\ \A i \in DOMAIN output_queue : output_queue[i].test # 0
    BY PlaceFacts DEF TypeInv, RightJobs
  <2>2. Cardinality(Waiting) = Cardinality(I)
    BY <2>1, AsManyTests DEF Waiting
  <2>3. Len(output_queue) = Cardinality(O)
    <3>1. {i \in DOMAIN output_queue : output_queue[i].test # 0} = 1 .. Len(output_queue)
      BY <2>1, QueueFacts
    <3>2. Cardinality(1 .. Len(output_queue)) = Len(output_queue)
      BY <2>1, QueueFacts, UpTo
    <3> QED
      BY <2>1, <3>1, <3>2, AsManyTests
  <2>4. Cardinality(InHands) = Cardinality(Held)
    BY <2>1, AsManyHeld
  <2>5. Placed = (I \cup O) \cup Held
    <3>1. {input_queue[i].test : i \in Waiting} = I
      BY DEF Waiting, TestsIn
    <3>2. {output_queue[i].test : i \in DOMAIN output_queue} = O
      BY <2>1 DEF TestsIn
    <3> QED
      BY <3>1, <3>2 DEF Placed, Held
  <2>6. Cardinality((1..jobs) \ ((I \cup O) \cup Held)) = received
    BY DEF CountInv, Taken
  <2>7. /\ I \cap O = {} /\ I \cap Held = {} /\ O \cap Held = {}
        /\ (I \cup O) \cup Held \subseteq 1..jobs
    BY DEF PlaceInv, JobsApart
  <2> HIDE DEF I, O
  <2>8. /\ Cardinality(Placed) = (Cardinality(I) + Cardinality(O)) + Cardinality(Held)
        /\ received = jobs - Cardinality(Placed)
        /\ Cardinality(I) \in Nat /\ Cardinality(O) \in Nat /\ Cardinality(Held) \in Nat
    <3>1. /\ Cardinality((I \cup O) \cup Held)
               = (Cardinality(I) + Cardinality(O)) + Cardinality(Held)
          /\ Cardinality((1..jobs) \ ((I \cup O) \cup Held))
               = jobs - Cardinality((I \cup O) \cup Held)
          /\ Cardinality(I) \in Nat /\ Cardinality(O) \in Nat /\ Cardinality(Held) \in Nat
      <4>1. jobs \in Nat
        BY <2>1
      <4> QED
        BY <4>1, <2>7, SumOfThree
    <3> QED
      BY <2>5, <2>6, <3>1
  <2> QED
    BY <2>1, <2>2, <2>3, <2>4, <2>8 DEF EachTestInOnePlace
<1> QED
  BY <1>1, RunnerInvariance, PTL

(* test.py:1800: when run_tests returns, its counters are what became of   *)
(* the tests, and it reports success exactly if all passed or were to be   *)
(* skipped, for every number of tests and workers.                         *)
THEOREM TrueSummary == RunnerSpec => []SummaryIsTrue
<1>1. PlaceInv /\ CountInv /\ EndInv => SummaryIsTrue
  <2> SUFFICES ASSUME PlaceInv, CountInv, EndInv, main = "done" PROVE SummaryIsTrue
    BY DEF SummaryIsTrue
  <2>1. /\ jobs = Tests /\ received = jobs /\ jobs \in Nat
        /\ \A w \in Workers : worker[w].at = "returned"
        /\ status = "success" <=> counted["passed"] + counted["skipped"] = Tests
    BY PlaceFacts DEF EndInv
  <2>2. IsFiniteSet(1..Tests) /\ Cardinality(1..Tests) = Tests
    BY TestRunnerAssumption, UpTo
  <2>3. Taken = 1..Tests
    BY <2>1, <2>2, FiniteTaken, FS_Subset DEF CountInv
  <2>4. \A k \in Kinds : counted[k] = Cardinality({t \in 1..Tests : happened[t] = k})
    BY <2>3 DEF CountInv, TakenWith
  <2> DEFINE P == {t \in 1..Tests : happened[t] = "passed"}
             K == {t \in 1..Tests : happened[t] = "skipped"}
  <2>5. counted["passed"] = Cardinality(P) /\ counted["skipped"] = Cardinality(K)
    BY <2>4 DEF Kinds
  <2>6. /\ P \in SUBSET (1..Tests) /\ K \in SUBSET (1..Tests) /\ P \cap K = {}
        /\ (\A t \in 1..Tests : happened[t] \in {"passed", "skipped"}) <=> P \cup K = 1..Tests
    OBVIOUS
  <2> HIDE DEF P, K
  <2>7. /\ IsFiniteSet(P \cup K) /\ P \cup K \in SUBSET (1..Tests)
        /\ Cardinality(P \cup K) = Cardinality(P) + Cardinality(K)
    <3>1. IsFiniteSet(P) /\ IsFiniteSet(K)
      BY <2>2, <2>6, FS_Subset
    <3>2. Cardinality(P) \in Nat /\ Cardinality(K) \in Nat
      BY <3>1, FS_CardinalityType
    <3>3. /\ IsFiniteSet(P \cup K)
          /\ Cardinality(P \cup K) = Cardinality(P) + Cardinality(K) - Cardinality(P \cap K)
      BY <3>1, FS_Union
    <3>4. Cardinality(P \cap K) = 0
      BY <2>6, FS_EmptySet
    <3>5. Cardinality(P \cup K) = Cardinality(P) + Cardinality(K)
      BY <3>2, <3>3, <3>4
    <3> QED
      BY <2>6, <3>3, <3>5
  <2>8. Cardinality(P \cup K) = Tests <=> P \cup K = 1..Tests
    BY <2>2, <2>7, FS_Subset
  <2> QED
    BY <2>1, <2>4, <2>5, <2>6, <2>7, <2>8 DEF SummaryIsTrue
<1> QED
  BY <1>1, RunnerInvariance, PTL
=============================================================================
