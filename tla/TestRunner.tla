----------------------------- MODULE TestRunner -----------------------------
(* The worker threads of src/ns-3.19/test.py.  The main thread puts a Job    *)
(* for every test into input_queue and after them one break job for every    *)
(* worker thread, then takes as many jobs out of output_queue as it has      *)
(* dispatched tests, joins the workers and sums up.  A worker takes jobs     *)
(* until it meets a break job.  SIGINT only sets thread_exit, which makes    *)
(* the workers return the tests unrun.                                       *)
(* A test process ends with a return code; Broken stands for any that is     *)
(* not 0, 1 or 2.  It may also never end: the program sets no limit.  The    *)
(* command line, the output and the XML file are left out.                   *)
EXTENDS Naturals, Sequences, FiniteSets

CONSTANTS Tests,     \* number of tests to run
          Workers    \* the worker threads, one for each processor

ASSUME TestRunnerAssumption == Tests \in Nat \ {0} /\ IsFiniteSet(Workers)

VARIABLES input_queue, output_queue,
          main,           \* where run_tests is
          breaks,         \* break jobs put so far
          jobs,           \* tests dispatched so far, in their order
          received,       \* jobs taken from output_queue
          counted,        \* passed_tests, failed_tests, ... of the summary
          status,         \* what run_tests returns, once it does
          worker,         \* what each thread is doing, and with which job
          thread_exit,
          happened        \* what became of each test, as its worker saw it

vars == <<input_queue, output_queue, main, breaks, jobs, received, counted,
          status, worker, thread_exit, happened>>
mainVars == <<main, breaks, jobs, received, counted, status>>

Broken == 3
Kinds == {"passed", "failed", "valgrind", "crashed", "skipped"}

\* The counter of the summary that a return code belongs to.
KindOf(returncode) == CASE returncode = 0 -> "passed"
                        [] returncode = 1 -> "failed"
                        [] returncode = 2 -> "valgrind"
                        [] OTHER -> "crashed"

Job(test, skip) == [test |-> test, isBreak |-> FALSE, isSkip |-> skip, returncode |-> 0]
BreakJob == [test |-> 0, isBreak |-> TRUE, isSkip |-> FALSE, returncode |-> 0]
NoJob == BreakJob

Init == /\ input_queue = <<>> /\ output_queue = <<>>
        /\ main = "dispatch" /\ breaks = 0 /\ jobs = 0 /\ received = 0
        /\ counted = [k \in Kinds |-> 0] /\ status = "none"
        /\ worker = [w \in Workers |-> [at |-> "get", job |-> NoJob]]
        /\ thread_exit = FALSE
        /\ happened = [t \in 1..Tests |-> "pending"]

-----------------------------------------------------------------------------
\* The main thread.

\* The loops over the test suites and examples; which of them are skipped
\* depends on the options and the configuration.
Dispatch ==
    /\ main = "dispatch" /\ jobs < Tests
    /\ \E skip \in BOOLEAN : input_queue' = Append(input_queue, Job(jobs + 1, skip))
    /\ jobs' = jobs + 1
    /\ UNCHANGED <<output_queue, main, breaks, received, counted, status, worker,
                   thread_exit, happened>>

\* Seeded fault: one break job fewer than there are threads.
DispatchBreakShort ==
    /\ main = "dispatch" /\ jobs = Tests
    /\ input_queue' = Append(input_queue, BreakJob)
    /\ breaks' = breaks + 1
    /\ main' = IF breaks' + 1 >= Cardinality(Workers) THEN "collect" ELSE main
    /\ UNCHANGED <<output_queue, jobs, received, counted, status, worker, thread_exit,
                   happened>>

DispatchBreak ==
    /\ main = "dispatch" /\ jobs = Tests
    /\ input_queue' = Append(input_queue, BreakJob)
    /\ breaks' = breaks + 1
    /\ main' = IF breaks' = Cardinality(Workers) THEN "collect" ELSE main
    /\ UNCHANGED <<output_queue, jobs, received, counted, status, worker, thread_exit,
                   happened>>

\* Seeded fault: a test to be skipped counts as skipped, interrupt or not.
CountedSkipFirst(job) ==
    IF job.isBreak /\ ~job.isSkip THEN counted
    ELSE [counted EXCEPT ![IF job.isSkip THEN "skipped" ELSE KindOf(job.returncode)] = @ + 1]

\* What one job adds to the summary: nothing if a worker has turned it into
\* a break job.
Counted(job) ==
    IF job.isBreak THEN counted
    ELSE [counted EXCEPT ![IF job.isSkip THEN "skipped" ELSE KindOf(job.returncode)] = @ + 1]

Collect ==
    /\ main = "collect" /\ received < jobs /\ output_queue # <<>>
    /\ counted' = Counted(Head(output_queue))
    /\ output_queue' = Tail(output_queue)
    /\ received' = received + 1
    /\ UNCHANGED <<input_queue, main, breaks, jobs, status, worker, thread_exit, happened>>

\* join() of every thread, those included that an exception has ended, then
\* the summary.
JoinAndSumUp ==
    /\ main = "collect" /\ received = jobs
    /\ \A w \in Workers : worker[w].at \in {"returned", "died"}
    /\ main' = "done"
    /\ status' = IF counted["passed"] + counted["skipped"] = jobs THEN "success" ELSE "error"
    /\ UNCHANGED <<input_queue, output_queue, breaks, jobs, received, counted, worker,
                   thread_exit, happened>>

sigint_hook ==
    /\ main # "done" /\ ~thread_exit
    /\ thread_exit' = TRUE
    /\ UNCHANGED <<input_queue, output_queue, mainVars, worker, happened>>

-----------------------------------------------------------------------------
\* A worker thread.

Get(w) ==
    /\ worker[w].at = "get" /\ input_queue # <<>>
    /\ LET job == Head(input_queue)
       IN worker' = [worker EXCEPT ![w] =
              IF job.isBreak THEN [at |-> "returned", job |-> NoJob]
                             ELSE [at |-> "got", job |-> job]]
    /\ input_queue' = Tail(input_queue)
    /\ UNCHANGED <<output_queue, mainVars, thread_exit, happened>>

\* output_queue.put(job), and back to input_queue.get().
Put(w, job, what) ==
    /\ output_queue' = Append(output_queue, job)
    /\ worker' = [worker EXCEPT ![w] = [at |-> "get", job |-> NoJob]]
    /\ happened' = [happened EXCEPT ![job.test] = what]
    /\ UNCHANGED <<input_queue, mainVars, thread_exit>>

\* Seeded fault: the thread runs the test it has just given back.
GiveBackThenRun(w) ==
    LET job == [worker[w].job EXCEPT !.isBreak = TRUE]
    IN /\ worker[w].at = "got" /\ thread_exit
       /\ output_queue' = Append(output_queue, job)
       /\ worker' = [worker EXCEPT ![w] = [at |-> "running", job |-> job]]
       /\ UNCHANGED <<input_queue, mainVars, thread_exit, happened>>

\* The tests of run() on a job that is not a break job.
GiveBack(w) ==
    /\ worker[w].at = "got" /\ thread_exit
    /\ Put(w, [worker[w].job EXCEPT !.isBreak = TRUE], "interrupted")

Skip(w) ==
    /\ worker[w].at = "got" /\ ~thread_exit /\ worker[w].job.isSkip
    /\ Put(w, worker[w].job, "skipped")

Launch(w) ==
    /\ worker[w].at = "got" /\ ~thread_exit /\ ~worker[w].job.isSkip
    /\ worker' = [worker EXCEPT ![w].at = "running"]
    /\ UNCHANGED <<input_queue, output_queue, mainVars, thread_exit, happened>>

\* run_job_synchronously returns.
Finish(w) ==
    /\ worker[w].at = "running"
    /\ \E code \in 0..Broken :
          Put(w, [worker[w].job EXCEPT !.returncode = code], KindOf(code))

\* Popen may raise an exception; run() does not catch it, the thread ends
\* and its job is never put.
Raise(w) ==
    /\ worker[w].at = "running"
    /\ worker' = [worker EXCEPT ![w].at = "died"]
    /\ happened' = [happened EXCEPT ![worker[w].job.test] = "lost"]
    /\ UNCHANGED <<input_queue, output_queue, mainVars, thread_exit>>

-----------------------------------------------------------------------------
run_tests == Dispatch \/ DispatchBreak \/ Collect \/ JoinAndSumUp
run(w) == Get(w) \/ GiveBack(w) \/ Skip(w) \/ Launch(w)

Next == run_tests \/ sigint_hook \/ \E w \in Workers : run(w) \/ Finish(w) \/ Raise(w)

\* The threads are scheduled fairly.  Nothing says that a test process ends.
Fairness == WF_vars(run_tests) /\ \A w \in Workers : WF_vars(run(w))

RunnerSpec == Init /\ [][Next]_vars /\ Fairness

-----------------------------------------------------------------------------
\* Where the tests are: the places of input_queue with a test, and the threads
\* that have one in hand.
Waiting == {i \in DOMAIN input_queue : input_queue[i].test # 0}
InHands == {w \in Workers : worker[w].job.test # 0}
Placed  == {input_queue[i].test : i \in Waiting}
             \union {output_queue[i].test : i \in DOMAIN output_queue}
             \union {worker[w].job.test : w \in InHands}

\* Whatever the order of the threads' steps, and whenever the interrupt
\* comes, a dispatched test is in one place: waiting, with one worker (a dead
\* one keeps it), returned, or taken by the main thread; none is put twice
\* and none is dropped (input_queue, worker_thread.run, output_queue).
EachTestInOnePlace ==
    /\ Cardinality(Placed) + received = jobs
    /\ Cardinality(Waiting) + Len(output_queue) + Cardinality(InHands) + received = jobs

\* The summary is true: if run_tests gets that far, no thread has died, each
\* counter is the number of tests that ended so, and it returns 0 only if
\* every single test was run and passed, or was to be skipped; an interrupt
\* that kept one test from running cannot end in success.
SummaryIsTrue ==
    main = "done" =>
        /\ \A k \in Kinds : counted[k] = Cardinality({t \in 1..Tests : happened[t] = k})
        /\ \A w \in Workers : worker[w].at = "returned"
        /\ status = "success" <=> \A t \in 1..Tests : happened[t] \in {"passed", "skipped"}

\* If every test process ends, the main thread gets all its jobs and every
\* worker its break job, interrupt or not, and run_tests returns; the
\* exception that ends a worker thread is the only way to be left waiting.
ReturnsUnlessWorkerDies ==
    (\A w \in Workers : []<>(worker[w].at # "running"))
        => <>(main = "done" \/ \E w \in Workers : worker[w].at = "died")

=============================================================================
