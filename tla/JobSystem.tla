------------------------------ MODULE JobSystem ------------------------------
(***************************************************************************)
(* The job system of engine/core (threading/jobsystem): one Partial worker *)
(* on the main thread, Full workers that pop their own deque, steal from   *)
(* the others and sleep on one condition variable, and jobs with a parent, *)
(* dependents and an 8-bit counter of unfinished work.                     *)
(*                                                                         *)
(* Each thread is a stack of frames, one per call that is in progress; the *)
(* last frame says where the thread is. "code" is client code: the body of *)
(* a job, or of the main thread when its job is NoJob.                     *)
(***************************************************************************)
EXTENDS Integers, Sequences, FiniteSets

CONSTANTS
    Main,           \* the Partial worker: the thread that called initialize()
    Full,           \* the Full workers
    NoJob,          \* nullptr
    MaxDependents,  \* Job::max_dependents
    PoolSize,       \* max_job_count_per_frame: slots of a thread's job_pool
    CounterSize,    \* number of values of an atomic_uint8_t
    MaxJobs,        \* bound: how many jobs each thread allocates
    Uses            \* which parts of the API the client code uses (see Features)

Workers == {Main} \cup Full
Jobs == Workers \X (0 .. PoolSize - 1)
Types == {"Normal", "Lightweight"}

(***************************************************************************)
(* What client code may do beyond creating and scheduling Normal jobs.     *)
(*   lightweight  create Lightweight jobs                                  *)
(*   child        create child jobs                                        *)
(*   deepFinish   let a job that has children have a parent or dependents  *)
(*   link         call schedule(job, dependence) before the dependence is  *)
(*                scheduled                                                *)
(*   lateLink     ... also when the dependence was already scheduled       *)
(*   manyLinks    give one job several dependences                         *)
(*   mainWait     call wait() from the main thread's own code              *)
(*   jobWait      call wait() from a job, for a job it created             *)
(*   siblingWait  call wait() from a job, for one its creator made earlier *)
(*   stop         call jobsystem::stop()                                   *)
(***************************************************************************)
Features == {"lightweight", "child", "deepFinish", "link", "lateLink",
             "manyLinks", "mainWait", "jobWait", "siblingWait", "stop"}

ASSUME WorkersAssumption == Main \notin Full
ASSUME PoolAssumption == PoolSize \in Nat \ {0} /\ NoJob \notin Jobs
ASSUME CounterAssumption == CounterSize \in Nat \ {0, 1} /\ MaxDependents \in Nat \ {0}
ASSUME BoundAssumption == MaxJobs \in [Workers -> Nat] /\ Uses \subseteq Features

VARIABLES
    allocated,      \* allocated_jobs of each thread
    life,           \* ghost: is a slot free, or its job fresh, scheduled, linked?
    creator,        \* ghost: the job whose body created this one
    type, parent, unfinished, dependent_count, dependents,     \* struct Job
    after,          \* ghost: the dependences given to schedule(job, dependence)
    runs,           \* ghost: how often the body was entered
    queue,          \* job_queue of each worker
    stack,          \* the calls in progress of each thread
    should_sleep, active

jobVars == <<type, parent, unfinished, dependent_count, dependents>>
ghosts == <<life, creator, after, runs>>
flags == <<should_sleep, active>>
vars == <<allocated, jobVars, ghosts, queue, stack, flags>>

-----------------------------------------------------------------------------
(* Frames and stacks.                                                      *)

Frame(at, j) == [at |-> at, job |-> j, other |-> NoJob, n |-> 0]
LoopFrame(j, i) == [at |-> "dependents", job |-> j, other |-> NoJob, n |-> i]
LinkFrame(d, j, i) == [at |-> "link", job |-> d, other |-> j, n |-> i]

Places == {"code", "loop", "flush", "stealMain", "retry", "stealAny", "doze",
           "sleep", "asleep", "notify", "wait", "finish", "check",
           "dependents", "link", "stop", "notifyAll"}
Frames == [at : Places, job : Jobs \cup {NoJob}, other : Jobs \cup {NoJob}, n : Nat]

Pop(s) == SubSeq(s, 1, Len(s) - 1)
Goto(s, f) == Append(Pop(s), f)
Top(w) == stack[w][Len(stack[w])]
At(w, place) == stack[w] # <<>> /\ Top(w).at = place
Sleepers == {w \in Full : At(w, "asleep")}

SetStack(w, s) == stack' = [stack EXCEPT ![w] = s]
Enter(w, j) == runs' = [runs EXCEPT ![j] = @ + 1]

Init ==
    /\ allocated = [w \in Workers |-> 0]
    /\ life = [j \in Jobs |-> "free"]
    /\ creator = [j \in Jobs |-> NoJob]
    /\ type = [j \in Jobs |-> "Normal"]
    /\ parent = [j \in Jobs |-> NoJob]
    /\ unfinished = [j \in Jobs |-> 0]
    /\ dependent_count = [j \in Jobs |-> 0]
    /\ dependents = [j \in Jobs |-> [i \in 0 .. MaxDependents - 1 |-> NoJob]]
    /\ after = [j \in Jobs |-> {}]
    /\ runs = [j \in Jobs |-> 0]
    /\ queue = [w \in Workers |-> <<>>]
    /\ stack = [w \in Workers |->
                    IF w = Main THEN <<Frame("code", NoJob)>> ELSE <<Frame("loop", NoJob)>>]
    /\ should_sleep = TRUE
    /\ active = [w \in Workers |-> TRUE]

-----------------------------------------------------------------------------
(* Client code: the bodies of jobs and of the main thread.                 *)

Used(j) == life[j] # "free"
Mine(w, j) == Used(j) /\ creator[j] = Top(w).job
HasChildren(j) == \E c \in Jobs : Used(c) /\ parent[c] = j

(* A body adds children to its own job or to a job it has yet to schedule. *)
MayParent(w, p) ==
    /\ "child" \in Uses
    /\ p = Top(w).job \/ (Mine(w, p) /\ life[p] = "fresh")
    /\ "deepFinish" \in Uses \/ (parent[p] = NoJob /\ dependent_count[p] = 0)

(* The counters once job j is constructed with parent p: unfinished_jobs(1) *)
(* for j, unfinished_jobs++ for p.                                         *)
\* mutant: the parent does not count its child
UncountedChild(k, j, p) == IF k = j THEN 1 ELSE unfinished[k]
Counted(k, j, p) ==
    IF k = j THEN 1 ELSE IF k = p THEN unfinished[k] + 1 ELSE unfinished[k]

(* ZE_ASSERT(parent.unfinished_jobs < Job::max_childs)                     *)
\* mutant: the assertion is dropped
NoLimit(p) == TRUE
BelowMaxChilds(p) == unfinished[p] < CounterSize - 1

(* create_job: the parent counts the child, then the next slot of the      *)
(* thread's ring is constructed again, whatever it held. The constructor   *)
(* leaves the dependents array as it was.                                  *)
Create(w, t, p) ==
    LET j == <<w, (allocated[w] + 1) % PoolSize>> IN
    /\ At(w, "code")
    /\ allocated[w] < MaxJobs[w]
    /\ t = "Lightweight" => "lightweight" \in Uses
    /\ p # NoJob => MayParent(w, p) /\ BelowMaxChilds(p)
    /\ allocated' = [allocated EXCEPT ![w] = @ + 1]
    /\ unfinished' = [k \in Jobs |-> Counted(k, j, p)]
    /\ type' = [type EXCEPT ![j] = t]
    /\ parent' = [parent EXCEPT ![j] = p]
    /\ dependent_count' = [dependent_count EXCEPT ![j] = 0]
    /\ life' = [life EXCEPT ![j] = "fresh"]
    /\ creator' = [creator EXCEPT ![j] = Top(w).job]
    /\ after' = [after EXCEPT ![j] = {}]
    /\ runs' = [runs EXCEPT ![j] = 0]
    /\ UNCHANGED <<dependents, queue, stack, flags>>

(* The deque a thread pushes to: get_worker().get_job_queue().             *)
\* mutant: pushed to another worker
OtherQueue(w) == CHOOSE v \in Workers : v # w
MyQueue(w) == w

(* schedule(job): queue it on this thread's own worker and notify one      *)
(* sleeper, or run it here when it is Lightweight.                         *)
Schedule(w, j) ==
    /\ At(w, "code") /\ Mine(w, j) /\ life[j] = "fresh"
    /\ life' = [life EXCEPT ![j] = "scheduled"]
    /\ \/ /\ type[j] = "Normal"
          /\ queue' = [queue EXCEPT ![MyQueue(w)] = Append(@, j)]
          /\ SetStack(w, Append(stack[w], Frame("notify", NoJob)))
          /\ UNCHANGED runs
       \/ /\ type[j] = "Lightweight"
          /\ SetStack(w, Append(stack[w], Frame("code", j)))
          /\ Enter(w, j)
          /\ UNCHANGED queue
    /\ UNCHANGED <<allocated, jobVars, creator, after, flags>>

(* schedule(job, dependence): dependent_count is incremented before the    *)
(* slot it designates is written. dependances_count, which nothing reads,  *)
(* is the size of after[j].                                                *)
ScheduleAfter(w, j, d) ==
    /\ At(w, "code") /\ Mine(w, j) /\ Mine(w, d) /\ j # d
    /\ "link" \in Uses
    /\ life[j] = "fresh" \/ ("manyLinks" \in Uses /\ life[j] = "linked" /\ d \notin after[j])
    /\ life[d] = "fresh" \/ "lateLink" \in Uses
    /\ "deepFinish" \in Uses \/ ~HasChildren(d)
    /\ dependent_count[d] + 1 < MaxDependents
    /\ life' = [life EXCEPT ![j] = "linked"]
    /\ after' = [after EXCEPT ![j] = @ \cup {d}]
    /\ dependent_count' = [dependent_count EXCEPT ![d] = @ + 1]
    /\ SetStack(w, Append(stack[w], LinkFrame(d, j, dependent_count[d])))
    /\ UNCHANGED <<allocated, type, parent, unfinished, dependents, creator, runs, queue, flags>>

LinkWrite(w) ==
    /\ At(w, "link")
    /\ dependents' = [dependents EXCEPT ![Top(w).job] = [@ EXCEPT ![Top(w).n] = Top(w).other]]
    /\ SetStack(w, Pop(stack[w]))
    /\ UNCHANGED <<allocated, type, parent, unfinished, dependent_count, ghosts, queue, flags>>

(* wait(job) is called for a job the body created and scheduled, or (with  *)
(* siblingWait) for one its creator made before it.                        *)
MayWait(w, j) ==
    \/ /\ Mine(w, j)
       /\ (IF Top(w).job = NoJob THEN "mainWait" ELSE "jobWait") \in Uses
    \/ /\ "siblingWait" \in Uses /\ Top(w).job # NoJob
       /\ creator[j] = creator[Top(w).job]
       /\ j[1] = Top(w).job[1] /\ j[2] < Top(w).job[2]

CallWait(w, j) ==
    /\ At(w, "code") /\ MayWait(w, j)
    /\ life[j] \in {"scheduled", "linked"} /\ unfinished[j] # 0
    /\ \A k \in Jobs : Mine(w, k) => life[k] # "fresh"
    /\ SetStack(w, Append(stack[w], Frame("wait", j)))
    /\ UNCHANGED <<allocated, jobVars, ghosts, queue, flags>>

(* A body returns once it has scheduled every job it created; execute()    *)
(* then calls finish().                                                    *)
\* mutant: releases the dependents before the counter is decremented
ReleasingReturn(w) ==
    LET j == Top(w).job IN
    /\ At(w, "code") /\ j # NoJob
    /\ \A k \in Jobs : Mine(w, k) => life[k] # "fresh"
    /\ SetStack(w, Append(Goto(stack[w], Frame("finish", j)), LoopFrame(j, 0)))
    /\ UNCHANGED <<allocated, jobVars, ghosts, queue, flags>>

Return(w) ==
    /\ At(w, "code") /\ Top(w).job # NoJob
    /\ \A k \in Jobs : Mine(w, k) => life[k] # "fresh"
    /\ SetStack(w, Goto(stack[w], Frame("finish", Top(w).job)))
    /\ UNCHANGED <<allocated, jobVars, ghosts, queue, flags>>

Client(w) ==
    /\ At(w, "code")
    /\ \/ \E t \in Types, p \in {k \in Jobs : Used(k)} \cup {NoJob} : Create(w, t, p)
       \/ \E j \in {k \in Jobs : Used(k)} :
             \/ Schedule(w, j)
             \/ CallWait(w, j)
             \/ \E d \in {k \in Jobs : Used(k)} : ScheduleAfter(w, j, d)

-----------------------------------------------------------------------------
(* wait(), finish() and the condition variable.                            *)

\* mutant: spins without helping
SpinWaiting(w) ==
    /\ At(w, "wait")
    /\ unfinished[Top(w).job] = 0
    /\ SetStack(w, Pop(stack[w]))
    /\ UNCHANGED <<allocated, jobVars, ghosts, queue, flags>>

Waiting(w) ==
    /\ At(w, "wait")
    /\ SetStack(w, IF unfinished[Top(w).job] = 0 THEN Pop(stack[w])
                   ELSE Append(Append(stack[w], Frame("flush", NoJob)), Frame("notify", NoJob)))
    /\ UNCHANGED <<allocated, jobVars, ghosts, queue, flags>>

(* notify_one: wakes one sleeper, if there is any.                         *)
Notify(w) ==
    /\ At(w, "notify")
    /\ \/ /\ Sleepers = {}
          /\ SetStack(w, Pop(stack[w]))
       \/ \E s \in Sleepers :
             stack' = [stack EXCEPT ![w] = Pop(@), ![s] = Pop(@)]
    /\ UNCHANGED <<allocated, jobVars, ghosts, queue, flags>>

(* unfinished_jobs--, on 8 bits.                                           *)
\* mutant: a store instead of a decrement
Cleared(n) == 0
Decremented(n) == (n - 1) % CounterSize

(* finish(): the decrement and the test of the result are two accesses.    *)
Finish(w) ==
    LET j == Top(w).job IN
    /\ At(w, "finish")
    /\ unfinished' = [unfinished EXCEPT ![j] = Decremented(@)]
    /\ SetStack(w, Goto(stack[w], Frame("check", j)))
    /\ UNCHANGED <<allocated, type, parent, dependent_count, dependents, ghosts, queue, flags>>

(* The loop over the dependents starts with the first one.                 *)
\* mutant: off by one
SecondDependent == 1
FirstDependent == 0

Check(w) ==
    LET j == Top(w).job
        rest == Goto(stack[w], LoopFrame(j, FirstDependent)) IN
    /\ At(w, "check")
    /\ SetStack(w, IF unfinished[j] # 0 THEN Pop(stack[w])
                   ELSE IF parent[j] # NoJob THEN Append(rest, Frame("finish", parent[j]))
                   ELSE rest)
    /\ UNCHANGED <<allocated, jobVars, ghosts, queue, flags>>

(* One round of the loop over the dependents: a Normal one is pushed       *)
(* without a notify, a Lightweight one runs here. Neither looks at the     *)
(* dependent's other dependences.                                          *)
Dependents(w) ==
    LET j == Top(w).job
        i == Top(w).n
        d == dependents[j][i]
        next == Goto(stack[w], LoopFrame(j, i + 1)) IN
    /\ At(w, "dependents")
    /\ \/ /\ i >= dependent_count[j]
          /\ SetStack(w, Pop(stack[w]))
          /\ UNCHANGED <<queue, runs>>
       \/ /\ i < dependent_count[j] /\ d = NoJob
          /\ SetStack(w, next)
          /\ UNCHANGED <<queue, runs>>
       \/ /\ i < dependent_count[j] /\ d # NoJob /\ type[d] = "Normal"
          /\ queue' = [queue EXCEPT ![MyQueue(w)] = Append(@, d)]
          /\ SetStack(w, next)
          /\ UNCHANGED runs
       \/ /\ i < dependent_count[j] /\ d # NoJob /\ type[d] = "Lightweight"
          /\ SetStack(w, Append(next, Frame("code", d)))
          /\ Enter(w, d)
          /\ UNCHANGED queue
    /\ UNCHANGED <<allocated, jobVars, life, creator, after, flags>>

-----------------------------------------------------------------------------
(* flush(): own queue, the main worker's, own queue again, a random one's, *)
(* then sleep. A Partial worker neither steals nor sleeps. The job found   *)
(* is executed in place of the flush frame: nothing follows it.            *)

(* What pop() and steal() leave in a deque.                                *)
\* mutant: front() without pop_front()
Unpopped(q) == q
Popped(q) == Tail(q)
Stolen(q) == SubSeq(q, 1, Len(q) - 1)

PopOwn(w) ==
    /\ At(w, "flush") \/ At(w, "retry")
    /\ \/ /\ queue[w] # <<>>
          /\ SetStack(w, Goto(stack[w], Frame("code", Head(queue[w]))))
          /\ Enter(w, Head(queue[w]))
          /\ queue' = [queue EXCEPT ![w] = Popped(@)]
       \/ /\ queue[w] = <<>>
          /\ SetStack(w, IF w = Main
                         THEN IF At(w, "flush") THEN Goto(stack[w], Frame("retry", NoJob))
                              ELSE Pop(stack[w])
                         ELSE Goto(stack[w], Frame(IF At(w, "flush") THEN "stealMain"
                                                   ELSE "stealAny", NoJob)))
          /\ UNCHANGED <<queue, runs>>
    /\ UNCHANGED <<allocated, jobVars, life, creator, after, flags>>

StealFrom(w, v) ==
    LET j == queue[v][Len(queue[v])] IN
    /\ queue[v] # <<>>
    /\ SetStack(w, Goto(stack[w], Frame("code", j)))
    /\ Enter(w, j)
    /\ queue' = [queue EXCEPT ![v] = Stolen(@)]

(* The random index is drawn from 0..worker_count: it may designate this   *)
(* worker, or an unused entry of the table, and then nothing is stolen.    *)
Steal(w) ==
    /\ \/ At(w, "stealMain") /\ StealFrom(w, Main)
       \/ At(w, "stealAny") /\ \E v \in Workers \ {w} : StealFrom(w, v)
       \/ /\ At(w, "stealMain") /\ queue[Main] = <<>>
          /\ SetStack(w, Goto(stack[w], Frame("retry", NoJob)))
          /\ UNCHANGED <<queue, runs>>
       \/ /\ At(w, "stealAny")
          /\ SetStack(w, Goto(stack[w], Frame("doze", NoJob)))
          /\ UNCHANGED <<queue, runs>>
    /\ UNCHANGED <<allocated, jobVars, life, creator, after, flags>>

(* should_sleep is read before the worker starts to wait, under a mutex    *)
(* that no notifier takes.                                                 *)
Doze(w) ==
    /\ At(w, "doze")
    /\ SetStack(w, IF should_sleep THEN Goto(stack[w], Frame("sleep", NoJob)) ELSE Pop(stack[w]))
    /\ UNCHANGED <<allocated, jobVars, ghosts, queue, flags>>

Sleep(w) ==
    /\ At(w, "sleep")
    /\ SetStack(w, Goto(stack[w], Frame("asleep", NoJob)))
    /\ UNCHANGED <<allocated, jobVars, ghosts, queue, flags>>

SpuriousWake(w) ==
    /\ w \in Sleepers
    /\ SetStack(w, Pop(stack[w]))
    /\ UNCHANGED <<allocated, jobVars, ghosts, queue, flags>>

(* The body of a Full worker's thread: while(is_active()) flush().         *)
Loop(w) ==
    /\ At(w, "loop")
    /\ SetStack(w, IF active[w] THEN Append(stack[w], Frame("flush", NoJob)) ELSE <<>>)
    /\ UNCHANGED <<allocated, jobVars, ghosts, queue, flags>>

(* jobsystem::stop(): WorkerThread::stop() of each Full worker in turn.    *)
BeginStop ==
    /\ "stop" \in Uses
    /\ stack[Main] = <<Frame("code", NoJob)>>
    /\ SetStack(Main, <<Frame("stop", NoJob)>>)
    /\ UNCHANGED <<allocated, jobVars, ghosts, queue, flags>>

StopWorker ==
    /\ At(Main, "stop")
    /\ \E v \in Full :
          /\ active[v]
          /\ active' = [active EXCEPT ![v] = FALSE]
    /\ should_sleep' = FALSE
    /\ SetStack(Main, Append(stack[Main], Frame("notifyAll", NoJob)))
    /\ UNCHANGED <<allocated, jobVars, ghosts, queue>>

NotifyAll ==
    /\ At(Main, "notifyAll")
    /\ stack' = [w \in Workers |-> IF w = Main \/ w \in Sleepers THEN Pop(stack[w]) ELSE stack[w]]
    /\ UNCHANGED <<allocated, jobVars, ghosts, queue, flags>>

EndStop ==
    /\ At(Main, "stop") /\ \A v \in Full : ~active[v]
    /\ SetStack(Main, <<>>)
    /\ UNCHANGED <<allocated, jobVars, ghosts, queue, flags>>

-----------------------------------------------------------------------------
Internal(w) ==
    \/ LinkWrite(w) \/ Return(w) \/ Waiting(w) \/ Notify(w)
    \/ Finish(w) \/ Check(w) \/ Dependents(w)
    \/ PopOwn(w) \/ Steal(w) \/ Doze(w) \/ Sleep(w) \/ Loop(w)

Stopping == StopWorker \/ NotifyAll \/ EndStop

Next ==
    \/ \E w \in Workers : Client(w) \/ Internal(w)
    \/ \E w \in Full : SpuriousWake(w)
    \/ BeginStop \/ Stopping

Spec == Init /\ [][Next]_vars

AtMainCode(w) == At(w, "code") /\ Top(w).job = NoJob

(* A thread inside the job system or in the body of a job is never stopped *)
(* for ever; the main thread's own code need not go on, and nobody is      *)
(* woken for nothing.                                                      *)
Fairness ==
    /\ \A w \in Workers : WF_vars(Internal(w) \/ (~AtMainCode(w) /\ Client(w)))
    /\ WF_vars(Stopping)

FairSpec == Spec /\ Fairness

-----------------------------------------------------------------------------
(* Properties.                                                             *)

(* Every variable has its type; a counter stays within its 8 bits.         *)
TypeOK ==
    /\ allocated \in [Workers -> Nat]
    /\ life \in [Jobs -> {"free", "fresh", "scheduled", "linked"}]
    /\ creator \in [Jobs -> Jobs \cup {NoJob}]
    /\ type \in [Jobs -> Types]
    /\ parent \in [Jobs -> Jobs \cup {NoJob}]
    /\ unfinished \in [Jobs -> 0 .. CounterSize - 1]
    /\ dependent_count \in [Jobs -> 0 .. MaxDependents - 1]
    /\ dependents \in [Jobs -> [0 .. MaxDependents - 1 -> Jobs \cup {NoJob}]]
    /\ after \in [Jobs -> SUBSET Jobs]
    /\ runs \in [Jobs -> Nat]
    /\ queue \in [Workers -> Seq(Jobs)]
    /\ stack \in [Workers -> Seq(Frames)]
    /\ should_sleep \in BOOLEAN
    /\ active \in [Workers -> BOOLEAN]

QueuePlaces(j) ==
    UNION {{w} \X {i \in DOMAIN queue[w] : queue[w][i] = j} : w \in Workers}
InFrame(j, places) == \E w \in Workers : \E i \in DOMAIN stack[w] :
                         stack[w][i].at \in places /\ stack[w][i].job = j

(* A job is executed at most once: it is never in two queues, or twice in  *)
(* one, nor in a queue once its body was entered, whoever pops, steals,    *)
(* schedules or releases it (schedule, execute, pop, steal, finish).       *)
AtMostOnce == \A j \in Jobs : runs[j] + Cardinality(QueuePlaces(j)) <= 1

(* A parent is not finished before all of its children are, however the    *)
(* decrements of parent and children interleave ("If this job has any      *)
(* childs, it will wait", Job.h:94).                                       *)
ParentOutlivesChildren ==
    \A j \in Jobs : Used(j) /\ parent[j] # NoJob /\ unfinished[parent[j]] = 0
                        => unfinished[j] = 0

(* A job scheduled after another does not start before that one is         *)
(* finished ("Schedule the job after the specified job finish", Job.h:79). *)
StartsAfterDependences ==
    \A j \in Jobs : runs[j] > 0 => \A d \in after[j] : unfinished[d] = 0

(* A job scheduled after another is never forgotten: until it is queued or *)
(* run, it is still in a slot that somebody will visit.                    *)
AwaitsRelease(j, d) ==
    \/ \E w \in Workers : At(w, "link") /\ Top(w).job = d /\ Top(w).other = j
    \/ \E i \in 0 .. dependent_count[d] - 1 :
          /\ dependents[d][i] = j
          /\ \/ unfinished[d] # 0 \/ InFrame(d, {"check"})
             \/ \E w \in Workers : \E k \in DOMAIN stack[w] :
                   /\ stack[w][k].at = "dependents" /\ stack[w][k].job = d
                   /\ stack[w][k].n <= i
LinkedNotLost ==
    \A j \in Jobs : life[j] = "linked" /\ runs[j] = 0 =>
        QueuePlaces(j) # {} \/ \E d \in after[j] : AwaitsRelease(j, d)

(* A Full worker never sleeps on work of its own: the deque of a sleeping  *)
(* worker is empty, although jobs are pushed to it without a notify when   *)
(* it releases dependents.                                                 *)
SleepersHaveNoWork == \A w \in Sleepers : queue[w] = <<>>

(* Once finished, a job stays finished: its counter never leaves 0 again   *)
(* while the job keeps its slot (a waiter may look at any later time).     *)
FinishedStays ==
    [][\A j \in Jobs : Used(j) /\ runs[j] > 0 /\ unfinished[j] = 0
            => unfinished'[j] = 0 \/ runs'[j] = 0]_vars

(* The job system implements Tasks: whatever its workers, deques and       *)
(* counters do, a job is begun once, after its dependences, and its        *)
(* counter is 0 ("0 = finished", Job.h:49) from when its body has returned *)
(* and its children are done.                                              *)
StateOf(j) ==
    IF ~Used(j) THEN "unused"
    ELSE IF unfinished[j] = 0 THEN "done"
    ELSE IF runs[j] = 0 THEN IF life[j] = "fresh" THEN "created" ELSE "scheduled"
    ELSE IF InFrame(j, {"code"}) THEN "running" ELSE "returned"

Promised == INSTANCE Tasks WITH
    Task <- Jobs, NoTask <- NoJob,
    state <- [j \in Jobs |-> StateOf(j)],
    needs <- after,
    whole <- parent

ImplementsTasks == Promised!TasksSpec

(* wait() called by the main thread's own code returns: the main worker    *)
(* never sleeps and empties its own deque while it waits.                  *)
MainWaitReturns == (Len(stack[Main]) = 2 /\ At(Main, "wait")) ~> stack[Main] = <<Frame("code", NoJob)>>

(* wait() called by the body of a job, on any worker, returns ("Wait for a *)
(* job", Job.h:82).                                                        *)
JobWaitReturns ==
    \A w \in Full : (Len(stack[w]) = 3 /\ At(w, "wait")) ~> (Len(stack[w]) < 3)

(* Work of a Full worker is not stranded: what is pushed to its deque is   *)
(* popped or stolen, although nobody may be notified of it.                *)
FullQueuesDrain == \A w \in Full : queue[w] # <<>> ~> queue[w] = <<>>
=============================================================================
