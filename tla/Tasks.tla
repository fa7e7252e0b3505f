-------------------------------- MODULE Tasks --------------------------------
(***************************************************************************)
(* What the job system promises its clients, without workers, deques or    *)
(* counters: a task is begun once, after what it needs is done, its body   *)
(* returns, and it is done when its body has returned and its parts are    *)
(* done. JobSystem implements this; Content builds on it.                  *)
(***************************************************************************)
CONSTANTS Task, NoTask

VARIABLES
    state,      \* how far each task is
    needs,      \* the tasks it was scheduled after
    whole       \* the task it is a part of: its parent

tasks == <<state, needs, whole>>

States == {"unused", "created", "scheduled", "running", "returned", "done"}
Done(S) == \A t \in S : state[t] = "done"
Parts(t) == {c \in Task : whole[c] = t}

TasksInit ==
    /\ state = [t \in Task |-> "unused"]
    /\ needs = [t \in Task |-> {}]
    /\ whole = [t \in Task |-> NoTask]

Reach(t, s) == state' = [state EXCEPT ![t] = s]

(* The slot of a task that is done may be used again.                      *)
Free(t) == state[t] \in {"unused", "done"}

(* create_job, create_child_job: a child is added to a job that is not done. *)
CreateTask(t) ==
    /\ Free(t)
    /\ Reach(t, "created")
    /\ needs' = [needs EXCEPT ![t] = {}]
    /\ \E p \in {q \in Task \ {t} : ~Free(q)} \cup {NoTask} :
          whole' = [whole EXCEPT ![t] = p]

(* schedule(job) *)
ScheduleTask(t) ==
    /\ state[t] = "created"
    /\ Reach(t, "scheduled")
    /\ UNCHANGED <<needs, whole>>

(* schedule(job) of a Lightweight job, which runs at once.                 *)
RunTask(t) ==
    /\ state[t] = "created"
    /\ Reach(t, "running")
    /\ UNCHANGED <<needs, whole>>

(* schedule(job, dependence) *)
LinkTask(t) ==
    /\ state[t] = "created"
    /\ Reach(t, "scheduled")
    /\ \E d \in Task \ {t} :
          /\ state[d] # "unused"
          /\ needs' = [needs EXCEPT ![t] = {d}]
    /\ UNCHANGED whole

BeginTask(t) ==
    /\ state[t] = "scheduled" /\ Done(needs[t])
    /\ Reach(t, "running")
    /\ UNCHANGED <<needs, whole>>

ReturnTask(t) ==
    /\ state[t] = "running"
    /\ Reach(t, "returned")
    /\ UNCHANGED <<needs, whole>>

CompleteTask(t) ==
    /\ state[t] = "returned" /\ Done(Parts(t))
    /\ Reach(t, "done")
    /\ UNCHANGED <<needs, whole>>

TasksNext ==
    \E t \in Task : state'[t] # state[t] /\
        \/ CreateTask(t) \/ ScheduleTask(t) \/ RunTask(t) \/ LinkTask(t)
        \/ BeginTask(t) \/ ReturnTask(t) \/ CompleteTask(t)

TasksSpec == TasksInit /\ [][TasksNext]_tasks

-----------------------------------------------------------------------------
(* async(lambda) is create_job and schedule by one thread; no other thread *)
(* knows the task in between.                                              *)
Async(t) ==
    /\ Free(t)
    /\ Reach(t, "scheduled")
    /\ needs' = [needs EXCEPT ![t] = {}]
    /\ whole' = [whole EXCEPT ![t] = NoTask]

(* The end of a job without children, for which nobody waits.              *)
EndTask(t) ==
    /\ state[t] = "running" /\ Parts(t) = {}
    /\ Reach(t, "done")
    /\ UNCHANGED <<needs, whole>>
=============================================================================
