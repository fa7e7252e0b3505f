--------------------------- MODULE JobSystemProofs ---------------------------
(***************************************************************************)
(* Type correctness of JobSystem, and that a sleeping worker's deque is    *)
(* empty, for any number of workers, slots and jobs and any client code.   *)
(***************************************************************************)
EXTENDS JobSystem, SequenceTheorems, TLAPS

(* Where flush() has already found the worker's own deque empty.           *)
Searching == {"stealMain", "retry", "stealAny", "doze", "sleep", "asleep"}

(* Frames whose job is not null.                                           *)
OfJob == {"wait", "finish", "check", "dependents", "link"}

GoodFrame(f) == f \in Frames /\ (f.at \in OfJob => f.job \in Jobs)

(* A thread is searching for work, or asleep, only in its innermost call.  *)
GoodStack(s) ==
    /\ s \in Seq(Frames)
    /\ \A i \in 1 .. Len(s) : /\ GoodFrame(s[i])
                              /\ i < Len(s) => s[i].at \notin Searching

Seeks(s) == s # <<>> /\ s[Len(s)].at \in Searching

StacksOK == \A w \in Workers : GoodStack(stack[w])
SeekersHaveNoWork == \A w \in Full : Seeks(stack[w]) => queue[w] = <<>>

(* The inductive invariant: a worker between its failed pop and its sleep  *)
(* has an empty deque, because only its own thread pushes to it.           *)
IInv == TypeOK /\ StacksOK /\ SeekersHaveNoWork

-----------------------------------------------------------------------------
(* What pushing, popping and replacing a frame does to a stack.            *)

LEMMA TopFrame ==
    ASSUME NEW s, GoodStack(s), s # <<>>
    PROVE  Len(s) \in Nat \ {0} /\ GoodFrame(s[Len(s)])
<1>1. Len(s) \in Nat \ {0}
  BY EmptySeq DEF GoodStack
<1>2. QED
  BY <1>1 DEF GoodStack

LEMMA PopStack ==
    ASSUME NEW s, GoodStack(s), s # <<>>
    PROVE  GoodStack(Pop(s)) /\ ~Seeks(Pop(s))
<1>1. s \in Seq(Frames) /\ Len(s) \in Nat \ {0}
  BY EmptySeq DEF GoodStack
<1>2. \A i \in 1 .. Len(s) - 1 : s[i] \in Frames
  BY <1>1, ElementOfSeq
<1>3. /\ Pop(s) \in Seq(Frames) /\ Len(Pop(s)) = Len(s) - 1
      /\ \A i \in 1 .. Len(s) - 1 : Pop(s)[i] = s[i]
  <2> DEFINE n == Len(s) - 1
             u == SubSeq(s, 1, n)
  <2>1. n \in Int /\ n \in Nat
    BY <1>1
  <2> HIDE DEF n
  <2>2. \A i \in 1 .. n : s[i] \in Frames
    BY <1>2 DEF n
  <2>3. /\ u \in Seq(Frames)
        /\ Len(u) = IF 1 <= n THEN n - 1 + 1 ELSE 0
        /\ \A i \in 1 .. n - 1 + 1 : u[i] = s[1 + i - 1]
    BY <2>1, <2>2, SubSeqProperties
  <2> HIDE DEF u
  <2>4. u \in Seq(Frames) /\ Len(u) = n /\ \A i \in 1 .. n : u[i] = s[i]
    BY <2>1, <2>3
  <2>5. QED
    BY <2>4 DEF Pop, u, n
<1>4. \A i \in 1 .. Len(Pop(s)) : GoodFrame(Pop(s)[i]) /\ Pop(s)[i].at \notin Searching
  BY <1>1, <1>3 DEF GoodStack
<1>5. Pop(s) # <<>> => Len(Pop(s)) \in 1 .. Len(Pop(s))
  BY <1>3, EmptySeq
<1>6. QED
  BY <1>3, <1>4, <1>5 DEF GoodStack, Seeks

LEMMA PushStack ==
    ASSUME NEW s, GoodStack(s), ~Seeks(s), NEW f, GoodFrame(f)
    PROVE  /\ GoodStack(Append(s, f))
           /\ Seeks(Append(s, f)) <=> f.at \in Searching
           /\ Append(s, f) # <<>>
<1> DEFINE t == Append(s, f)
<1>1. /\ s \in Seq(Frames) /\ f \in Frames /\ Len(s) \in Nat
      /\ t \in Seq(Frames) /\ t # <<>> /\ Len(t) = Len(s) + 1
      /\ \A i \in 1 .. Len(s) : t[i] = s[i]
      /\ t[Len(s) + 1] = f
  BY AppendProperties, LenProperties DEF GoodStack, GoodFrame
<1>2. \A i \in 1 .. Len(s) : s[i].at \notin Searching
  <2> TAKE i \in 1 .. Len(s)
  <2>1. CASE i < Len(s)
    BY <2>1 DEF GoodStack
  <2>2. CASE i = Len(s)
    <3>1. s # <<>>
      BY <2>2, <1>1, EmptySeq
    <3>2. QED
      BY <2>2, <3>1 DEF Seeks
  <2>3. QED
    BY <1>1, <2>1, <2>2
<1> HIDE DEF t
<1>3. \A i \in 1 .. Len(t) : GoodFrame(t[i]) /\ (i < Len(t) => t[i].at \notin Searching)
  <2> TAKE i \in 1 .. Len(t)
  <2>1. CASE i = Len(s) + 1
    BY <1>1, <2>1
  <2>2. CASE i \in 1 .. Len(s)
    BY <1>1, <1>2, <2>2 DEF GoodStack
  <2>3. QED
    BY <1>1, <2>1, <2>2
<1>4. GoodStack(t) /\ t # <<>> /\ (Seeks(t) <=> f.at \in Searching)
  BY <1>1, <1>3 DEF GoodStack, Seeks
<1>5. QED
  BY <1>4 DEF t

LEMMA GotoStack ==
    ASSUME NEW s, GoodStack(s), s # <<>>, NEW f, GoodFrame(f)
    PROVE  /\ GoodStack(Goto(s, f))
           /\ Seeks(Goto(s, f)) <=> f.at \in Searching
           /\ Goto(s, f) # <<>>
BY PopStack, PushStack DEF Goto

LEMMA FrameType ==
    ASSUME NEW at \in Places, NEW j \in Jobs \cup {NoJob}, at \in OfJob => j \in Jobs
    PROVE  GoodFrame(Frame(at, j)) /\ Frame(at, j).at = at
BY DEF GoodFrame, Frame, Frames

LEMMA LoopFrameType ==
    ASSUME NEW j \in Jobs, NEW i \in Nat
    PROVE  GoodFrame(LoopFrame(j, i)) /\ LoopFrame(j, i).at = "dependents"
BY DEF GoodFrame, LoopFrame, Frames, Places

LEMMA LinkFrameType ==
    ASSUME NEW d \in Jobs, NEW j \in Jobs, NEW i \in Nat
    PROVE  GoodFrame(LinkFrame(d, j, i)) /\ LinkFrame(d, j, i).at = "link"
BY DEF GoodFrame, LinkFrame, Frames, Places

(* A step of w that replaces its stack keeps every stack good, and no      *)
(* searcher gets work if no deque grows but, perhaps, that of w.           *)
LEMMA OneStack ==
    ASSUME IInv, NEW w \in Workers, NEW s, GoodStack(s), SetStack(w, s)
    PROVE  stack' \in [Workers -> Seq(Frames)] /\ StacksOK'
<1>1. /\ stack \in [Workers -> Seq(Frames)] /\ s \in Seq(Frames)
      /\ stack' = [stack EXCEPT ![w] = s]
  BY DEF IInv, TypeOK, SetStack, GoodStack
<1>2. \A v \in Workers : GoodStack(stack'[v])
  BY <1>1 DEF IInv, StacksOK
<1>3. QED
  BY <1>1, <1>2 DEF StacksOK

LEMMA OneSeeker ==
    ASSUME IInv, NEW w \in Workers, NEW s, GoodStack(s), SetStack(w, s),
           \A v \in Workers \ {w} : queue[v] = <<>> => queue'[v] = <<>>,
           w \in Full /\ Seeks(s) => queue'[w] = <<>>
    PROVE  SeekersHaveNoWork'
<1>1. stack' = [stack EXCEPT ![w] = s] /\ stack \in [Workers -> Seq(Frames)]
  BY DEF IInv, TypeOK, SetStack
<1>2. ASSUME NEW v \in Full, Seeks(stack'[v])
      PROVE  queue'[v] = <<>>
  <2>1. CASE v = w
    BY <1>1, <1>2, <2>1
  <2>2. CASE v # w
    <3>1. v \in Workers /\ stack'[v] = stack[v]
      BY <1>1, <2>2 DEF Workers
    <3>2. QED
      BY <1>2, <2>2, <3>1 DEF IInv, SeekersHaveNoWork
  <2>3. QED
    BY <2>1, <2>2
<1>3. QED
  BY <1>2 DEF SeekersHaveNoWork

(* Most steps change nothing but the stack of one thread.                  *)
LEMMA StackStep ==
    ASSUME IInv, NEW w \in Workers, NEW s, GoodStack(s), SetStack(w, s),
           UNCHANGED <<allocated, jobVars, ghosts, queue, flags>>,
           w \in Full /\ Seeks(s) => queue[w] = <<>>
    PROVE  IInv'
<1>1. stack' \in [Workers -> Seq(Frames)] /\ StacksOK'
  BY OneStack
<1>2. SeekersHaveNoWork'
  BY OneSeeker
<1>3. TypeOK'
  BY <1>1 DEF IInv, TypeOK, jobVars, ghosts, flags
<1>4. QED
  BY <1>1, <1>2, <1>3 DEF IInv

-----------------------------------------------------------------------------
(* Each action preserves the invariant.                                    *)

LEMMA AtTop ==
    ASSUME IInv, NEW w \in Workers, NEW p, At(w, p)
    PROVE  /\ GoodStack(stack[w]) /\ stack[w] # <<>>
           /\ GoodFrame(Top(w)) /\ Top(w).at = p
           /\ Seeks(stack[w]) <=> p \in Searching
BY TopFrame DEF IInv, StacksOK, At, Top, Seeks

LEMMA CallWaitStep ==
    ASSUME IInv, NEW w \in Workers, NEW j \in Jobs, CallWait(w, j)
    PROVE  IInv'
<1>1. GoodStack(stack[w]) /\ ~Seeks(stack[w])
  BY AtTop DEF CallWait, Searching
<1>2. GoodFrame(Frame("wait", j)) /\ Frame("wait", j).at = "wait"
  BY FrameType DEF Places
<1>3. GoodStack(Append(stack[w], Frame("wait", j))) /\ ~Seeks(Append(stack[w], Frame("wait", j)))
  BY <1>1, <1>2, PushStack DEF Searching
<1>4. QED
  BY <1>3, StackStep DEF CallWait

LEMMA ReturnStep ==
    ASSUME IInv, NEW w \in Workers, Return(w)
    PROVE  IInv'
<1> DEFINE f == Frame("finish", Top(w).job)
<1>1. GoodStack(stack[w]) /\ stack[w] # <<>> /\ GoodFrame(Top(w))
  BY AtTop DEF Return
<1>2. GoodFrame(f) /\ f.at = "finish"
  <2>1. Top(w).job \in Jobs
    BY <1>1 DEF Return, GoodFrame, Frames
  <2>2. QED
    BY <2>1, FrameType DEF Places
<1>3. GoodStack(Goto(stack[w], f)) /\ ~Seeks(Goto(stack[w], f))
  BY <1>1, <1>2, GotoStack DEF Searching
<1>4. QED
  BY <1>3, StackStep DEF Return

LEMMA WaitingStep ==
    ASSUME IInv, NEW w \in Workers, Waiting(w)
    PROVE  IInv'
<1> DEFINE pushed == Append(stack[w], Frame("flush", NoJob))
           both == Append(pushed, Frame("notify", NoJob))
<1>1. GoodStack(stack[w]) /\ stack[w] # <<>> /\ ~Seeks(stack[w])
  BY AtTop DEF Waiting, Searching
<1>2. CASE unfinished[Top(w).job] = 0
  <2>1. GoodStack(Pop(stack[w])) /\ ~Seeks(Pop(stack[w]))
    BY <1>1, PopStack
  <2>2. SetStack(w, Pop(stack[w]))
    BY <1>2 DEF Waiting
  <2>3. QED
    BY <2>1, <2>2, StackStep DEF Waiting
<1>3. CASE unfinished[Top(w).job] # 0
  <2>1. /\ GoodFrame(Frame("flush", NoJob)) /\ Frame("flush", NoJob).at = "flush"
        /\ GoodFrame(Frame("notify", NoJob)) /\ Frame("notify", NoJob).at = "notify"
    BY FrameType DEF Places, OfJob
  <2>2. GoodStack(pushed) /\ ~Seeks(pushed)
    BY <1>1, <2>1, PushStack DEF Searching
  <2> HIDE DEF pushed
  <2>3. GoodStack(both) /\ ~Seeks(both)
    BY <2>1, <2>2, PushStack DEF Searching
  <2>4. SetStack(w, both)
    BY <1>3 DEF Waiting, pushed
  <2>5. QED
    BY <2>3, <2>4, StackStep DEF Waiting
<1>4. QED
  BY <1>2, <1>3

LEMMA CheckStep ==
    ASSUME IInv, NEW w \in Workers, Check(w)
    PROVE  IInv'
<1> DEFINE j == Top(w).job
           rest == Goto(stack[w], LoopFrame(j, FirstDependent))
<1>1. GoodStack(stack[w]) /\ stack[w] # <<>> /\ GoodFrame(Top(w)) /\ Top(w).at = "check"
  BY AtTop DEF Check
<1>2. j \in Jobs
  BY <1>1 DEF GoodFrame, OfJob
<1> HIDE DEF j
<1>3. GoodStack(rest) /\ ~Seeks(rest)
  BY <1>1, <1>2, LoopFrameType, GotoStack DEF Searching, FirstDependent
<1> HIDE DEF rest
<1>4. CASE unfinished[j] # 0
  BY <1>1, <1>4, PopStack, StackStep DEF Check, j
<1>5. CASE unfinished[j] = 0 /\ parent[j] = NoJob
  <2>1. SetStack(w, rest)
    BY <1>5 DEF Check, j, rest
  <2>2. QED
    BY <1>3, <2>1, StackStep DEF Check
<1>6. CASE unfinished[j] = 0 /\ parent[j] # NoJob
  <2> DEFINE f == Frame("finish", parent[j])
  <2>1. GoodFrame(f) /\ f.at = "finish"
    <3>1. parent[j] \in Jobs
      BY <1>2, <1>6 DEF IInv, TypeOK
    <3>2. QED
      BY <3>1, FrameType DEF Places
  <2>2. GoodStack(Append(rest, f)) /\ ~Seeks(Append(rest, f))
    BY <1>3, <2>1, PushStack DEF Searching
  <2>3. SetStack(w, Append(rest, f))
    BY <1>6 DEF Check, j, rest
  <2>4. QED
    BY <2>2, <2>3, StackStep DEF Check
<1>7. QED
  BY <1>4, <1>5, <1>6

LEMMA DozeStep ==
    ASSUME IInv, NEW w \in Workers, Doze(w)
    PROVE  IInv'
<1> DEFINE f == Frame("sleep", NoJob)
<1>1. GoodStack(stack[w]) /\ stack[w] # <<>> /\ (w \in Full => queue[w] = <<>>)
  BY AtTop DEF Doze, Searching, IInv, SeekersHaveNoWork
<1>2. GoodFrame(f)
  BY FrameType DEF Places, OfJob
<1>3. GoodStack(Goto(stack[w], f)) /\ GoodStack(Pop(stack[w]))
  BY <1>1, <1>2, GotoStack, PopStack
<1>4. QED
  BY <1>1, <1>3, StackStep DEF Doze

LEMMA SleepStep ==
    ASSUME IInv, NEW w \in Workers, Sleep(w)
    PROVE  IInv'
<1> DEFINE f == Frame("asleep", NoJob)
<1>1. GoodStack(stack[w]) /\ stack[w] # <<>> /\ (w \in Full => queue[w] = <<>>)
  BY AtTop DEF Sleep, Searching, IInv, SeekersHaveNoWork
<1>2. GoodFrame(f)
  BY FrameType DEF Places, OfJob
<1>3. GoodStack(Goto(stack[w], f))
  BY <1>1, <1>2, GotoStack
<1>4. QED
  BY <1>1, <1>3, StackStep DEF Sleep

LEMMA SpuriousWakeStep ==
    ASSUME IInv, NEW w \in Workers, SpuriousWake(w)
    PROVE  IInv'
<1>1. GoodStack(stack[w]) /\ stack[w] # <<>>
  BY AtTop DEF SpuriousWake, Sleepers
<1>2. QED
  BY <1>1, PopStack, StackStep DEF SpuriousWake

LEMMA EmptyStack == GoodStack(<<>>) /\ ~Seeks(<<>>)
<1>1. <<>> \in Seq(Frames) /\ Len(<<>>) = 0
  BY EmptySeq
<1>2. QED
  BY <1>1 DEF GoodStack, Seeks

LEMMA LoopStep ==
    ASSUME IInv, NEW w \in Workers, Loop(w)
    PROVE  IInv'
<1> DEFINE f == Frame("flush", NoJob)
<1>1. GoodStack(stack[w]) /\ ~Seeks(stack[w])
  BY AtTop DEF Loop, Searching
<1>2. GoodFrame(f) /\ f.at = "flush"
  BY FrameType DEF Places, OfJob
<1>3. GoodStack(Append(stack[w], f)) /\ ~Seeks(Append(stack[w], f))
  BY <1>1, <1>2, PushStack DEF Searching
<1>4. CASE active[w]
  BY <1>3, <1>4, StackStep DEF Loop
<1>5. CASE ~active[w]
  BY <1>5, EmptyStack, StackStep DEF Loop
<1>6. QED
  BY <1>4, <1>5

LEMMA BeginStopStep ==
    ASSUME IInv, BeginStop
    PROVE  IInv'
<1> DEFINE f == Frame("stop", NoJob)
<1>1. GoodFrame(f) /\ f.at = "stop"
  BY FrameType DEF Places, OfJob
<1>2. GoodStack(Append(<<>>, f)) /\ ~Seeks(Append(<<>>, f))
  BY <1>1, EmptyStack, PushStack DEF Searching
<1>3. Append(<<>>, f) = <<f>>
  OBVIOUS
<1>4. QED
  BY <1>2, <1>3, StackStep DEF BeginStop, Workers

LEMMA EndStopStep ==
    ASSUME IInv, EndStop
    PROVE  IInv'
BY EmptyStack, StackStep DEF EndStop, Workers

LEMMA NotifyStep ==
    ASSUME IInv, NEW w \in Workers, Notify(w)
    PROVE  IInv'
<1>1. GoodStack(stack[w]) /\ stack[w] # <<>> /\ Top(w).at = "notify"
  BY AtTop DEF Notify
<1>2. GoodStack(Pop(stack[w])) /\ ~Seeks(Pop(stack[w]))
  BY <1>1, PopStack
<1>3. CASE SetStack(w, Pop(stack[w]))
  BY <1>2, <1>3, StackStep DEF Notify
<1>4. ASSUME NEW s \in Sleepers,
             stack' = [stack EXCEPT ![w] = Pop(@), ![s] = Pop(@)]
      PROVE  IInv'
  <2>1. /\ s \in Full /\ s \in Workers /\ s # w
        /\ GoodStack(Pop(stack[s])) /\ ~Seeks(Pop(stack[s]))
    BY <1>1, AtTop, PopStack DEF Sleepers, Workers, At
  <2>2. \A v \in Workers : stack'[v] = IF v \in {w, s} THEN Pop(stack[v]) ELSE stack[v]
    BY <1>4, <2>1 DEF IInv, TypeOK
  <2>3. StacksOK'
    BY <1>2, <2>1, <2>2 DEF IInv, StacksOK
  <2>4. stack' \in [Workers -> Seq(Frames)]
    <3>1. stack' = [v \in Workers |-> stack'[v]]
      BY <1>4 DEF IInv, TypeOK
    <3>2. \A v \in Workers : stack'[v] \in Seq(Frames)
      BY <2>3 DEF StacksOK, GoodStack
    <3>3. QED
      BY <3>1, <3>2
  <2>5. SeekersHaveNoWork'
    BY <1>2, <2>1, <2>2 DEF IInv, SeekersHaveNoWork, Workers, Notify
  <2>6. TypeOK'
    BY <2>4 DEF IInv, TypeOK, Notify, jobVars, ghosts, flags
  <2>7. QED
    BY <2>3, <2>5, <2>6 DEF IInv
<1>5. QED
  BY <1>3, <1>4 DEF Notify

LEMMA NotifyAllStep ==
    ASSUME IInv, NotifyAll
    PROVE  IInv'
<1>1. \A v \in Workers : stack'[v] = IF v = Main \/ v \in Sleepers
                                     THEN Pop(stack[v]) ELSE stack[v]
  BY DEF NotifyAll
<1>2. \A v \in Workers : v = Main \/ v \in Sleepers
                            => GoodStack(Pop(stack[v])) /\ ~Seeks(Pop(stack[v]))
  BY AtTop, PopStack DEF NotifyAll, Sleepers, Workers
<1>3. StacksOK'
  BY <1>1, <1>2 DEF IInv, StacksOK
<1>4. stack' \in [Workers -> Seq(Frames)]
  BY <1>1, <1>3 DEF NotifyAll, StacksOK, GoodStack
<1>5. SeekersHaveNoWork'
  BY <1>1, <1>2 DEF IInv, SeekersHaveNoWork, Workers, NotifyAll
<1>6. TypeOK'
  BY <1>4 DEF IInv, TypeOK, NotifyAll, jobVars, ghosts, flags
<1>7. QED
  BY <1>3, <1>5, <1>6 DEF IInv

LEMMA StopWorkerStep ==
    ASSUME IInv, StopWorker
    PROVE  IInv'
<1> DEFINE f == Frame("notifyAll", NoJob)
<1>1. Main \in Workers /\ GoodStack(stack[Main]) /\ ~Seeks(stack[Main])
  BY AtTop DEF StopWorker, Searching, Workers
<1>2. GoodFrame(f) /\ f.at = "notifyAll"
  BY FrameType DEF Places, OfJob
<1>3. GoodStack(Append(stack[Main], f)) /\ ~Seeks(Append(stack[Main], f))
  BY <1>1, <1>2, PushStack DEF Searching
<1>4. SetStack(Main, Append(stack[Main], f))
  BY DEF StopWorker
<1>5. stack' \in [Workers -> Seq(Frames)] /\ StacksOK'
  BY <1>1, <1>3, <1>4, OneStack
<1>6. SeekersHaveNoWork'
  BY <1>1, <1>3, <1>4, OneSeeker DEF StopWorker
<1>7. TypeOK'
  BY <1>5 DEF IInv, TypeOK, StopWorker, jobVars, ghosts
<1>8. QED
  BY <1>5, <1>6, <1>7 DEF IInv

LEMMA CreateStep ==
    ASSUME IInv, NEW w \in Workers, NEW t \in Types, NEW p \in Jobs \cup {NoJob},
           Create(w, t, p)
    PROVE  IInv'
<1> DEFINE slot == <<w, (allocated[w] + 1) % PoolSize>>
<1>1. slot \in Jobs
  <2>1. allocated[w] \in Nat /\ PoolSize \in Nat \ {0}
    BY PoolAssumption DEF IInv, TypeOK
  <2>2. (allocated[w] + 1) % PoolSize \in 0 .. PoolSize - 1
    BY <2>1
  <2>3. QED
    BY <2>2 DEF Jobs
<1>2. Top(w).job \in Jobs \cup {NoJob}
  BY AtTop DEF Create, GoodFrame, Frames
<1>3. unfinished' \in [Jobs -> 0 .. CounterSize - 1]
  <2>1. \A k \in Jobs : unfinished[k] \in 0 .. CounterSize - 1
    BY DEF IInv, TypeOK
  <2>2. p \in Jobs => unfinished[p] < CounterSize - 1
    BY PoolAssumption DEF Create, BelowMaxChilds
  <2>3. \A k \in Jobs : (IF k = slot THEN 1 ELSE IF k = p THEN unfinished[k] + 1 ELSE unfinished[k])
                            \in 0 .. CounterSize - 1
    BY <2>1, <2>2, CounterAssumption
  <2>4. unfinished' = [k \in Jobs |-> IF k = slot THEN 1
                                      ELSE IF k = p THEN unfinished[k] + 1 ELSE unfinished[k]]
    BY DEF Create, Counted
  <2> HIDE DEF slot
  <2>5. QED
    BY <2>3, <2>4
<1> HIDE DEF slot
<1>4. /\ allocated' \in [Workers -> Nat]
      /\ life' \in [Jobs -> {"free", "fresh", "scheduled", "linked"}]
      /\ creator' \in [Jobs -> Jobs \cup {NoJob}]
      /\ type' \in [Jobs -> Types]
      /\ parent' \in [Jobs -> Jobs \cup {NoJob}]
      /\ dependent_count' \in [Jobs -> 0 .. MaxDependents - 1]
      /\ after' \in [Jobs -> SUBSET Jobs]
      /\ runs' \in [Jobs -> Nat]
  BY <1>1, <1>2, CounterAssumption DEF IInv, TypeOK, Create, slot
<1>5. UNCHANGED <<dependents, queue, stack, flags>>
  BY DEF Create
<1>6. TypeOK'
  BY <1>3, <1>4, <1>5 DEF IInv, TypeOK, flags
<1>7. StacksOK' /\ SeekersHaveNoWork'
  BY <1>5 DEF IInv, StacksOK, SeekersHaveNoWork
<1>8. QED
  BY <1>6, <1>7 DEF IInv

LEMMA EnterType ==
    ASSUME IInv, NEW w, NEW j \in Jobs, Enter(w, j)
    PROVE  runs' \in [Jobs -> Nat]
BY DEF IInv, TypeOK, Enter

LEMMA PushJob ==
    ASSUME IInv, NEW w \in Workers, NEW j \in Jobs,
           queue' = [queue EXCEPT ![w] = Append(@, j)]
    PROVE  /\ queue' \in [Workers -> Seq(Jobs)]
           /\ \A v \in Workers \ {w} : queue'[v] = queue[v]
<1>1. queue \in [Workers -> Seq(Jobs)]
  BY DEF IInv, TypeOK
<1>2. Append(queue[w], j) \in Seq(Jobs)
  BY <1>1, AppendProperties
<1>3. QED
  BY <1>1, <1>2

LEMMA ScheduleStep ==
    ASSUME IInv, NEW w \in Workers, NEW j \in Jobs, Schedule(w, j)
    PROVE  IInv'
<1> DEFINE n == Frame("notify", NoJob)
           c == Frame("code", j)
<1>1. GoodStack(stack[w]) /\ ~Seeks(stack[w])
  BY AtTop DEF Schedule, Searching
<1>2. GoodFrame(n) /\ GoodFrame(c) /\ n.at = "notify" /\ c.at = "code"
  BY FrameType DEF Places, OfJob
<1>3. /\ GoodStack(Append(stack[w], n)) /\ ~Seeks(Append(stack[w], n))
      /\ GoodStack(Append(stack[w], c)) /\ ~Seeks(Append(stack[w], c))
  BY <1>1, <1>2, PushStack DEF Searching
<1>4. life' \in [Jobs -> {"free", "fresh", "scheduled", "linked"}]
  BY DEF IInv, TypeOK, Schedule
<1> HIDE DEF n, c
<1>5. CASE /\ queue' = [queue EXCEPT ![w] = Append(@, j)]
           /\ SetStack(w, Append(stack[w], n)) /\ UNCHANGED runs
  <2>1. stack' \in [Workers -> Seq(Frames)] /\ StacksOK'
    BY <1>3, <1>5, OneStack
  <2>2. queue' \in [Workers -> Seq(Jobs)] /\ SeekersHaveNoWork'
    BY <1>3, <1>5, PushJob, OneSeeker
  <2>3. TypeOK'
    BY <1>4, <1>5, <2>1, <2>2 DEF IInv, TypeOK, Schedule, jobVars, flags
  <2>4. QED
    BY <2>1, <2>2, <2>3 DEF IInv
<1>6. CASE SetStack(w, Append(stack[w], c)) /\ Enter(w, j) /\ UNCHANGED queue
  <2>1. stack' \in [Workers -> Seq(Frames)] /\ StacksOK'
    BY <1>3, <1>6, OneStack
  <2>2. SeekersHaveNoWork'
    BY <1>3, <1>6, OneSeeker
  <2>3. TypeOK'
    BY <1>4, <1>6, <2>1, EnterType DEF IInv, TypeOK, Schedule, jobVars, flags
  <2>4. QED
    BY <2>1, <2>2, <2>3 DEF IInv
<1>7. QED
  BY <1>5, <1>6 DEF Schedule, MyQueue, n, c

LEMMA ScheduleAfterStep ==
    ASSUME IInv, NEW w \in Workers, NEW j \in Jobs, NEW d \in Jobs, ScheduleAfter(w, j, d)
    PROVE  IInv'
<1> DEFINE f == LinkFrame(d, j, dependent_count[d])
<1>1. GoodStack(stack[w]) /\ ~Seeks(stack[w])
  BY AtTop DEF ScheduleAfter, Searching
<1>2. dependent_count \in [Jobs -> 0 .. MaxDependents - 1] /\ dependent_count[d] \in Nat
  BY CounterAssumption DEF IInv, TypeOK
<1>3. GoodStack(Append(stack[w], f)) /\ ~Seeks(Append(stack[w], f))
  BY <1>1, <1>2, LinkFrameType, PushStack DEF Searching
<1> HIDE DEF f
<1>4. SetStack(w, Append(stack[w], f)) /\ UNCHANGED queue
  BY DEF ScheduleAfter, f
<1>5. stack' \in [Workers -> Seq(Frames)] /\ StacksOK'
  BY <1>3, <1>4, OneStack
<1>6. SeekersHaveNoWork'
  BY <1>3, <1>4, OneSeeker
<1>7. dependent_count' \in [Jobs -> 0 .. MaxDependents - 1]
  BY <1>2, CounterAssumption DEF ScheduleAfter
<1>8. /\ life' \in [Jobs -> {"free", "fresh", "scheduled", "linked"}]
      /\ after' \in [Jobs -> SUBSET Jobs]
  BY DEF IInv, TypeOK, ScheduleAfter
<1>9. TypeOK'
  BY <1>4, <1>5, <1>7, <1>8 DEF IInv, TypeOK, ScheduleAfter, flags
<1>10. QED
  BY <1>5, <1>6, <1>9 DEF IInv

LEMMA LinkWriteStep ==
    ASSUME IInv, NEW w \in Workers, LinkWrite(w)
    PROVE  IInv'
<1>1. GoodStack(stack[w]) /\ stack[w] # <<>> /\ GoodFrame(Top(w)) /\ Top(w).at = "link"
  BY AtTop DEF LinkWrite
<1>2. GoodStack(Pop(stack[w])) /\ ~Seeks(Pop(stack[w])) /\ SetStack(w, Pop(stack[w]))
  BY <1>1, PopStack DEF LinkWrite
<1>3. stack' \in [Workers -> Seq(Frames)] /\ StacksOK'
  BY <1>2, OneStack
<1>4. SeekersHaveNoWork'
  BY <1>2, OneSeeker DEF LinkWrite
<1>5. dependents' \in [Jobs -> [0 .. MaxDependents - 1 -> Jobs \cup {NoJob}]]
  <2>1. Top(w).other \in Jobs \cup {NoJob} /\ Top(w).job \in Jobs
    BY <1>1 DEF GoodFrame, Frames, OfJob
  <2>2. QED
    BY <2>1 DEF IInv, TypeOK, LinkWrite
<1>6. TypeOK'
  BY <1>3, <1>5 DEF IInv, TypeOK, LinkWrite, ghosts, flags
<1>7. QED
  BY <1>3, <1>4, <1>6 DEF IInv

LEMMA FinishStep ==
    ASSUME IInv, NEW w \in Workers, Finish(w)
    PROVE  IInv'
<1> DEFINE j == Top(w).job
           f == Frame("check", j)
<1>1. GoodStack(stack[w]) /\ stack[w] # <<>> /\ GoodFrame(Top(w)) /\ Top(w).at = "finish"
  BY AtTop DEF Finish
<1>2. j \in Jobs
  BY <1>1 DEF GoodFrame, OfJob
<1>3. SetStack(w, Goto(stack[w], f)) /\ unfinished' = [unfinished EXCEPT ![j] = (@ - 1) % CounterSize]
  BY DEF Finish, Decremented
<1> HIDE DEF j
<1>4. GoodFrame(f) /\ f.at = "check"
  BY <1>2, FrameType DEF Places
<1>5. GoodStack(Goto(stack[w], f)) /\ ~Seeks(Goto(stack[w], f))
  BY <1>1, <1>4, GotoStack DEF Searching
<1> HIDE DEF f
<1>6. stack' \in [Workers -> Seq(Frames)] /\ StacksOK'
  BY <1>3, <1>5, OneStack
<1>7. SeekersHaveNoWork'
  BY <1>3, <1>5, OneSeeker DEF Finish
<1>8. unfinished' \in [Jobs -> 0 .. CounterSize - 1]
  <2>1. unfinished \in [Jobs -> 0 .. CounterSize - 1] /\ CounterSize \in Nat \ {0, 1}
    BY CounterAssumption DEF IInv, TypeOK
  <2>2. (unfinished[j] - 1) % CounterSize \in 0 .. CounterSize - 1
    BY <1>2, <2>1
  <2>3. QED
    BY <1>3, <2>1, <2>2
<1>9. TypeOK'
  BY <1>6, <1>8 DEF IInv, TypeOK, Finish, ghosts, flags
<1>10. QED
  BY <1>6, <1>7, <1>9 DEF IInv

LEMMA DependentsStep ==
    ASSUME IInv, NEW w \in Workers, Dependents(w)
    PROVE  IInv'
<1> DEFINE j == Top(w).job
           i == Top(w).n
           d == dependents[j][i]
           next == Goto(stack[w], LoopFrame(j, i + 1))
           c == Frame("code", d)
<1>1. GoodStack(stack[w]) /\ stack[w] # <<>> /\ GoodFrame(Top(w)) /\ Top(w).at = "dependents"
  BY AtTop DEF Dependents
<1>2. j \in Jobs /\ i \in Nat
  BY <1>1 DEF GoodFrame, OfJob, Frames
<1>3. GoodStack(Pop(stack[w])) /\ ~Seeks(Pop(stack[w]))
  BY <1>1, PopStack
<1>4. GoodStack(next) /\ ~Seeks(next)
  <2>1. i + 1 \in Nat
    BY <1>2
  <2> HIDE DEF i, j
  <2>2. QED
    BY <1>1, <1>2, <2>1, LoopFrameType, GotoStack DEF Searching
<1>5. i < dependent_count[j] /\ d # NoJob => d \in Jobs
  <2>1. i < dependent_count[j] => i \in 0 .. MaxDependents - 1
    BY <1>2, CounterAssumption DEF IInv, TypeOK
  <2>2. dependents[j] \in [0 .. MaxDependents - 1 -> Jobs \cup {NoJob}]
    BY <1>2 DEF IInv, TypeOK
  <2> HIDE DEF i, j
  <2>3. i < dependent_count[j] => d \in Jobs \cup {NoJob}
    BY <2>1, <2>2
  <2>4. QED
    BY <2>3
<1>6. d \in Jobs => GoodFrame(c) /\ c.at = "code"
  BY FrameType DEF Places, OfJob
<1>7. d \in Jobs => GoodStack(Append(next, c)) /\ ~Seeks(Append(next, c))
  BY <1>4, <1>6, PushStack DEF Searching
<1>8. \/ SetStack(w, Pop(stack[w])) /\ UNCHANGED <<queue, runs>>
      \/ SetStack(w, next) /\ UNCHANGED <<queue, runs>>
      \/ /\ d \in Jobs /\ queue' = [queue EXCEPT ![w] = Append(@, d)]
         /\ SetStack(w, next) /\ UNCHANGED runs
      \/ d \in Jobs /\ SetStack(w, Append(next, c)) /\ Enter(w, d) /\ UNCHANGED queue
  BY <1>5 DEF Dependents, MyQueue
<1>9. UNCHANGED <<allocated, jobVars, life, creator, after, flags>>
  BY DEF Dependents
<1> HIDE DEF j, i, d, next, c
<1>10. ASSUME NEW s, GoodStack(s), ~Seeks(s), SetStack(w, s),
              runs' \in [Jobs -> Nat], queue' \in [Workers -> Seq(Jobs)],
              \A v \in Workers \ {w} : queue'[v] = queue[v]
       PROVE  IInv'
  <2>1. stack' \in [Workers -> Seq(Frames)] /\ StacksOK'
    BY <1>10, OneStack
  <2>2. SeekersHaveNoWork'
    BY <1>10, OneSeeker
  <2>3. TypeOK'
    BY <1>9, <1>10, <2>1 DEF IInv, TypeOK, jobVars, flags
  <2>4. QED
    BY <2>1, <2>2, <2>3 DEF IInv
<1>11. runs \in [Jobs -> Nat] /\ queue \in [Workers -> Seq(Jobs)]
  BY DEF IInv, TypeOK
<1>12. CASE SetStack(w, Pop(stack[w])) /\ UNCHANGED <<queue, runs>>
  BY <1>3, <1>10, <1>11, <1>12
<1>13. CASE SetStack(w, next) /\ UNCHANGED <<queue, runs>>
  BY <1>4, <1>10, <1>11, <1>13
<1>14. CASE /\ d \in Jobs /\ queue' = [queue EXCEPT ![w] = Append(@, d)]
            /\ SetStack(w, next) /\ UNCHANGED runs
  BY <1>4, <1>10, <1>11, <1>14, PushJob
<1>15. CASE d \in Jobs /\ SetStack(w, Append(next, c)) /\ Enter(w, d) /\ UNCHANGED queue
  BY <1>7, <1>10, <1>11, <1>15, EnterType
<1>16. QED
  BY <1>8, <1>12, <1>13, <1>14, <1>15

(* Taking a job from a deque, at either end, leaves the others as they     *)
(* are, and an empty deque empty.                                          *)
LEMMA TakeJob ==
    ASSUME IInv, NEW w \in Workers, NEW v \in Workers, NEW j \in Jobs, NEW rest \in Seq(Jobs),
           UNCHANGED <<allocated, jobVars, life, creator, after, flags>>,
           w \in Full /\ Seeks(stack[w]) => queue[w] = <<>>,
           stack[w] # <<>>,
           SetStack(w, Goto(stack[w], Frame("code", j))), Enter(w, j),
           queue[v] # <<>>, queue' = [queue EXCEPT ![v] = rest]
    PROVE  IInv'
<1> DEFINE f == Frame("code", j)
<1>1. GoodFrame(f) /\ f.at = "code"
  BY FrameType DEF Places, OfJob
<1>2. GoodStack(Goto(stack[w], f)) /\ ~Seeks(Goto(stack[w], f))
  BY <1>1, GotoStack DEF Searching, IInv, StacksOK
<1> HIDE DEF f
<1>3. SetStack(w, Goto(stack[w], f))
  BY DEF f
<1>4. stack' \in [Workers -> Seq(Frames)] /\ StacksOK'
  BY <1>2, <1>3, OneStack
<1>5. queue' \in [Workers -> Seq(Jobs)] /\ \A u \in Workers : queue[u] = <<>> => queue'[u] = <<>>
  BY DEF IInv, TypeOK
<1>6. SeekersHaveNoWork'
  BY <1>2, <1>3, <1>5, OneSeeker
<1>7. runs' \in [Jobs -> Nat]
  BY EnterType
<1>8. TypeOK'
  BY <1>4, <1>5, <1>7 DEF IInv, TypeOK, jobVars, flags
<1>9. QED
  BY <1>4, <1>6, <1>8 DEF IInv

LEMMA PopOwnStep ==
    ASSUME IInv, NEW w \in Workers, PopOwn(w)
    PROVE  IInv'
<1>1. GoodStack(stack[w]) /\ stack[w] # <<>>
  BY AtTop DEF PopOwn
<1>2. UNCHANGED <<allocated, jobVars, life, creator, after, flags>> /\ queue[w] \in Seq(Jobs)
  BY DEF PopOwn, IInv, TypeOK
<1>3. CASE /\ queue[w] # <<>> /\ Enter(w, Head(queue[w]))
           /\ SetStack(w, Goto(stack[w], Frame("code", Head(queue[w]))))
           /\ queue' = [queue EXCEPT ![w] = Tail(@)]
  <2>1. Head(queue[w]) \in Jobs /\ Tail(queue[w]) \in Seq(Jobs)
    BY <1>2, <1>3, HeadTailProperties
  <2>2. queue' = [queue EXCEPT ![w] = Tail(queue[w])]
    BY <1>3
  <2>3. w \in Full /\ Seeks(stack[w]) => queue[w] = <<>>
    BY DEF IInv, SeekersHaveNoWork
  <2>4. QED
    BY <1>1, <1>2, <1>3, <2>1, <2>2, <2>3, TakeJob
<1>4. CASE queue[w] = <<>> /\ UNCHANGED <<queue, runs>>
  <2>1. \A at \in {"retry", "stealMain", "stealAny"} : GoodStack(Goto(stack[w], Frame(at, NoJob)))
    BY <1>1, FrameType, GotoStack DEF Places, OfJob
  <2>2. GoodStack(Pop(stack[w]))
    BY <1>1, PopStack
  <2>3. \E s : GoodStack(s) /\ SetStack(w, s)
    BY <1>4, <2>1, <2>2 DEF PopOwn
  <2>4. QED
    BY <1>2, <1>4, <2>3, StackStep DEF ghosts
<1>5. QED
  BY <1>3, <1>4 DEF PopOwn, Popped

LEMMA StealFromStep ==
    ASSUME IInv, NEW w \in Workers, NEW v \in Workers, stack[w] # <<>>, StealFrom(w, v),
           UNCHANGED <<allocated, jobVars, life, creator, after, flags>>
    PROVE  IInv'
<1> DEFINE n == Len(queue[v])
           rest == SubSeq(queue[v], 1, n - 1)
<1>1. queue[v] \in Seq(Jobs) /\ queue[v] # <<>> /\ n \in Nat \ {0}
  BY EmptySeq DEF StealFrom, IInv, TypeOK
<1>2. queue[v][n] \in Jobs /\ \A i \in 1 .. n - 1 : queue[v][i] \in Jobs
  BY <1>1, ElementOfSeq
<1>3. rest \in Seq(Jobs)
  <2>1. n - 1 \in Int
    BY <1>1
  <2>2. QED
    BY <1>2, <2>1, SubSeqProperties
<1>4. queue' = [queue EXCEPT ![v] = rest]
  BY DEF StealFrom, Stolen
<1>5. SetStack(w, Goto(stack[w], Frame("code", queue[v][n]))) /\ Enter(w, queue[v][n])
  BY DEF StealFrom
<1>6. w \in Full /\ Seeks(stack[w]) => queue[w] = <<>>
  BY DEF IInv, SeekersHaveNoWork
<1> HIDE DEF rest, n
<1>7. QED
  BY <1>1, <1>2, <1>3, <1>4, <1>5, <1>6, TakeJob

LEMMA StealStep ==
    ASSUME IInv, NEW w \in Workers, Steal(w)
    PROVE  IInv'
<1>1. /\ GoodStack(stack[w]) /\ stack[w] # <<>>
      /\ w \in Full => queue[w] = <<>>
  BY AtTop DEF Steal, Searching, IInv, SeekersHaveNoWork
<1>2. UNCHANGED <<allocated, jobVars, life, creator, after, flags>>
  BY DEF Steal
<1>3. CASE \E v \in Workers : StealFrom(w, v)
  BY <1>1, <1>2, <1>3, StealFromStep
<1>4. CASE (\E at \in {"retry", "doze"} : SetStack(w, Goto(stack[w], Frame(at, NoJob))))
           /\ UNCHANGED <<queue, runs>>
  <2>1. \A at \in {"retry", "doze"} : GoodStack(Goto(stack[w], Frame(at, NoJob)))
    BY <1>1, FrameType, GotoStack DEF Places, OfJob
  <2>2. QED
    BY <1>1, <1>2, <1>4, <2>1, StackStep DEF ghosts
<1>5. QED
  BY <1>3, <1>4 DEF Steal, Workers

-----------------------------------------------------------------------------
LEMMA InitIInv == Init => IInv
<1> SUFFICES ASSUME Init PROVE IInv
  OBVIOUS
<1> DEFINE c == Frame("code", NoJob)
           l == Frame("loop", NoJob)
<1>1. GoodFrame(c) /\ c.at = "code" /\ GoodFrame(l) /\ l.at = "loop"
  BY FrameType DEF Places, OfJob
<1>2. /\ GoodStack(Append(<<>>, c)) /\ ~Seeks(Append(<<>>, c))
      /\ GoodStack(Append(<<>>, l)) /\ ~Seeks(Append(<<>>, l))
  BY <1>1, EmptyStack, PushStack DEF Searching
<1>3. Append(<<>>, c) = <<c>> /\ Append(<<>>, l) = <<l>>
  OBVIOUS
<1>4. stack = [w \in Workers |-> IF w = Main THEN <<c>> ELSE <<l>>]
  BY DEF Init
<1> HIDE DEF c, l
<1>5. StacksOK /\ SeekersHaveNoWork
  BY <1>2, <1>3, <1>4 DEF StacksOK, SeekersHaveNoWork, Workers
<1>6. stack \in [Workers -> Seq(Frames)]
  BY <1>4, <1>5 DEF StacksOK, GoodStack
<1>7. queue \in [Workers -> Seq(Jobs)]
  BY EmptySeq DEF Init
<1>8. TypeOK
  BY <1>6, <1>7, CounterAssumption DEF Init, TypeOK, Types
<1>9. QED
  BY <1>5, <1>8 DEF IInv

LEMMA NextIInv == IInv /\ [Next]_vars => IInv'
<1> SUFFICES ASSUME IInv, [Next]_vars PROVE IInv'
  OBVIOUS
<1>1. CASE UNCHANGED vars
  BY <1>1 DEF IInv, TypeOK, StacksOK, SeekersHaveNoWork, vars, jobVars, ghosts, flags
<1>2. ASSUME NEW w \in Workers, Client(w)
      PROVE  IInv'
  BY <1>2, CreateStep, ScheduleStep, CallWaitStep, ScheduleAfterStep DEF Client
<1>3. ASSUME NEW w \in Workers, Internal(w)
      PROVE  IInv'
  BY <1>3, LinkWriteStep, ReturnStep, WaitingStep, NotifyStep, FinishStep, CheckStep,
     DependentsStep, PopOwnStep, StealStep, DozeStep, SleepStep, LoopStep DEF Internal
<1>4. ASSUME NEW w \in Full, SpuriousWake(w)
      PROVE  IInv'
  BY <1>4, SpuriousWakeStep DEF Workers
<1>5. CASE BeginStop \/ Stopping
  BY <1>5, BeginStopStep, StopWorkerStep, NotifyAllStep, EndStopStep DEF Stopping
<1>6. QED
  BY <1>1, <1>2, <1>3, <1>4, <1>5 DEF Next

(* The invariant holds in every state of every behaviour.                  *)
THEOREM Invariance == Spec => []IInv
BY InitIInv, NextIInv, PTL DEF Spec

(* Every variable keeps its type, the counters their 8 bits, and the call  *)
(* stacks their frames.                                                    *)
THEOREM TypeCorrect == Spec => []TypeOK
<1>1. IInv => TypeOK
  BY DEF IInv
<1>2. QED
  BY <1>1, Invariance, PTL

(* A worker that sleeps on the condition variable has an empty deque, so   *)
(* the dependents and children that are queued on a Full worker are always *)
(* under the eyes of a thread that is awake.                               *)
THEOREM SleepersIdle == Spec => []SleepersHaveNoWork
<1>1. IInv => SleepersHaveNoWork
  BY AtTop DEF IInv, SeekersHaveNoWork, SleepersHaveNoWork, Sleepers, Searching, Workers
<1>2. QED
  BY <1>1, Invariance, PTL
=============================================================================
