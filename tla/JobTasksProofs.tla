--------------------------- MODULE JobTasksProofs ---------------------------
(***************************************************************************)
(* What JobSystem promises, for any number of workers, jobs and            *)
(* dependents: a job is executed once, after its dependences and not       *)
(* without them, a parent outlives its children, and all of it implements  *)
(* Tasks. For clients whose jobs with children have neither a parent nor   *)
(* dependents, that give a job one dependence, before that is scheduled,   *)
(* and while no slot of a job pool is used again.                          *)
(***************************************************************************)
EXTENDS JobSystemProofs, FiniteSetTheorems

Disciplined == {"deepFinish", "manyLinks", "lateLink"} \cap Uses = {}
NoReuse == \A w \in Workers : MaxJobs[w] <= PoolSize

-----------------------------------------------------------------------------
(* The inductive invariant.                                                *)

(* The calls in progress that are about a job: <<thread, depth, frame>>.   *)
Active == {"code", "finish", "check", "dependents", "link"}
Calls == {c \in Workers \X Nat \X Frames :
             /\ c[2] \in 1 .. Len(stack[c[1]]) /\ stack[c[1]][c[2]] = c[3]
             /\ c[3].at \in Active}

(* Jobs that have a parent or dependents have no children.                 *)
Leaf(j) == parent[j] # NoJob \/ dependent_count[j] > 0
Queued(j) == \E w \in Workers : \E i \in 1 .. Len(queue[w]) : queue[w][i] = j

CallKnown(c) ==
    /\ c[3].job # NoJob => Used(c[3].job)
    /\ c[3].job = NoJob => c[3].at = "code" /\ c[1] = Main /\ c[2] = 1
    /\ c[3].at = "code" /\ c[3].job # NoJob => runs[c[3].job] = 1
    /\ c[3].at \in {"finish", "check", "dependents"} =>
           runs[c[3].job] = 1 \/ HasChildren(c[3].job)
    /\ c[3].at = "dependents" => unfinished[c[3].job] = 0
CallsKnown == \A c \in Calls : CallKnown(c)

RunsOnce == \A j \in Jobs : /\ runs[j] \in {0, 1}
                            /\ life[j] \in {"free", "fresh"} => runs[j] = 0

(* A body is in progress once; so is all there is of a job without         *)
(* children, from its body to its last dependent.                          *)
CodeOnce ==
    \A c, e \in Calls : c[3].at = "code" /\ e[3].at = "code" /\ c[3].job = e[3].job => c = e
LeafOnce ==
    \A c, e \in Calls : /\ c[3].at # "link" /\ e[3].at # "link" /\ c[3].job = e[3].job
                        /\ c[3].job # NoJob /\ Leaf(c[3].job)
                        => c = e

(* A counter is what is still to be subtracted from it: by the job's body  *)
(* before it runs, by calls, by children.                                  *)
Own(j) == IF runs[j] = 0 THEN 1 ELSE 0
Bodies(j) == {c \in Calls : c[3].at \in {"code", "finish"} /\ c[3].job = j}
Checked(j) == \E c \in Calls : c[3].at = "check" /\ c[3].job = j
Kids(j) == {c \in Jobs : Used(c) /\ parent[c] = j /\ (unfinished[c] # 0 \/ Checked(c))}
Counts(j) ==
    /\ IsFiniteSet(Bodies(j)) /\ IsFiniteSet(Kids(j))
    /\ unfinished[j] = Own(j) + Cardinality(Bodies(j)) + Cardinality(Kids(j))
Counter == \A j \in Jobs : Used(j) => Counts(j)

Parents == \A j \in Jobs : Used(j) /\ parent[j] # NoJob => Used(parent[j]) /\ ~Leaf(parent[j])

QueueOnce ==
    \A v, w \in Workers : \A i \in 1 .. Len(queue[v]), k \in 1 .. Len(queue[w]) :
        queue[v][i] = queue[w][k] => v = w /\ i = k
QueuedKnown == \A j \in Jobs : Queued(j) => runs[j] = 0 /\ life[j] \in {"scheduled", "linked"}

(* A linked job is in one slot of its dependence, or about to be written   *)
(* there.                                                                  *)
Index == 0 .. MaxDependents - 1
Linking(d, j) == \E c \in Calls : c[3].at = "link" /\ c[3].job = d /\ c[3].other = j
Linked ==
    \A j \in Jobs :
        /\ life[j] = "linked" =>
              \E d \in Jobs : /\ after[j] = {d} /\ Used(d) /\ d # j
                              /\ Linking(d, j) \/ \E k \in Index : dependents[d][k] = j
        /\ life[j] # "linked" => after[j] = {}
Slots ==
    \A d \in Jobs, k \in Index :
        dependents[d][k] # NoJob =>
            /\ k < dependent_count[d] /\ after[dependents[d][k]] = {d}
            /\ \A l \in Index : dependents[d][l] = dependents[d][k] => l = k

(* A dependent waits, neither queued nor run, exactly until its slot is    *)
(* visited.                                                                *)
Unvisited(d, k) ==
    \/ unfinished[d] # 0
    \/ \E c \in Calls : /\ c[3].job = d
                        /\ c[3].at = "check" \/ (c[3].at = "dependents" /\ c[3].n <= k)
Waits(j) == runs[j] = 0 /\ ~Queued(j)
Released ==
    \A d \in Jobs, k \in Index :
        dependents[d][k] # NoJob => (Unvisited(d, k) <=> Waits(dependents[d][k]))

(* While schedule(job, dependence) is at work its caller can do nothing    *)
(* else, so that the dependence is not scheduled.                          *)
LinkCall(c) ==
    /\ c[3].other \in Jobs /\ Waits(c[3].other)
    /\ life[c[3].job] = "fresh" /\ after[c[3].other] = {c[3].job}
    /\ c[3].n < dependent_count[c[3].job]
    /\ dependents[c[3].job][c[3].n] = NoJob
    /\ \A k \in Index : dependents[c[3].job][k] # c[3].other
OnTop(c) ==
    /\ c[2] = Len(stack[c[1]])
    /\ \E e \in Calls : /\ e[1] = c[1] /\ e[2] = c[2] - 1
                        /\ e[3].at = "code" /\ e[3].job = creator[c[3].job]
LinkCalls == \A c \in Calls : c[3].at = "link" => LinkCall(c)
LinksOnTop == \A c \in Calls : c[3].at = "link" => OnTop(c)

Unused == \A j \in Jobs : ~Used(j) => dependent_count[j] = 0 /\ parent[j] = NoJob
Allocated ==
    \A w \in Workers :
        /\ allocated[w] <= MaxJobs[w]
        /\ \A i \in 0 .. PoolSize - 1 :
               Used(<<w, i>>) => i \in 1 .. allocated[w] \/ (i = 0 /\ allocated[w] >= PoolSize)
(* The loop of a thread, and stop(), are outermost calls.                  *)
Shape(s) == \A i \in 1 .. Len(s) : s[i].at \in {"loop", "stop"} => i = 1
Outermost == \A w \in Workers : Shape(stack[w])

JInv ==
    /\ IInv
    /\ CallsKnown /\ RunsOnce /\ CodeOnce /\ LeafOnce
    /\ Counter /\ Parents
    /\ QueueOnce /\ QueuedKnown
    /\ Linked /\ Slots /\ Released
    /\ LinkCalls /\ LinksOnTop
    /\ Unused /\ Allocated /\ Outermost

(* A job that has not run is queued or entered, and no other job is.       *)
Starts(j) ==
    /\ j \in Jobs /\ Used(j) /\ runs[j] = 0
    /\ UNCHANGED <<allocated, type, parent, unfinished, dependent_count, dependents, creator, after>>
    /\ \A k \in Jobs : k # j => /\ life'[k] = life[k] /\ runs'[k] = runs[k]
                                /\ Queued(k)' <=> Queued(k)
    /\ life'[j] \in {"scheduled", "linked"} /\ (life'[j] = "linked" <=> life[j] = "linked")
    /\ runs'[j] \in {0, 1} /\ (runs'[j] = 0 <=> Queued(j)')
    /\ QueueOnce'

(* What a step does to the jobs: the state of a job, as a client knows it, *)
(* depends on these variables and on whether its body is in progress.      *)
Running(j) == \E c \in Calls : c[3].at = "code" /\ c[3].job = j
SameRunning == \A k \in Jobs : Running(k)' <=> Running(k)
Steady == UNCHANGED <<life, runs, unfinished, after, parent>> /\ SameRunning

Creates(j, p) ==
    /\ ~Used(j) /\ runs[j] = 0 /\ after[j] = {}
    /\ p # NoJob => p \in Jobs /\ Used(p) /\ unfinished[p] # 0
    /\ \A k \in Jobs :
          /\ life'[k] = IF k = j THEN "fresh" ELSE life[k]
          /\ parent'[k] = IF k = j THEN p ELSE parent[k]
          /\ after'[k] = after[k] /\ runs'[k] = runs[k]
          /\ unfinished'[k] = IF k = j THEN 1 ELSE IF k = p THEN unfinished[k] + 1 ELSE unfinished[k]
    /\ SameRunning
Queues(j) == Starts(j) /\ runs'[j] = 0 /\ SameRunning
Begins(j) == Starts(j) /\ runs'[j] = 1 /\ \A k \in Jobs : Running(k)' <=> Running(k) \/ k = j
Links(j, d) ==
    /\ life[j] = "fresh" /\ Used(d) /\ j # d
    /\ \A k \in Jobs : /\ life'[k] = IF k = j THEN "linked" ELSE life[k]
                       /\ after'[k] = IF k = j THEN {d} ELSE after[k]
    /\ UNCHANGED <<runs, unfinished, parent>> /\ SameRunning
Returns(j) ==
    /\ Used(j) /\ runs[j] = 1 /\ Running(j)
    /\ UNCHANGED <<life, runs, unfinished, after, parent>>
    /\ \A k \in Jobs : Running(k)' <=> Running(k) /\ k # j
Finishes(j) ==
    /\ Used(j) /\ unfinished[j] # 0
    /\ \A k \in Jobs : k # j => unfinished'[k] = unfinished[k]
    /\ UNCHANGED <<life, runs, after, parent>> /\ SameRunning

TaskStep ==
    \/ Steady
    \/ \E j \in Jobs : \/ \E p \in Jobs \cup {NoJob} : Creates(j, p)
                       \/ Queues(j) \/ Begins(j)
                       \/ \E d \in Jobs : Links(j, d)
                       \/ Returns(j) \/ Finishes(j)

-----------------------------------------------------------------------------
(* What a step does to the calls in progress.                              *)

(* The thread replaces its innermost call, if any, by what s has there.    *)
LEMMA CallsChange ==
    ASSUME IInv, NEW w \in Workers, NEW s, GoodStack(s), SetStack(w, s), NEW n \in Nat,
           n <= Len(stack[w]), n <= Len(s), \A i \in 1 .. n : s[i] = stack[w][i]
    PROVE  \A c : c \in Calls' <=>
               \/ c \in Calls /\ ~(c[1] = w /\ c[2] > n)
               \/ \E i \in n + 1 .. Len(s) : c = <<w, i, s[i]>> /\ s[i].at \in Active
<1>1. stack \in [Workers -> Seq(Frames)] /\ stack' = [stack EXCEPT ![w] = s]
  BY DEF IInv, TypeOK, SetStack
<1>2. stack'[w] = s /\ \A v \in Workers \ {w} : stack'[v] = stack[v]
  BY <1>1
<1>3. Len(s) \in Nat /\ Len(stack[w]) \in Nat /\ \A i \in 1 .. Len(s) : s[i] \in Frames
  BY <1>1, LenProperties DEF GoodStack, GoodFrame
<1> TAKE c
<1>4. ASSUME c \in Calls'
      PROVE  \/ c \in Calls /\ ~(c[1] = w /\ c[2] > n)
             \/ \E i \in n + 1 .. Len(s) : c = <<w, i, s[i]>> /\ s[i].at \in Active
  <2>1. /\ c \in Workers \X Nat \X Frames /\ c = <<c[1], c[2], c[3]>>
        /\ c[2] \in 1 .. Len(stack'[c[1]]) /\ stack'[c[1]][c[2]] = c[3] /\ c[3].at \in Active
    BY <1>4 DEF Calls
  <2>2. CASE c[1] # w
    BY <1>2, <2>1, <2>2 DEF Calls
  <2>3. CASE c[1] = w /\ c[2] > n
    <3>1. c[2] \in n + 1 .. Len(s) /\ c[3] = s[c[2]]
      BY <1>2, <1>3, <2>1, <2>3
    <3>2. QED
      BY <2>1, <2>3, <3>1
  <2>4. CASE c[1] = w /\ ~(c[2] > n)
    <3>1. c[2] \in 1 .. n
      BY <2>1, <2>4
    <3>2. stack[w][c[2]] = c[3] /\ c[2] \in 1 .. Len(stack[w])
      BY <1>2, <1>3, <2>1, <2>4, <3>1
    <3>3. QED
      BY <2>1, <2>4, <3>2 DEF Calls
  <2>5. QED
    BY <2>2, <2>3, <2>4
<1>5. ASSUME c \in Calls, ~(c[1] = w /\ c[2] > n)
      PROVE  c \in Calls'
  <2>1. /\ c \in Workers \X Nat \X Frames
        /\ c[2] \in 1 .. Len(stack[c[1]]) /\ stack[c[1]][c[2]] = c[3] /\ c[3].at \in Active
    BY <1>5 DEF Calls
  <2>2. CASE c[1] # w
    BY <1>2, <2>1, <2>2 DEF Calls
  <2>3. CASE c[1] = w
    <3>1. c[2] \in 1 .. n
      BY <1>5, <2>1, <2>3
    <3>2. stack'[w][c[2]] = c[3] /\ c[2] \in 1 .. Len(stack'[w])
      BY <1>2, <1>3, <2>1, <2>3, <3>1
    <3>3. QED
      BY <2>1, <2>3, <3>2 DEF Calls
  <2>4. QED
    BY <2>2, <2>3
<1>6. ASSUME NEW i \in n + 1 .. Len(s), c = <<w, i, s[i]>>, s[i].at \in Active
      PROVE  c \in Calls'
  <2>1. i \in 1 .. Len(s) /\ i \in Nat
    BY <1>3
  <2>2. c \in Workers \X Nat \X Frames /\ c[1] = w /\ c[2] = i /\ c[3] = s[i]
    BY <1>3, <1>6, <2>1
  <2>3. QED
    BY <1>2, <1>6, <2>1, <2>2 DEF Calls
<1>7. QED
  BY <1>4, <1>5, <1>6

Here(w) == <<w, Len(stack[w]), Top(w)>>
Above(w, f) == <<w, Len(stack[w]) + 1, f>>
Instead(w, f) == <<w, Len(stack[w]), f>>

LEMMA CallPlace ==
    ASSUME IInv, NEW c \in Calls
    PROVE  /\ c = <<c[1], c[2], c[3]>> /\ c[1] \in Workers /\ c[2] \in 1 .. Len(stack[c[1]])
           /\ stack[c[1]] # <<>> /\ Len(stack[c[1]]) \in Nat
           /\ c[3] = stack[c[1]][c[2]] /\ c[3].at \in Active /\ GoodFrame(c[3])
           /\ c[2] = Len(stack[c[1]]) => c = Here(c[1])
<1>1. /\ c = <<c[1], c[2], c[3]>> /\ c[1] \in Workers /\ c[2] \in 1 .. Len(stack[c[1]])
      /\ c[3] = stack[c[1]][c[2]] /\ c[3].at \in Active
  BY DEF Calls
<1>2. GoodStack(stack[c[1]])
  BY <1>1 DEF IInv, StacksOK
<1>3. stack[c[1]] # <<>> /\ Len(stack[c[1]]) \in Nat
  BY <1>1, <1>2, EmptySeq, LenProperties DEF GoodStack
<1>4. QED
  BY <1>1, <1>2, <1>3 DEF GoodStack, Here, Top

LEMMA HereCall ==
    ASSUME IInv, NEW w \in Workers, NEW p, At(w, p)
    PROVE  /\ p \in Active <=> Here(w) \in Calls
           /\ Here(w)[1] = w /\ Here(w)[2] = Len(stack[w]) /\ Here(w)[3] = Top(w)
           /\ Top(w).at = p /\ GoodFrame(Top(w))
           /\ Len(stack[w]) \in Nat \ {0}
<1>1. GoodStack(stack[w]) /\ stack[w] # <<>> /\ GoodFrame(Top(w)) /\ Top(w).at = p
  BY AtTop
<1>2. Len(stack[w]) \in Nat \ {0}
  BY <1>1, TopFrame
<1>3. Top(w) \in Frames /\ stack[w][Len(stack[w])] = Top(w)
  BY <1>1 DEF GoodFrame, Top
<1>4. QED
  BY <1>1, <1>2, <1>3 DEF Here, Calls

LEMMA PopCalls ==
    ASSUME IInv, NEW w \in Workers, stack[w] # <<>>, SetStack(w, Pop(stack[w]))
    PROVE  Calls' = Calls \ {Here(w)}
<1> DEFINE s == Pop(stack[w])
           n == Len(stack[w]) - 1
<1>1. GoodStack(stack[w]) /\ GoodStack(s)
  BY PopStack DEF IInv, StacksOK
<1>2. Len(stack[w]) \in Nat \ {0} /\ n \in Nat
  BY <1>1, TopFrame
<1>3. Len(s) = n /\ \A i \in 1 .. n : s[i] = stack[w][i]
  BY <1>1, <1>2 DEF Pop, GoodStack
<1> HIDE DEF s
<1>4. SetStack(w, s)
  BY DEF s
<1>5. \A c : c \in Calls' <=> \/ c \in Calls /\ ~(c[1] = w /\ c[2] > n)
                              \/ \E i \in n + 1 .. Len(s) : c = <<w, i, s[i]>> /\ s[i].at \in Active
  BY <1>1, <1>2, <1>3, <1>4, CallsChange
<1>6. \A c \in Calls : c[1] = w /\ c[2] > n <=> c = Here(w)
  BY <1>2, CallPlace DEF Here
<1>7. QED
  BY <1>2, <1>3, <1>5, <1>6

LEMMA PushCalls ==
    ASSUME IInv, NEW w \in Workers, NEW f, GoodFrame(f), ~Seeks(stack[w]),
           SetStack(w, Append(stack[w], f))
    PROVE  /\ f.at \in Active => Calls' = Calls \cup {Above(w, f)} /\ Above(w, f) \notin Calls
           /\ f.at \notin Active => Calls' = Calls
<1> DEFINE s == Append(stack[w], f)
           n == Len(stack[w])
<1>1. GoodStack(stack[w]) /\ GoodStack(s)
  BY PushStack DEF IInv, StacksOK
<1>2. n \in Nat
  BY <1>1, LenProperties DEF GoodStack
<1>3. Len(s) = n + 1 /\ s[n + 1] = f /\ \A i \in 1 .. n : s[i] = stack[w][i]
  BY <1>1, <1>2 DEF GoodStack
<1> HIDE DEF s
<1>4. SetStack(w, s)
  BY DEF s
<1>5. \A c : c \in Calls' <=> \/ c \in Calls /\ ~(c[1] = w /\ c[2] > n)
                              \/ \E i \in n + 1 .. Len(s) : c = <<w, i, s[i]>> /\ s[i].at \in Active
  BY <1>1, <1>2, <1>3, <1>4, CallsChange
<1>6. \A c \in Calls : ~(c[1] = w /\ c[2] > n)
  BY <1>2, CallPlace
<1>7. Above(w, f) \notin Calls
  BY <1>2, <1>6 DEF Above
<1>8. n + 1 .. Len(s) = {n + 1}
  BY <1>2, <1>3
<1>9. QED
  BY <1>3, <1>5, <1>6, <1>7, <1>8 DEF Above

LEMMA GotoCalls ==
    ASSUME IInv, NEW w \in Workers, stack[w] # <<>>, NEW f, GoodFrame(f),
           SetStack(w, Goto(stack[w], f))
    PROVE  /\ f.at \in Active => Calls' = (Calls \ {Here(w)}) \cup {Instead(w, f)}
           /\ f.at \notin Active => Calls' = Calls \ {Here(w)}
           /\ Instead(w, f) \in Calls => Instead(w, f) = Here(w)
<1> DEFINE u == Pop(stack[w])
           s == Append(u, f)
           n == Len(stack[w]) - 1
<1>1. GoodStack(stack[w]) /\ GoodStack(u) /\ GoodStack(s)
  BY PopStack, PushStack DEF IInv, StacksOK
<1>2. Len(stack[w]) \in Nat \ {0} /\ n \in Nat
  BY <1>1, TopFrame
<1>3. Len(u) = n /\ \A i \in 1 .. n : u[i] = stack[w][i]
  BY <1>1, <1>2 DEF Pop, GoodStack
<1> HIDE DEF u
<1>4. Len(s) = n + 1 /\ s[n + 1] = f /\ \A i \in 1 .. n : s[i] = stack[w][i]
  BY <1>1, <1>2, <1>3 DEF GoodStack
<1> HIDE DEF s
<1>5. SetStack(w, s)
  BY DEF s, u, Goto
<1>6. \A c : c \in Calls' <=> \/ c \in Calls /\ ~(c[1] = w /\ c[2] > n)
                              \/ \E i \in n + 1 .. Len(s) : c = <<w, i, s[i]>> /\ s[i].at \in Active
  BY <1>1, <1>2, <1>4, <1>5, CallsChange
<1>7. \A c \in Calls : c[1] = w /\ c[2] > n <=> c = Here(w)
  BY <1>2, CallPlace DEF Here
<1>8. Instead(w, f) \in Calls => Instead(w, f) = Here(w)
  BY <1>2, <1>7 DEF Instead
<1>9. QED
  BY <1>2, <1>4, <1>6, <1>7, <1>8 DEF Instead

LEMMA GotoPushCalls ==
    ASSUME IInv, NEW w \in Workers, stack[w] # <<>>, NEW f, GoodFrame(f), f.at \notin Searching,
           NEW g, GoodFrame(g), f.at \in Active, g.at \in Active,
           SetStack(w, Append(Goto(stack[w], f), g))
    PROVE  /\ Calls' = (Calls \ {Here(w)}) \cup {Instead(w, f), Above(w, g)}
           /\ Instead(w, f) \in Calls => Instead(w, f) = Here(w)
           /\ Above(w, g) \notin Calls
<1> DEFINE u == Pop(stack[w])
           v == Append(u, f)
           s == Append(v, g)
           n == Len(stack[w]) - 1
<1>1. GoodStack(stack[w]) /\ GoodStack(u) /\ GoodStack(v) /\ GoodStack(s)
  BY PopStack, PushStack DEF IInv, StacksOK
<1>2. Len(stack[w]) \in Nat \ {0} /\ n \in Nat
  BY <1>1, TopFrame
<1>3. Len(u) = n /\ \A i \in 1 .. n : u[i] = stack[w][i]
  BY <1>1, <1>2 DEF Pop, GoodStack
<1> HIDE DEF u
<1>4. Len(v) = n + 1 /\ v[n + 1] = f /\ \A i \in 1 .. n : v[i] = stack[w][i]
  BY <1>1, <1>2, <1>3 DEF GoodStack
<1> HIDE DEF v
<1>5. /\ Len(s) = n + 2 /\ s[n + 1] = f /\ s[n + 2] = g
      /\ \A i \in 1 .. n : s[i] = stack[w][i]
  <2>1. v \in Seq(Frames) /\ g \in Frames
    BY <1>1 DEF GoodStack, GoodFrame
  <2>2. Len(s) = Len(v) + 1 /\ s[Len(v) + 1] = g /\ \A i \in 1 .. Len(v) : s[i] = v[i]
    BY <2>1, AppendProperties
  <2> HIDE DEF s
  <2>3. QED
    BY <1>2, <1>4, <2>2
<1> HIDE DEF s
<1>6. SetStack(w, s)
  BY DEF s, v, u, Goto
<1>7. \A c : c \in Calls' <=> \/ c \in Calls /\ ~(c[1] = w /\ c[2] > n)
                              \/ \E i \in n + 1 .. Len(s) : c = <<w, i, s[i]>> /\ s[i].at \in Active
  <2>1. n <= Len(stack[w]) /\ n <= Len(s)
    BY <1>2, <1>5
  <2> HIDE DEF n
  <2>2. QED
    BY <1>1, <1>2, <1>5, <1>6, <2>1, CallsChange
<1>8. \A c \in Calls : c[1] = w /\ c[2] > n <=> c = Here(w)
  BY <1>2, CallPlace DEF Here
<1>9. Instead(w, f) \in Calls => Instead(w, f) = Here(w)
  BY <1>2, <1>8 DEF Instead
<1>10. Above(w, g) \notin Calls
  BY <1>2, CallPlace DEF Above
<1>11. Instead(w, f) = <<w, n + 1, s[n + 1]>> /\ Above(w, g) = <<w, n + 2, s[n + 2]>>
  BY <1>2, <1>5 DEF Instead, Above
<1>12. n + 1 .. Len(s) = {n + 1, n + 2}
  BY <1>2, <1>5
<1>13. QED
  BY <1>5, <1>7, <1>8, <1>9, <1>10, <1>11, <1>12

LEMMA PopFacts ==
    ASSUME NEW s, GoodStack(s), s # <<>>
    PROVE  /\ Len(s) \in Nat \ {0} /\ Len(Pop(s)) = Len(s) - 1
           /\ \A i \in 1 .. Len(s) - 1 : Pop(s)[i] = s[i]
<1>1. s \in Seq(Frames) /\ Len(s) \in Nat \ {0}
  BY TopFrame DEF GoodStack
<1> DEFINE n == Len(s) - 1
           u == SubSeq(s, 1, n)
<1>2. n \in Nat /\ \A i \in 1 .. n : s[i] \in Frames
  BY <1>1, ElementOfSeq
<1> HIDE DEF n
<1>3. /\ u \in Seq(Frames)
      /\ Len(u) = IF 1 <= n THEN n - 1 + 1 ELSE 0
      /\ \A i \in 1 .. n - 1 + 1 : u[i] = s[1 + i - 1]
  BY <1>2, SubSeqProperties
<1> HIDE DEF u
<1>4. Len(u) = n /\ \A i \in 1 .. n : u[i] = s[i]
  BY <1>2, <1>3
<1>5. QED
  BY <1>1, <1>4 DEF Pop, u, n

LEMMA PopShape ==
    ASSUME NEW s, GoodStack(s), s # <<>>, Shape(s)
    PROVE  Shape(Pop(s))
<1> DEFINE u == Pop(s)
<1>1. Len(s) \in Nat \ {0} /\ Len(u) = Len(s) - 1 /\ \A i \in 1 .. Len(s) - 1 : u[i] = s[i]
  BY PopFacts
<1> HIDE DEF u
<1>2. Shape(u)
  BY <1>1 DEF Shape
<1>3. QED
  BY <1>2 DEF u

LEMMA PushShape ==
    ASSUME NEW s, GoodStack(s), Shape(s), NEW f, GoodFrame(f), f.at \notin {"loop", "stop"}
    PROVE  Shape(Append(s, f))
<1> DEFINE u == Append(s, f)
<1>1. s \in Seq(Frames) /\ f \in Frames /\ Len(s) \in Nat
  BY LenProperties DEF GoodStack, GoodFrame
<1>2. Len(u) = Len(s) + 1 /\ u[Len(s) + 1] = f /\ \A i \in 1 .. Len(s) : u[i] = s[i]
  BY <1>1, AppendProperties
<1> HIDE DEF u
<1>3. Shape(u)
  BY <1>1, <1>2 DEF Shape
<1>4. QED
  BY <1>3 DEF u

LEMMA GotoShape ==
    ASSUME NEW s, GoodStack(s), s # <<>>, Shape(s), NEW f, GoodFrame(f),
           f.at \notin {"loop", "stop"}
    PROVE  Shape(Goto(s, f))
BY PopStack, PopShape, PushShape DEF Goto

LEMMA OneShape ==
    ASSUME IInv, Outermost, NEW w \in Workers, NEW s, Shape(s), SetStack(w, s)
    PROVE  Outermost'
<1>1. stack \in [Workers -> Seq(Frames)] /\ stack' = [stack EXCEPT ![w] = s]
  BY DEF IInv, TypeOK, SetStack
<1>2. \A v \in Workers : Shape(stack'[v])
  BY <1>1 DEF Outermost
<1>3. QED
  BY <1>2 DEF Outermost

(* A link is the innermost call of its thread, which therefore takes no    *)
(* other step.                                                             *)
LEMMA LinksElsewhere ==
    ASSUME IInv, LinksOnTop, NEW w \in Workers, NEW p, p # "link", At(w, p)
    PROVE  \A c \in Calls : c[3].at = "link" => c[1] # w
<1>1. Here(w)[3].at = p
  BY HereCall
<1>2. QED
  BY <1>1, CallPlace DEF LinksOnTop, OnTop

LEMMA LinksStay ==
    ASSUME IInv, LinksOnTop, CallsKnown, NEW w \in Workers, NEW p, p # "link", At(w, p),
           NEW s, SetStack(w, s),
           \A c \in Calls : c[1] # w => c \in Calls',
           \A c \in Calls' : c[3].at = "link" => c \in Calls,
           \A j \in Jobs : Used(j) => creator'[j] = creator[j]
    PROVE  LinksOnTop'
<1>1. stack \in [Workers -> Seq(Frames)] /\ stack' = [stack EXCEPT ![w] = s]
  BY DEF IInv, TypeOK, SetStack
<1> SUFFICES ASSUME NEW c \in Calls', c[3].at = "link"
             PROVE  OnTop(c)'
  BY DEF LinksOnTop
<1>2. c \in Calls /\ c[1] # w /\ c[1] \in Workers
  BY LinksElsewhere, CallPlace
<1>3. stack'[c[1]] = stack[c[1]]
  BY <1>1, <1>2
<1>4. c[3].job \in Jobs /\ creator'[c[3].job] = creator[c[3].job]
  BY <1>2, CallPlace DEF CallsKnown, CallKnown, GoodFrame, OfJob
<1>5. PICK e \in Calls : /\ e[1] = c[1] /\ e[2] = c[2] - 1
                         /\ e[3].at = "code" /\ e[3].job = creator[c[3].job]
  BY <1>2 DEF LinksOnTop, OnTop
<1>6. e \in Calls'
  BY <1>2, <1>5
<1>7. c[2] = Len(stack'[c[1]])
  BY <1>2, <1>3 DEF LinksOnTop, OnTop
<1>8. QED
  BY <1>4, <1>5, <1>6, <1>7 DEF OnTop

-----------------------------------------------------------------------------
(* Steps that touch no job.                                                *)

LEMMA QuietStep ==
    ASSUME JInv, IInv', UNCHANGED <<allocated, jobVars, ghosts, queue>>,
           \A c \in Calls' : c \in Calls,
           \A c \in Calls : c \notin Calls' => c[3].job = NoJob,
           LinksOnTop', Outermost'
    PROVE  JInv' /\ TaskStep
<1>1. /\ UNCHANGED <<allocated, type, parent, unfinished, dependent_count, dependents>>
      /\ UNCHANGED <<life, creator, after, runs, queue>>
  BY DEF jobVars, ghosts
<1>2. CallsKnown' /\ CodeOnce' /\ LeafOnce'
  BY <1>1 DEF JInv, CallsKnown, CallKnown, CodeOnce, LeafOnce, Leaf, Used, HasChildren
<1>3. RunsOnce' /\ Parents' /\ QueueOnce' /\ QueuedKnown' /\ Slots' /\ Unused' /\ Allocated'
  BY <1>1 DEF JInv, RunsOnce, Parents, QueueOnce, QueuedKnown, Slots, Unused, Allocated, Used,
              Leaf, Queued, Index
<1>4. NoJob \notin Jobs /\ \A j \in Jobs : \A c : c \in Calls' /\ c[3].job = j
                                                 <=> c \in Calls /\ c[3].job = j
  BY PoolAssumption
<1>5. Counter'
  <2> SUFFICES ASSUME NEW j \in Jobs, Used(j)' PROVE Counts(j)'
    BY DEF Counter
  <2>1. Counts(j) /\ Own(j)' = Own(j)
    BY <1>1 DEF JInv, Counter, Used, Own
  <2>2. Bodies(j)' = Bodies(j)
    BY <1>4 DEF Bodies
  <2>3. Kids(j)' = Kids(j)
    BY <1>1, <1>4 DEF Kids, Checked, Used
  <2>4. QED
    BY <1>1, <2>1, <2>2, <2>3 DEF Counts
<1>6. Linked'
  BY <1>1, <1>4 DEF JInv, Linked, Linking, Used, Index
<1>7. Released'
  BY <1>1, <1>4 DEF JInv, Released, Unvisited, Waits, Queued, Index
<1>8. LinkCalls'
  BY <1>1, <1>4 DEF JInv, LinkCalls, LinkCall, Waits, Queued, Index
<1>9. TaskStep
  BY <1>1, <1>4 DEF TaskStep, Steady, SameRunning, Running
<1>10. QED
  BY <1>2, <1>3, <1>5, <1>6, <1>7, <1>8, <1>9 DEF JInv

(* A step that changes one stack, and no frame of a job.                   *)
LEMMA QuietStack ==
    ASSUME JInv, IInv', NEW w \in Workers, NEW p, p # "link", At(w, p), NEW s, SetStack(w, s),
           Shape(s), UNCHANGED <<allocated, jobVars, ghosts, queue>>,
           Calls' = Calls
    PROVE  JInv' /\ TaskStep
<1>1. LinksOnTop'
  BY LinksStay DEF JInv, ghosts
<1>2. Outermost'
  BY OneShape DEF JInv
<1>3. QED
  BY <1>1, <1>2, QuietStep

LEMMA AtPop ==
    ASSUME JInv, NEW w \in Workers, NEW p, p \notin Active, At(w, p), SetStack(w, Pop(stack[w]))
    PROVE  Calls' = Calls /\ Shape(Pop(stack[w]))
<1>1. GoodStack(stack[w]) /\ stack[w] # <<>> /\ Here(w) \notin Calls
  BY AtTop, HereCall DEF JInv
<1>2. Calls' = Calls \ {Here(w)}
  BY <1>1, PopCalls DEF JInv
<1>3. QED
  BY <1>1, <1>2, PopShape DEF JInv, Outermost

LEMMA AtPush ==
    ASSUME JInv, NEW w \in Workers, NEW p, p \notin Searching, At(w, p), NEW f, GoodFrame(f),
           f.at \notin Active, f.at \notin {"loop", "stop"}, SetStack(w, Append(stack[w], f))
    PROVE  Calls' = Calls /\ Shape(Append(stack[w], f))
<1>1. GoodStack(stack[w]) /\ ~Seeks(stack[w])
  BY AtTop DEF JInv
<1>2. QED
  BY <1>1, PushCalls, PushShape DEF JInv, Outermost

LEMMA AtGoto ==
    ASSUME JInv, NEW w \in Workers, NEW p, p \notin Active, At(w, p), NEW f, GoodFrame(f),
           f.at \notin Active, f.at \notin {"loop", "stop"}, SetStack(w, Goto(stack[w], f))
    PROVE  Calls' = Calls /\ Shape(Goto(stack[w], f))
<1>1. GoodStack(stack[w]) /\ stack[w] # <<>> /\ Here(w) \notin Calls
  BY AtTop, HereCall DEF JInv
<1>2. Calls' = Calls \ {Here(w)}
  BY <1>1, GotoCalls DEF JInv
<1>3. QED
  BY <1>1, <1>2, GotoShape DEF JInv, Outermost

LEMMA PlainFrame ==
    ASSUME NEW at \in Places \ OfJob
    PROVE  GoodFrame(Frame(at, NoJob)) /\ Frame(at, NoJob).at = at
BY FrameType

LEMMA WaitSteps ==
    ASSUME JInv, IInv', NEW w \in Workers,
           \/ \E j \in Jobs : CallWait(w, j)
           \/ Doze(w) \/ Sleep(w) \/ SpuriousWake(w)
    PROVE  JInv' /\ TaskStep
<1>1. ASSUME NEW j \in Jobs, CallWait(w, j) PROVE JInv' /\ TaskStep
  <2> DEFINE f == Frame("wait", j)
  <2>1. GoodFrame(f) /\ f.at = "wait"
    BY FrameType DEF Places, OfJob
  <2>2. At(w, "code") /\ SetStack(w, Append(stack[w], f))
        /\ UNCHANGED <<allocated, jobVars, ghosts, queue>>
    BY <1>1 DEF CallWait
  <2> HIDE DEF f
  <2>3. Calls' = Calls /\ Shape(Append(stack[w], f))
    BY <2>1, <2>2, AtPush DEF Searching, Active
  <2>4. QED
    BY <2>2, <2>3, QuietStack
<1>2. CASE Doze(w)
  <2> DEFINE f == Frame("sleep", NoJob)
  <2>1. GoodFrame(f) /\ f.at = "sleep"
    BY PlainFrame DEF Places, OfJob
  <2>2. /\ At(w, "doze") /\ UNCHANGED <<allocated, jobVars, ghosts, queue>>
        /\ SetStack(w, Goto(stack[w], f)) \/ SetStack(w, Pop(stack[w]))
    BY <1>2 DEF Doze
  <2> HIDE DEF f
  <2>3. CASE SetStack(w, Goto(stack[w], f))
    <3>1. Calls' = Calls /\ Shape(Goto(stack[w], f))
      BY <2>1, <2>2, <2>3, AtGoto DEF Active
    <3>2. QED
      BY <2>2, <2>3, <3>1, QuietStack
  <2>4. CASE SetStack(w, Pop(stack[w]))
    <3>1. Calls' = Calls /\ Shape(Pop(stack[w]))
      BY <2>2, <2>4, AtPop DEF Active
    <3>2. QED
      BY <2>2, <2>4, <3>1, QuietStack
  <2>5. QED
    BY <2>2, <2>3, <2>4
<1>3. CASE Sleep(w)
  <2> DEFINE f == Frame("asleep", NoJob)
  <2>1. GoodFrame(f) /\ f.at = "asleep"
    BY PlainFrame DEF Places, OfJob
  <2>2. At(w, "sleep") /\ UNCHANGED <<allocated, jobVars, ghosts, queue>>
        /\ SetStack(w, Goto(stack[w], f))
    BY <1>3 DEF Sleep
  <2> HIDE DEF f
  <2>3. Calls' = Calls /\ Shape(Goto(stack[w], f))
    BY <2>1, <2>2, AtGoto DEF Active
  <2>4. QED
    BY <2>2, <2>3, QuietStack
<1>4. CASE SpuriousWake(w)
  <2>1. At(w, "asleep") /\ UNCHANGED <<allocated, jobVars, ghosts, queue>>
        /\ SetStack(w, Pop(stack[w]))
    BY <1>4 DEF SpuriousWake, Sleepers
  <2>2. Calls' = Calls /\ Shape(Pop(stack[w]))
    BY <2>1, AtPop DEF Active
  <2>3. QED
    BY <2>1, <2>2, QuietStack
<1>5. QED
  BY <1>1, <1>2, <1>3, <1>4

LEMMA WaitingQuiet ==
    ASSUME JInv, IInv', NEW w \in Workers, Waiting(w)
    PROVE  JInv' /\ TaskStep
<1> DEFINE f == Frame("flush", NoJob)
           g == Frame("notify", NoJob)
           s == Append(Append(stack[w], f), g)
<1>1. /\ At(w, "wait") /\ UNCHANGED <<allocated, jobVars, ghosts, queue>>
      /\ SetStack(w, Pop(stack[w])) \/ SetStack(w, s)
  BY DEF Waiting
<1>2. CASE SetStack(w, Pop(stack[w]))
  <2>1. Calls' = Calls /\ Shape(Pop(stack[w]))
    BY <1>1, <1>2, AtPop DEF Active
  <2>2. QED
    BY <1>1, <1>2, <2>1, QuietStack
<1>3. CASE SetStack(w, s)
  <2>1. GoodFrame(f) /\ f.at = "flush" /\ GoodFrame(g) /\ g.at = "notify"
    BY PlainFrame DEF Places, OfJob
  <2> HIDE DEF f, g
  <2>2. GoodStack(stack[w]) /\ ~Seeks(stack[w]) /\ Shape(stack[w])
    BY <1>1, AtTop DEF JInv, Searching, Outermost
  <2>3. GoodStack(Append(stack[w], f)) /\ ~Seeks(Append(stack[w], f))
    BY <2>1, <2>2, PushStack DEF Searching
  <2>4. GoodStack(s) /\ Shape(s)
    BY <2>1, <2>2, <2>3, PushStack, PushShape
  <2> DEFINE n == Len(stack[w])
  <2>5. /\ n \in Nat /\ Len(s) = n + 2 /\ \A i \in 1 .. n : s[i] = stack[w][i]
        /\ s[n + 1] = f /\ s[n + 2] = g
    <3>1. stack[w] \in Seq(Frames) /\ f \in Frames /\ g \in Frames
      BY <2>1, <2>2 DEF GoodStack, GoodFrame
    <3> DEFINE u == Append(stack[w], f)
    <3>2. /\ n \in Nat /\ u \in Seq(Frames) /\ Len(u) = n + 1 /\ u[n + 1] = f
          /\ \A i \in 1 .. n : u[i] = stack[w][i]
      BY <3>1, AppendProperties, LenProperties
    <3> HIDE DEF u
    <3>3. /\ Len(Append(u, g)) = Len(u) + 1 /\ Append(u, g)[Len(u) + 1] = g
          /\ \A i \in 1 .. Len(u) : Append(u, g)[i] = u[i]
      BY <3>1, <3>2, AppendProperties
    <3> DEFINE t == Append(u, g)
    <3> HIDE DEF t, n
    <3>4. /\ Len(t) = n + 2 /\ \A i \in 1 .. n : t[i] = stack[w][i]
          /\ t[n + 1] = f /\ t[n + 2] = g
      BY <3>2, <3>3 DEF t
    <3>5. s = t
      BY DEF t, u
    <3>6. QED
      BY <3>2, <3>4, <3>5
  <2> HIDE DEF s
  <2>6. \A c : c \in Calls' <=> \/ c \in Calls /\ ~(c[1] = w /\ c[2] > n)
                                \/ \E i \in n + 1 .. Len(s) : c = <<w, i, s[i]>> /\ s[i].at \in Active
    <3>1. n <= Len(stack[w]) /\ n <= Len(s)
      BY <2>5
    <3> HIDE DEF n
    <3>2. QED
      BY <1>3, <2>4, <2>5, <3>1, CallsChange DEF JInv
  <2>7. \A c \in Calls : ~(c[1] = w /\ c[2] > n)
    BY <2>5, CallPlace DEF JInv
  <2>8. n + 1 .. Len(s) = {n + 1, n + 2}
    BY <2>5
  <2>9. \A c : c \in Calls' <=> c \in Calls
    BY <2>1, <2>5, <2>6, <2>7, <2>8 DEF Active
  <2>10. Calls' = Calls
    <3>1. \A c \in Calls' : c \in Calls
      BY <2>9
    <3>2. QED
      BY <2>9
  <2>11. QED
    BY <1>1, <1>3, <2>4, <2>10, QuietStack
<1>4. QED
  BY <1>1, <1>2, <1>3

(* Several threads leave calls that are not about a job.                   *)
LEMMA PopMany ==
    ASSUME JInv, IInv', UNCHANGED <<allocated, jobVars, ghosts, queue>>,
           NEW S \in SUBSET Workers,
           \A v \in S : stack[v] # <<>> /\ Top(v).at \notin Active,
           \A v \in Workers : stack'[v] = IF v \in S THEN Pop(stack[v]) ELSE stack[v]
    PROVE  JInv' /\ TaskStep
<1>1. \A v \in S : /\ Len(stack[v]) \in Nat \ {0} /\ Len(Pop(stack[v])) = Len(stack[v]) - 1
                   /\ \A i \in 1 .. Len(stack[v]) - 1 : Pop(stack[v])[i] = stack[v][i]
  BY PopFacts DEF JInv, IInv, StacksOK
<1>2. \A v \in S : \A c \in Calls : c[1] = v => c[2] # Len(stack[v])
  BY CallPlace DEF JInv, Here
<1>3. \A c : c \in Calls' <=> c \in Calls
  <2> TAKE c
  <2>1. ASSUME c \in Workers \X Nat \X Frames, c[1] \notin S
        PROVE  c \in Calls' <=> c \in Calls
    BY <2>1 DEF Calls
  <2>2. ASSUME c \in Workers \X Nat \X Frames, c[1] \in S, c \in Calls
        PROVE  c \in Calls'
    <3> DEFINE n == Len(stack[c[1]])
               m == c[2]
    <3>1. /\ m \in 1 .. n /\ m # n /\ n \in Nat \ {0} /\ stack[c[1]][m] = c[3] /\ c[3].at \in Active
          /\ stack'[c[1]] = Pop(stack[c[1]])
      BY <1>1, <1>2, <2>2 DEF Calls
    <3>2. m \in 1 .. n - 1
      BY <3>1
    <3>3. m \in 1 .. Len(stack'[c[1]]) /\ stack'[c[1]][m] = c[3]
      BY <1>1, <2>2, <3>1, <3>2
    <3>4. QED
      BY <2>2, <3>1, <3>3 DEF Calls
  <2>3. ASSUME c \in Workers \X Nat \X Frames, c[1] \in S, c \in Calls'
        PROVE  c \in Calls
    <3> DEFINE n == Len(stack[c[1]])
               m == c[2]
    <3>1. /\ m \in 1 .. Len(stack'[c[1]]) /\ stack'[c[1]][m] = c[3] /\ c[3].at \in Active
          /\ stack'[c[1]] = Pop(stack[c[1]])
      BY <2>3 DEF Calls
    <3>2. m \in 1 .. n - 1 /\ n \in Nat \ {0}
      BY <1>1, <2>3, <3>1
    <3>3. m \in 1 .. n /\ stack[c[1]][m] = c[3]
      BY <1>1, <2>3, <3>1, <3>2
    <3>4. QED
      BY <2>3, <3>1, <3>3 DEF Calls
  <2>4. QED
    BY <2>1, <2>2, <2>3 DEF Calls
<1>4. LinksOnTop'
  <2> SUFFICES ASSUME NEW c \in Calls', c[3].at = "link"
               PROVE  OnTop(c)'
    BY DEF LinksOnTop
  <2>1. c \in Calls /\ OnTop(c)
    BY <1>3 DEF JInv, LinksOnTop
  <2>2. c[1] \notin S /\ c[1] \in Workers
    BY <1>2, <2>1, CallPlace DEF OnTop, JInv
  <2>3. stack'[c[1]] = stack[c[1]] /\ creator' = creator
    BY <2>2 DEF ghosts
  <2>4. QED
    BY <1>3, <2>1, <2>3 DEF OnTop
<1>5. Outermost'
  <2>1. \A v \in Workers : Shape(stack[v])
    BY DEF JInv, Outermost
  <2>2. \A v \in S : Shape(Pop(stack[v]))
    BY <2>1, PopShape DEF JInv, IInv, StacksOK
  <2>3. QED
    BY <2>1, <2>2 DEF Outermost
<1>6. QED
  BY <1>3, <1>4, <1>5, QuietStep

LEMMA NotifySteps ==
    ASSUME JInv, IInv', (\E w \in Workers : Notify(w)) \/ NotifyAll
    PROVE  JInv' /\ TaskStep
<1>1. stack \in [Workers -> Seq(Frames)] /\ Main \in Workers /\ Full \subseteq Workers
  BY DEF JInv, IInv, TypeOK, Workers
<1>2. \A v \in Sleepers : /\ v \in Workers /\ stack[v] # <<>>
                          /\ Top(v).at = "asleep" /\ Top(v).at \notin Active
  BY <1>1 DEF Sleepers, At, Active
<1>3. ASSUME NEW w \in Workers, Notify(w) PROVE JInv' /\ TaskStep
  <2>1. /\ stack[w] # <<>> /\ Top(w).at = "notify" /\ Top(w).at \notin Active
        /\ UNCHANGED <<allocated, jobVars, ghosts, queue>>
    BY <1>3 DEF Notify, At, Active
  <2>2. CASE SetStack(w, Pop(stack[w]))
    <3>1. \A v \in Workers : stack'[v] = IF v \in {w} THEN Pop(stack[v]) ELSE stack[v]
      BY <1>1, <2>2 DEF SetStack
    <3>2. QED
      BY <2>1, <3>1, PopMany
  <2>3. ASSUME NEW s \in Sleepers, stack' = [stack EXCEPT ![w] = Pop(@), ![s] = Pop(@)]
        PROVE  JInv' /\ TaskStep
    <3>1. s # w
      BY <1>2, <2>1
    <3>2. \A v \in Workers : stack'[v] = IF v \in {w, s} THEN Pop(stack[v]) ELSE stack[v]
      BY <1>1, <1>2, <2>3, <3>1
    <3>3. QED
      BY <1>2, <2>1, <3>2, PopMany
  <2>4. QED
    BY <1>3, <2>2, <2>3 DEF Notify
<1>4. CASE NotifyAll
  <2>1. /\ stack[Main] # <<>> /\ Top(Main).at = "notifyAll" /\ Top(Main).at \notin Active
        /\ UNCHANGED <<allocated, jobVars, ghosts, queue>>
    BY <1>4 DEF NotifyAll, At, Active
  <2> DEFINE S == {Main} \cup Sleepers
  <2>2. \A v \in Workers : stack'[v] = IF v \in S THEN Pop(stack[v]) ELSE stack[v]
    BY <1>4 DEF NotifyAll
  <2>3. S \in SUBSET Workers /\ \A v \in S : stack[v] # <<>> /\ Top(v).at \notin Active
    BY <1>1, <1>2, <2>1
  <2> HIDE DEF S
  <2>4. QED
    BY <2>1, <2>2, <2>3, PopMany
<1>5. QED
  BY <1>3, <1>4

(* A thread whose only call is not about a job, or the main thread's code, *)
(* leaves it.                                                              *)
LEMMA Outer ==
    ASSUME JInv, NEW w \in Workers, stack[w] # <<>>, Len(stack[w]) = 1,
           Top(w).at \notin Active \/ (Top(w).at = "code" /\ Top(w).job = NoJob)
    PROVE  \A c \in Calls : c[1] = w => c[3].job = NoJob /\ c[3].at # "link"
<1> SUFFICES ASSUME NEW c \in Calls, c[1] = w PROVE c[3].job = NoJob /\ c[3].at # "link"
  OBVIOUS
<1>1. c[2] \in 1 .. Len(stack[w]) /\ (c[2] = Len(stack[w]) => c = Here(w)) /\ c[3].at \in Active
  BY CallPlace DEF JInv
<1>2. c = Here(w) /\ Here(w)[3] = Top(w)
  BY <1>1 DEF Here
<1>3. QED
  BY <1>1, <1>2

LEMMA OuterStep ==
    ASSUME JInv, IInv', NEW w \in Workers, stack[w] # <<>>, Len(stack[w]) = 1,
           Top(w).at \notin Active \/ (Top(w).at = "code" /\ Top(w).job = NoJob),
           UNCHANGED <<allocated, jobVars, ghosts, queue>>,
           NEW s, GoodStack(s), SetStack(w, s), Shape(s),
           \A i \in 1 .. Len(s) : s[i].at \notin Active
    PROVE  JInv' /\ TaskStep
<1>1. \A c \in Calls : c[1] = w => c[3].job = NoJob /\ c[3].at # "link"
  BY Outer
<1>2. Len(stack[w]) \in Nat /\ Len(s) \in Nat
  BY LenProperties DEF GoodStack
<1>3. \A c : c \in Calls' <=> \/ c \in Calls /\ ~(c[1] = w /\ c[2] > 0)
                              \/ \E i \in 0 + 1 .. Len(s) : c = <<w, i, s[i]>> /\ s[i].at \in Active
  <2>1. 0 \in Nat /\ 0 <= Len(stack[w]) /\ 0 <= Len(s) /\ \A i \in 1 .. 0 : s[i] = stack[w][i]
    BY <1>2
  <2>2. QED
    BY <2>1, CallsChange DEF JInv
<1>4. \A c \in Calls' : c \in Calls
  BY <1>3
<1>5. \A c \in Calls : c \notin Calls' => c[3].job = NoJob
  BY <1>1, <1>3
<1>6. LinksOnTop'
  <2>1. stack' = [stack EXCEPT ![w] = s] /\ stack \in [Workers -> Seq(Frames)]
    BY DEF JInv, IInv, TypeOK, SetStack
  <2> SUFFICES ASSUME NEW c \in Calls', c[3].at = "link"
               PROVE  OnTop(c)'
    BY DEF LinksOnTop
  <2>2. c \in Calls /\ c[1] # w /\ c[1] \in Workers /\ OnTop(c)
    BY <1>1, <1>4, CallPlace DEF JInv, LinksOnTop
  <2>3. stack'[c[1]] = stack[c[1]] /\ creator' = creator
    BY <2>1, <2>2 DEF ghosts
  <2>4. \A e \in Calls : e[1] # w => e \in Calls'
    BY <1>3
  <2>5. QED
    BY <2>2, <2>3, <2>4 DEF OnTop
<1>7. Outermost'
  BY OneShape DEF JInv
<1>8. QED
  BY <1>4, <1>5, <1>6, <1>7, QuietStep

LEMMA LoopSteps ==
    ASSUME JInv, IInv',
           (\E w \in Workers : Loop(w)) \/ BeginStop \/ StopWorker \/ EndStop
    PROVE  JInv' /\ TaskStep
<1>1. Main \in Workers
  BY DEF Workers
<1>2. ASSUME NEW w \in Workers, NEW p \in {"loop", "stop"}, At(w, p)
      PROVE  /\ stack[w] # <<>> /\ Len(stack[w]) = 1 /\ Top(w).at \notin Active
             /\ ~Seeks(stack[w])
  <2>1. Len(stack[w]) \in Nat \ {0} /\ Top(w).at = p /\ ~Seeks(stack[w])
    BY <1>2, HereCall, AtTop DEF JInv, Searching
  <2>2. Len(stack[w]) = 1
    <3>1. Shape(stack[w]) /\ Len(stack[w]) \in 1 .. Len(stack[w])
      BY <2>1 DEF JInv, Outermost
    <3>2. stack[w][Len(stack[w])].at \in {"loop", "stop"}
      BY <2>1 DEF Top
    <3>3. QED
      BY <3>1, <3>2 DEF Shape
  <2>3. QED
    BY <1>2, <2>1, <2>2 DEF At, Active
<1>3. /\ GoodStack(<<>>) /\ Shape(<<>>)
      /\ \A i \in 1 .. Len(<<>>) : <<>>[i].at \notin Active
  BY EmptyStack, EmptySeq DEF Shape
<1>4. ASSUME NEW w \in Workers, Loop(w) PROVE JInv' /\ TaskStep
  <2> DEFINE f == Frame("flush", NoJob)
  <2>1. At(w, "loop") /\ UNCHANGED <<allocated, jobVars, ghosts, queue>>
    BY <1>4 DEF Loop
  <2>2. CASE SetStack(w, <<>>)
    BY <1>2, <1>3, <2>1, <2>2, OuterStep
  <2>3. CASE SetStack(w, Append(stack[w], f))
    <3>1. GoodFrame(f) /\ f.at = "flush"
      BY PlainFrame DEF Places, OfJob
    <3> HIDE DEF f
    <3>2. Calls' = Calls /\ Shape(Append(stack[w], f))
      BY <2>1, <2>3, <3>1, AtPush DEF Searching, Active
    <3>3. QED
      BY <2>1, <2>3, <3>2, QuietStack
  <2>4. QED
    BY <1>4, <2>2, <2>3 DEF Loop
<1>5. CASE EndStop
  <2>1. At(Main, "stop") /\ UNCHANGED <<allocated, jobVars, ghosts, queue>> /\ SetStack(Main, <<>>)
    BY <1>5 DEF EndStop
  <2>2. QED
    BY <1>1, <1>2, <1>3, <2>1, OuterStep
<1>6. CASE StopWorker
  <2> DEFINE f == Frame("notifyAll", NoJob)
  <2>1. /\ At(Main, "stop") /\ UNCHANGED <<allocated, jobVars, ghosts, queue>>
        /\ SetStack(Main, Append(stack[Main], f))
    BY <1>6 DEF StopWorker
  <2>2. GoodFrame(f) /\ f.at = "notifyAll"
    BY PlainFrame DEF Places, OfJob
  <2> HIDE DEF f
  <2>3. Calls' = Calls /\ Shape(Append(stack[Main], f))
    BY <1>1, <2>1, <2>2, AtPush DEF Searching, Active
  <2>4. QED
    BY <1>1, <2>1, <2>3, QuietStack
<1>7. CASE BeginStop
  <2> DEFINE c == Frame("code", NoJob)
             f == Frame("stop", NoJob)
  <2>1. /\ stack[Main] = <<c>> /\ UNCHANGED <<allocated, jobVars, ghosts, queue>>
        /\ SetStack(Main, <<f>>)
    BY <1>7 DEF BeginStop
  <2>2. GoodFrame(f) /\ f.at = "stop" /\ c.at = "code" /\ c.job = NoJob
    BY PlainFrame DEF Places, OfJob, Frame
  <2> HIDE DEF c, f
  <2>3. stack[Main] # <<>> /\ Len(stack[Main]) = 1 /\ Top(Main) = c
    BY <2>1 DEF Top
  <2>4. GoodStack(<<f>>)
    <3>1. <<f>> = Append(<<>>, f)
      OBVIOUS
    <3>2. QED
      BY <2>2, <3>1, EmptyStack, PushStack
  <2>5. Len(<<f>>) = 1 /\ <<f>>[1] = f
    OBVIOUS
  <2>6. Shape(<<f>>) /\ \A i \in 1 .. Len(<<f>>) : <<f>>[i].at \notin Active
    BY <2>2, <2>5 DEF Shape, Active
  <2>7. QED
    BY <1>1, <2>1, <2>2, <2>3, <2>4, <2>6, OuterStep
<1>8. QED
  BY <1>4, <1>5, <1>6, <1>7

(* A search that finds nothing.                                            *)
LEMMA SearchSteps ==
    ASSUME JInv, IInv', NEW w \in Workers, PopOwn(w) \/ Steal(w), UNCHANGED <<queue, runs>>
    PROVE  JInv' /\ TaskStep
<1> DEFINE Search == {"flush", "retry", "stealMain", "stealAny", "doze"}
<1>1. PICK p \in Search : At(w, p)
  BY DEF PopOwn, Steal
<1>2. p \notin Active /\ p # "link" /\ p \notin {"loop", "stop"}
  BY DEF Active
<1>3. UNCHANGED <<allocated, jobVars, ghosts, queue>>
  BY DEF PopOwn, Steal, ghosts
<1>4. \A j \in Jobs : runs' # [runs EXCEPT ![j] = @ + 1]
  BY DEF JInv, IInv, TypeOK
<1>5. queue \in [Workers -> Seq(Jobs)] /\ Main \in Workers
  BY DEF JInv, IInv, TypeOK, Workers
<1>6. /\ ~(queue[w] # <<>> /\ Enter(w, Head(queue[w])))
      /\ \A v \in Workers : ~StealFrom(w, v)
  <2>1. queue[w] # <<>> => Head(queue[w]) \in Jobs
    BY <1>5
  <2>2. \A v \in Workers : queue[v] # <<>> => queue[v][Len(queue[v])] \in Jobs
    BY <1>5
  <2>3. QED
    BY <1>4, <2>1, <2>2 DEF Enter, StealFrom
<1>7. \/ SetStack(w, Pop(stack[w]))
      \/ \E q \in Search : SetStack(w, Goto(stack[w], Frame(q, NoJob)))
  <2>1. CASE PopOwn(w)
    BY <1>6, <2>1 DEF PopOwn
  <2>2. CASE Steal(w)
    BY <1>5, <1>6, <2>2 DEF Steal
  <2>3. QED
    BY <2>1, <2>2
<1>8. CASE SetStack(w, Pop(stack[w]))
  <2>1. Calls' = Calls /\ Shape(Pop(stack[w]))
    BY <1>1, <1>2, <1>8, AtPop
  <2>2. QED
    BY <1>1, <1>2, <1>3, <1>8, <2>1, QuietStack
<1>9. ASSUME NEW q \in Search, SetStack(w, Goto(stack[w], Frame(q, NoJob))) PROVE JInv' /\ TaskStep
  <2> DEFINE f == Frame(q, NoJob)
  <2>1. GoodFrame(f) /\ f.at = q
    BY PlainFrame DEF Places, OfJob
  <2>2. f.at \notin Active /\ f.at \notin {"loop", "stop"} /\ SetStack(w, Goto(stack[w], f))
    BY <1>9, <2>1 DEF Active
  <2> HIDE DEF f
  <2>3. Calls' = Calls /\ Shape(Goto(stack[w], f))
    BY <1>1, <1>2, <2>1, <2>2, AtGoto
  <2>4. QED
    BY <1>1, <1>2, <1>3, <2>2, <2>3, QuietStack
<1>10. QED
  BY <1>7, <1>8, <1>9

-----------------------------------------------------------------------------
(* Facts about a state.                                                    *)

LEMMA CallJob ==
    ASSUME JInv, NEW c \in Calls
    PROVE  /\ c[3].job \in Jobs \cup {NoJob} /\ c[3].n \in Nat
           /\ c[3].at \in Active /\ c[3].at \in Places
           /\ c[3].at # "code" => c[3].job \in Jobs
           /\ c[3].job \in Jobs => Used(c[3].job)
           /\ CallKnown(c)
<1>1. GoodFrame(c[3]) /\ c[3].at \in Active /\ CallKnown(c)
  BY CallPlace DEF JInv, CallsKnown
<1>2. QED
  BY <1>1, PoolAssumption DEF GoodFrame, Frames, Active, OfJob, CallKnown

LEMMA Finite ==
    ASSUME JInv, NEW j \in Jobs, Used(j)
    PROVE  /\ IsFiniteSet(Bodies(j)) /\ IsFiniteSet(Kids(j))
           /\ Cardinality(Bodies(j)) \in Nat /\ Cardinality(Kids(j)) \in Nat
           /\ Own(j) \in {0, 1}
           /\ unfinished[j] = Own(j) + Cardinality(Bodies(j)) + Cardinality(Kids(j))
           /\ unfinished[j] \in Nat /\ unfinished[j] < CounterSize
<1>1. Counts(j)
  BY DEF JInv, Counter
<1>2. unfinished[j] \in 0 .. CounterSize - 1
  BY DEF JInv, IInv, TypeOK
<1>3. QED
  BY <1>1, <1>2, CounterAssumption, FS_CardinalityType DEF Counts, Own

(* A counter at 0: the body has returned, and all children are done.       *)
LEMMA AtZero ==
    ASSUME JInv, NEW j \in Jobs, Used(j), unfinished[j] = 0
    PROVE  runs[j] = 1 /\ Bodies(j) = {} /\ Kids(j) = {}
<1>1. Own(j) = 0 /\ Cardinality(Bodies(j)) = 0 /\ Cardinality(Kids(j)) = 0
  BY Finite
<1>2. QED
  BY <1>1, Finite, FS_EmptySet DEF Own, JInv, RunsOnce

(* What schedule(job, dependence) is at work on is made by another body.   *)
LEMMA NoLinkHere ==
    ASSUME JInv, NEW w \in Workers, At(w, "code")
    PROVE  \A c \in Calls : c[3].at = "link" => creator[c[3].job] # Top(w).job /\ c[1] # w
<1> SUFFICES ASSUME NEW c \in Calls, c[3].at = "link"
             PROVE  creator[c[3].job] # Top(w).job /\ c[1] # w
  OBVIOUS
<1>1. /\ Here(w) \in Calls /\ Here(w)[3] = Top(w) /\ Top(w).at = "code"
      /\ Here(w)[1] = w /\ Here(w)[2] = Len(stack[w])
  BY HereCall DEF JInv, Active
<1>2. c[1] # w
  BY LinksElsewhere DEF JInv
<1>3. PICK e \in Calls : /\ e[1] = c[1] /\ e[3].at = "code"
                         /\ e[3].job = creator[c[3].job]
  BY DEF JInv, LinksOnTop, OnTop
<1>4. e # Here(w)
  BY <1>1, <1>2, <1>3
<1>5. e[3].job # Top(w).job
  BY <1>1, <1>3, <1>4 DEF JInv, CodeOnce
<1>6. QED
  BY <1>2, <1>3, <1>5

(* Steps that change nothing but calls and counters.                       *)
LEMMA DataKept ==
    ASSUME JInv, UNCHANGED <<allocated, type, parent, dependent_count, dependents, ghosts, queue>>,
           \A c : c \in Calls' /\ c[3].at = "link" <=> c \in Calls /\ c[3].at = "link"
    PROVE  /\ RunsOnce' /\ Parents' /\ QueueOnce' /\ QueuedKnown' /\ Slots' /\ Unused' /\ Allocated'
           /\ Linked' /\ LinkCalls'
<1>1. UNCHANGED <<allocated, parent, dependent_count, dependents, life, creator, after, runs, queue>>
  BY DEF ghosts
<1>2. RunsOnce' /\ Parents' /\ QueueOnce' /\ QueuedKnown' /\ Slots' /\ Unused' /\ Allocated'
  BY <1>1 DEF JInv, RunsOnce, Parents, QueueOnce, QueuedKnown, Slots, Unused, Allocated, Used,
              Leaf, Queued, Index
<1>3. Linked'
  BY <1>1 DEF JInv, Linked, Linking, Used, Index
<1>4. LinkCalls'
  BY <1>1 DEF JInv, LinkCalls, LinkCall, Waits, Queued, Index
<1>5. QED
  BY <1>2, <1>3, <1>4

LEMMA BodyIn ==
    ASSUME NEW B, IsFiniteSet(B), NEW z, z \notin B
    PROVE  IsFiniteSet(B \cup {z}) /\ Cardinality(B \cup {z}) = Cardinality(B) + 1
BY FS_AddElement

LEMMA BodyOut ==
    ASSUME NEW B, IsFiniteSet(B), NEW x \in B
    PROVE  IsFiniteSet(B \ {x}) /\ Cardinality(B \ {x}) = Cardinality(B) - 1
BY FS_RemoveElement

LEMMA BodySwap ==
    ASSUME NEW B, IsFiniteSet(B), NEW x \in B, NEW y, y \in B => y = x
    PROVE  IsFiniteSet((B \ {x}) \cup {y}) /\ Cardinality((B \ {x}) \cup {y}) = Cardinality(B)
<1>1. IsFiniteSet(B \ {x}) /\ Cardinality(B \ {x}) = Cardinality(B) - 1 /\ Cardinality(B) \in Nat
  BY BodyOut, FS_CardinalityType
<1>2. y \notin B \ {x}
  OBVIOUS
<1>3. QED
  BY <1>1, <1>2, BodyIn

-----------------------------------------------------------------------------
(* The end of a job.                                                       *)

LEMMA ReturnJ ==
    ASSUME JInv, IInv', NEW w \in Workers, Return(w)
    PROVE  JInv' /\ TaskStep
<1> DEFINE j == Top(w).job
           f == Frame("finish", j)
           x == Here(w)
           y == Instead(w, f)
<1>1. /\ x \in Calls /\ x[3].at = "code" /\ x[3].job = j /\ j \in Jobs /\ Used(j) /\ runs[j] = 1
      /\ GoodStack(stack[w]) /\ stack[w] # <<>>
  BY HereCall, AtTop, CallJob DEF Return, Active, JInv, CallKnown
<1>2. /\ SetStack(w, Goto(stack[w], f)) /\ At(w, "code")
      /\ UNCHANGED <<allocated, jobVars, ghosts, queue, flags>>
  BY DEF Return
<1> HIDE DEF j
<1>3. GoodFrame(f) /\ f.at = "finish" /\ f.job = j
  BY <1>1, FrameType DEF Places, Frame
<1> HIDE DEF f
<1>4. y[3] = f /\ y[1] = w /\ x[1] = w
  BY DEF Instead, Here
<1>5. Calls' = (Calls \ {x}) \cup {y} /\ (y \in Calls => y = x)
  BY <1>1, <1>2, <1>3, GotoCalls DEF JInv, Active
<1>6. y \notin Calls
  BY <1>1, <1>3, <1>4, <1>5
<1> HIDE DEF x, y
<1>7. UNCHANGED <<allocated, type, parent, unfinished, dependent_count, dependents, life, creator,
                  after, runs, queue>>
  BY <1>2 DEF jobVars, ghosts
<1>8. /\ RunsOnce' /\ Parents' /\ QueueOnce' /\ QueuedKnown' /\ Slots' /\ Unused' /\ Allocated'
      /\ Linked' /\ LinkCalls'
  BY <1>1, <1>2, <1>3, <1>4, <1>5, DataKept DEF jobVars
<1>9. CallsKnown'
  <2>1. \A c \in Calls' : c = y => CallKnown(c)'
    BY <1>1, <1>3, <1>4, <1>7, PoolAssumption DEF CallKnown, Used
  <2>2. \A c \in Calls : CallKnown(c)'
    BY <1>7 DEF JInv, CallsKnown, CallKnown, Used, HasChildren
  <2>3. QED
    BY <1>5, <2>1, <2>2 DEF CallsKnown
<1>10. CodeOnce'
  BY <1>3, <1>4, <1>5 DEF JInv, CodeOnce
<1>11. LeafOnce'
  BY <1>1, <1>3, <1>4, <1>5, <1>7 DEF JInv, LeafOnce, Leaf
<1>12. Counter'
  <2> SUFFICES ASSUME NEW k \in Jobs, Used(k) PROVE Counts(k)'
    BY <1>7 DEF Counter, Used
  <2>1. Kids(k)' = Kids(k) /\ Own(k)' = Own(k)
    BY <1>1, <1>3, <1>4, <1>5, <1>7 DEF Kids, Checked, Used, Own
  <2>2. Bodies(k)' = IF k = j THEN (Bodies(k) \ {x}) \cup {y} ELSE Bodies(k)
    BY <1>1, <1>3, <1>4, <1>5 DEF Bodies
  <2>3. x \in Bodies(j) /\ y \notin Bodies(j)
    BY <1>1, <1>6 DEF Bodies
  <2>4. IsFiniteSet(Bodies(k)') /\ Cardinality(Bodies(k)') = Cardinality(Bodies(k))
    BY <2>2, <2>3, Finite, BodySwap
  <2>5. QED
    BY <1>7, <2>1, <2>4, Finite DEF Counts
<1>13. Released'
  BY <1>1, <1>3, <1>4, <1>5, <1>7 DEF JInv, Released, Unvisited, Waits, Queued, Index
<1>14. LinksOnTop'
  <2>1. \A c \in Calls : c[1] # w => c \in Calls'
    BY <1>4, <1>5
  <2>2. \A c \in Calls' : c[3].at = "link" => c \in Calls
    BY <1>3, <1>4, <1>5
  <2>3. QED
    BY <1>2, <1>7, <2>1, <2>2, LinksStay DEF JInv
<1>15. Outermost'
  BY <1>1, <1>2, <1>3, GotoShape, OneShape DEF JInv, Outermost
<1>16. Returns(j)
  <2>1. \A c \in Calls : c[3].at = "code" /\ c[3].job = j => c = x
    BY <1>1 DEF JInv, CodeOnce
  <2>2. \A k \in Jobs : Running(k)' <=> Running(k) /\ k # j
    BY <1>1, <1>3, <1>4, <1>5, <2>1 DEF Running
  <2>3. QED
    BY <1>1, <1>7, <2>2 DEF Returns, Running
<1>17. QED
  BY <1>1, <1>8, <1>9, <1>10, <1>11, <1>12, <1>13, <1>14, <1>15, <1>16 DEF JInv, TaskStep

LEMMA FinishJ ==
    ASSUME JInv, IInv', NEW w \in Workers, Finish(w)
    PROVE  JInv' /\ TaskStep
<1> SUFFICES ASSUME NEW j, j = Top(w).job, NEW f, f = Frame("check", j),
                    NEW x, x = Here(w), NEW y, y = Instead(w, f)
             PROVE  JInv' /\ TaskStep
  OBVIOUS
<1>1. /\ x \in Calls /\ x[3].at = "finish" /\ x[3].job = j /\ j \in Jobs /\ Used(j)
      /\ GoodStack(stack[w]) /\ stack[w] # <<>>
      /\ runs[j] = 1 \/ HasChildren(j)
  BY HereCall, AtTop, CallJob DEF Finish, Active, JInv, CallKnown
<1>2. /\ SetStack(w, Goto(stack[w], f)) /\ At(w, "finish")
      /\ unfinished' = [unfinished EXCEPT ![j] = (@ - 1) % CounterSize]
      /\ UNCHANGED <<allocated, type, parent, dependent_count, dependents, ghosts, queue, flags>>
  BY DEF Finish, Decremented
<1>3. GoodFrame(f) /\ f.at = "check" /\ f.job = j
  BY <1>1, FrameType DEF Places, Frame
<1>4. y[3] = f /\ y[1] = w /\ x[1] = w
  BY DEF Instead, Here
<1>5. Calls' = (Calls \ {x}) \cup {y} /\ (y \in Calls => y = x)
  BY <1>1, <1>2, <1>3, GotoCalls DEF JInv, Active
<1>6. y \notin Calls
  BY <1>1, <1>3, <1>4, <1>5
<1>7. UNCHANGED <<allocated, type, parent, dependent_count, dependents, life, creator,
                  after, runs, queue>>
  BY <1>2 DEF ghosts
<1>8. x \in Bodies(j)
  BY <1>1 DEF Bodies
<1>9. unfinished[j] \in Nat \ {0} /\ unfinished'[j] = unfinished[j] - 1
  <2>1. IsFiniteSet(Bodies(j)) /\ Bodies(j) # {}
    BY <1>1, <1>8, Finite
  <2>2. Cardinality(Bodies(j)) # 0
    BY <2>1, FS_EmptySet
  <2>3. unfinished[j] \in Nat \ {0} /\ unfinished[j] - 1 \in 0 .. CounterSize - 1
    BY <1>1, <2>2, Finite, CounterAssumption
  <2>4. (unfinished[j] - 1) % CounterSize = unfinished[j] - 1
    BY <2>3, CounterAssumption
  <2>5. QED
    BY <1>1, <1>2, <2>3, <2>4 DEF JInv, IInv, TypeOK
<1>10. \A k \in Jobs : k # j => unfinished'[k] = unfinished[k]
  BY <1>2 DEF JInv, IInv, TypeOK
<1>11. /\ RunsOnce' /\ Parents' /\ QueueOnce' /\ QueuedKnown' /\ Slots' /\ Unused' /\ Allocated'
       /\ Linked' /\ LinkCalls'
  BY <1>1, <1>2, <1>3, <1>4, <1>5, DataKept
<1>12. CallsKnown'
  <2>1. \A c \in Calls' : c = y => CallKnown(c)'
    BY <1>1, <1>3, <1>4, <1>7, PoolAssumption DEF CallKnown, Used, HasChildren
  <2>2. ASSUME NEW c \in Calls PROVE CallKnown(c)'
    <3>1. CallKnown(c) /\ (c[3].at = "dependents" => c[3].job \in Jobs)
      BY CallJob
    <3>2. c[3].at = "dependents" => unfinished'[c[3].job] = 0
      BY <1>9, <1>10, <3>1 DEF CallKnown
    <3>3. QED
      BY <1>7, <3>1, <3>2 DEF CallKnown, Used, HasChildren
  <2>3. QED
    BY <1>5, <2>1, <2>2 DEF CallsKnown
<1>13. CodeOnce'
  BY <1>3, <1>4, <1>5 DEF JInv, CodeOnce
<1>14. LeafOnce'
  BY <1>1, <1>3, <1>4, <1>5, <1>7 DEF JInv, LeafOnce, Leaf
<1>15. Counter'
  <2> SUFFICES ASSUME NEW k \in Jobs, Used(k) PROVE Counts(k)'
    BY <1>7 DEF Counter, Used
  <2>1. Own(k)' = Own(k)
    BY <1>7 DEF Own
  <2>2. Kids(k)' = Kids(k)
    <3>1. \A c \in Jobs : c # j => unfinished'[c] = unfinished[c] /\ (Checked(c)' <=> Checked(c))
      BY <1>1, <1>3, <1>4, <1>5, <1>10 DEF Checked
    <3>2. unfinished[j] # 0 /\ Checked(j)'
      BY <1>3, <1>4, <1>5, <1>9 DEF Checked
    <3>3. \A c \in Jobs : (unfinished'[c] # 0 \/ Checked(c)') <=> (unfinished[c] # 0 \/ Checked(c))
      BY <3>1, <3>2
    <3>4. QED
      BY <1>7, <3>3 DEF Kids, Used
  <2>3. Bodies(k)' = IF k = j THEN Bodies(k) \ {x} ELSE Bodies(k)
    BY <1>1, <1>3, <1>4, <1>5 DEF Bodies
  <2>4. CASE k = j
    <3>1. IsFiniteSet(Bodies(j)') /\ Cardinality(Bodies(j)') = Cardinality(Bodies(j)) - 1
      BY <1>8, <2>3, <2>4, Finite, BodyOut
    <3> DEFINE b == Cardinality(Bodies(j))
               bb == Cardinality(Bodies(j)')
               q == Cardinality(Kids(j))
    <3>2. /\ b \in Nat /\ q \in Nat /\ Own(j) \in {0, 1} /\ unfinished[j] = Own(j) + b + q
          /\ IsFiniteSet(Kids(j)) /\ bb = b - 1 /\ unfinished'[j] = unfinished[j] - 1
      BY <1>1, <1>9, <3>1, Finite
    <3>3. unfinished'[j] = Own(j) + bb + q
      <4> HIDE DEF b, bb, q
      <4> QED
        BY <3>2
    <3>4. QED
      BY <2>1, <2>2, <2>4, <3>1, <3>2, <3>3 DEF Counts
  <2>5. CASE k # j
    BY <1>10, <2>1, <2>2, <2>3, <2>5, Finite DEF Counts
  <2>6. QED
    BY <2>4, <2>5
<1>16. Released'
  <2>1. ASSUME NEW d \in Jobs, NEW k \in Index PROVE Unvisited(d, k)' <=> Unvisited(d, k)
    <3>1. CASE d = j
      <4>1. Unvisited(j, k)
        BY <1>9 DEF Unvisited
      <4>2. Unvisited(j, k)'
        BY <1>3, <1>4, <1>5 DEF Unvisited
      <4>3. QED
        BY <3>1, <4>1, <4>2
    <3>2. CASE d # j
      BY <1>1, <1>3, <1>4, <1>5, <1>10, <3>2 DEF Unvisited
    <3>3. QED
      BY <3>1, <3>2
  <2>2. QED
    BY <1>7, <2>1 DEF JInv, Released, Waits, Queued, Index
<1>17. LinksOnTop'
  <2>1. \A c \in Calls : c[1] # w => c \in Calls'
    BY <1>4, <1>5
  <2>2. \A c \in Calls' : c[3].at = "link" => c \in Calls
    BY <1>3, <1>4, <1>5
  <2>3. QED
    BY <1>2, <1>7, <2>1, <2>2, LinksStay DEF JInv
<1>18. Outermost'
  BY <1>1, <1>2, <1>3, GotoShape, OneShape DEF JInv, Outermost
<1>19. Finishes(j)
  <2>1. \A k \in Jobs : k # j => unfinished'[k] = unfinished[k]
    BY <1>10
  <2>2. SameRunning
    BY <1>1, <1>3, <1>4, <1>5 DEF SameRunning, Running
  <2>3. QED
    BY <1>1, <1>7, <1>9, <2>1, <2>2 DEF Finishes
<1>20. QED
  BY <1>1, <1>11, <1>12, <1>13, <1>14, <1>15, <1>16, <1>17, <1>18, <1>19 DEF JInv, TaskStep

(* The calls after finish() has looked at the counter: y visits the        *)
(* dependents, after z has finished the parent.                            *)
LEMMA CheckCalls ==
    ASSUME JInv, NEW w \in Workers, Check(w), NEW j, j = Top(w).job,
           NEW x, x = Here(w),
           NEW y, y = Instead(w, LoopFrame(j, 0)),
           NEW z, z = Above(w, Frame("finish", parent[j]))
    PROVE  /\ x \in Calls /\ x[3].at = "check" /\ x[3].job = j /\ x[1] = w
           /\ j \in Jobs /\ Used(j) /\ (runs[j] = 1 \/ HasChildren(j))
           /\ y[1] = w /\ y[3].at = "dependents" /\ y[3].job = j /\ y[3].n = 0 /\ y \notin Calls
           /\ z[1] = w /\ z[3].at = "finish" /\ z[3].job = parent[j]
           /\ \/ unfinished[j] # 0 /\ Calls' = Calls \ {x}
              \/ unfinished[j] = 0 /\ parent[j] = NoJob /\ Calls' = (Calls \ {x}) \cup {y}
              \/ /\ unfinished[j] = 0 /\ parent[j] \in Jobs
                 /\ Calls' = (Calls \ {x}) \cup {y, z} /\ z \notin Calls
           /\ Outermost'
<1>1. /\ x \in Calls /\ x[3].at = "check" /\ x[3].job = j /\ x[1] = w
      /\ j \in Jobs /\ Used(j) /\ (runs[j] = 1 \/ HasChildren(j))
      /\ GoodStack(stack[w]) /\ stack[w] # <<>> /\ Shape(stack[w])
  BY HereCall, AtTop, CallJob DEF Check, Active, JInv, CallKnown, Outermost
<1> DEFINE f == LoopFrame(j, 0)
           g == Frame("finish", parent[j])
<1>2. GoodFrame(f) /\ f.at = "dependents" /\ f.job = j /\ f.n = 0
  BY <1>1, LoopFrameType DEF LoopFrame
<1>3. parent[j] \in Jobs => GoodFrame(g)
  BY FrameType DEF Places, Frame
<1>4. g.at = "finish" /\ g.job = parent[j] /\ parent[j] \in Jobs \cup {NoJob}
  BY <1>1 DEF Frame, JInv, IInv, TypeOK
<1>5. SetStack(w, IF unfinished[j] # 0 THEN Pop(stack[w])
                  ELSE IF parent[j] # NoJob THEN Append(Goto(stack[w], f), g)
                  ELSE Goto(stack[w], f))
  BY DEF Check, FirstDependent
<1> HIDE DEF f, g
<1>6. y[1] = w /\ y[3] = f /\ z[1] = w /\ z[3] = g /\ y = Instead(w, f) /\ z = Above(w, g)
  BY DEF Instead, Above, f, g
<1>7. y \notin Calls
  <2>1. y \in Calls => y = x
    <3>1. y \in Calls => y[2] = Len(stack[w]) /\ y[1] = w
      BY DEF Instead
    <3>2. QED
      BY <3>1, CallPlace DEF JInv
  <2>2. QED
    BY <1>1, <1>2, <1>6, <2>1
<1>8. CASE unfinished[j] # 0
  <2>1. SetStack(w, Pop(stack[w]))
    BY <1>5, <1>8
  <2>2. Calls' = Calls \ {x} /\ Outermost'
    BY <1>1, <2>1, PopCalls, PopShape, OneShape DEF JInv
  <2>3. QED
    BY <1>1, <1>2, <1>4, <1>6, <1>7, <1>8, <2>2
<1>9. CASE unfinished[j] = 0 /\ parent[j] = NoJob
  <2>1. SetStack(w, Goto(stack[w], f))
    BY <1>5, <1>9
  <2>2. Calls' = (Calls \ {x}) \cup {y} /\ Outermost'
    BY <1>1, <1>2, <1>6, <2>1, GotoCalls, GotoShape, OneShape DEF JInv, Active
  <2>3. QED
    BY <1>1, <1>2, <1>4, <1>6, <1>7, <1>9, <2>2
<1>10. CASE unfinished[j] = 0 /\ parent[j] \in Jobs
  <2>1. SetStack(w, Append(Goto(stack[w], f), g)) /\ GoodFrame(g)
    BY <1>3, <1>5, <1>10, PoolAssumption
  <2>2. Calls' = (Calls \ {x}) \cup {y, z} /\ z \notin Calls
    BY <1>1, <1>2, <1>4, <1>6, <2>1, GotoPushCalls DEF JInv, Active, Searching
  <2>3. GoodStack(Goto(stack[w], f)) /\ Shape(Goto(stack[w], f))
    BY <1>1, <1>2, GotoStack, GotoShape
  <2>4. Shape(Append(Goto(stack[w], f), g))
    BY <1>4, <2>1, <2>3, PushShape
  <2>5. Outermost'
    BY <2>1, <2>4, OneShape DEF JInv
  <2>6. QED
    BY <1>1, <1>2, <1>4, <1>6, <1>7, <1>10, <2>2, <2>5
<1>11. QED
  BY <1>4, <1>8, <1>9, <1>10

LEMMA CheckJ ==
    ASSUME JInv, IInv', NEW w \in Workers, Check(w)
    PROVE  JInv' /\ TaskStep
<1> SUFFICES ASSUME NEW j, j = Top(w).job, NEW p, p = parent[j], NEW x, x = Here(w),
                    NEW y, y = Instead(w, LoopFrame(j, 0)),
                    NEW z, z = Above(w, Frame("finish", p))
             PROVE  JInv' /\ TaskStep
  OBVIOUS
<1>1. /\ x \in Calls /\ x[3].at = "check" /\ x[3].job = j /\ x[1] = w
      /\ j \in Jobs /\ Used(j) /\ (runs[j] = 1 \/ HasChildren(j))
      /\ y[1] = w /\ y[3].at = "dependents" /\ y[3].job = j /\ y[3].n = 0 /\ y \notin Calls
      /\ z[1] = w /\ z[3].at = "finish" /\ z[3].job = p
      /\ Outermost'
  BY CheckCalls
<1>2. \/ unfinished[j] # 0 /\ Calls' = Calls \ {x}
      \/ unfinished[j] = 0 /\ p = NoJob /\ Calls' = (Calls \ {x}) \cup {y}
      \/ /\ unfinished[j] = 0 /\ p \in Jobs
         /\ Calls' = (Calls \ {x}) \cup {y, z} /\ z \notin Calls
  BY CheckCalls
<1>3. /\ UNCHANGED <<allocated, type, parent, unfinished, dependent_count, dependents, life, creator,
                     after, runs, queue>>
      /\ UNCHANGED <<ghosts, flags>> /\ At(w, "check") /\ \E s : SetStack(w, s)
  BY DEF Check, ghosts, jobVars
<1>4. \A c : c \in Calls' => c \in Calls \/ c = y \/ c = z
  BY <1>2
<1>5. \A c \in Calls : c # x => c \in Calls'
  BY <1>2
<1>6. z \in Calls' /\ z \notin Calls => p \in Jobs /\ Used(p) /\ ~Leaf(p) /\ Leaf(j) /\ p # j
  <2>1. z \in Calls' /\ z \notin Calls => p \in Jobs
    BY <1>1, <1>2
  <2>2. p \in Jobs => Used(p) /\ ~Leaf(p) /\ Leaf(j)
    BY <1>1, PoolAssumption DEF JInv, Parents, Leaf
  <2>3. QED
    BY <2>1, <2>2
<1>7. /\ RunsOnce' /\ Parents' /\ QueueOnce' /\ QueuedKnown' /\ Slots' /\ Unused' /\ Allocated'
      /\ Linked' /\ LinkCalls'
  <2>1. \A c : c \in Calls' /\ c[3].at = "link" <=> c \in Calls /\ c[3].at = "link"
    BY <1>1, <1>4, <1>5
  <2>2. QED
    BY <1>3, <2>1, DataKept
<1>8. CallsKnown'
  <2>1. \A c \in Calls' : c = y => CallKnown(c)'
    BY <1>1, <1>2, <1>3, PoolAssumption DEF CallKnown, Used, HasChildren
  <2>2. \A c \in Calls' : c = z /\ c \notin Calls => CallKnown(c)'
    BY <1>1, <1>3, <1>6, PoolAssumption DEF CallKnown, Used, HasChildren
  <2>3. \A c \in Calls : CallKnown(c)'
    BY <1>3 DEF JInv, CallsKnown, CallKnown, Used, HasChildren
  <2>4. QED
    BY <1>4, <2>1, <2>2, <2>3 DEF CallsKnown
<1>9. CodeOnce'
  BY <1>1, <1>4 DEF JInv, CodeOnce
<1>10. \A e \in Calls : e[3].at # "link" /\ e[3].job = j /\ Leaf(j) => e = x
  BY <1>1, PoolAssumption DEF JInv, LeafOnce
<1>11. LeafOnce'
  <2> SUFFICES ASSUME NEW c \in Calls', NEW e \in Calls', c[3].at # "link", e[3].at # "link",
                      c[3].job = e[3].job, c[3].job # NoJob, Leaf(c[3].job)
               PROVE  c = e
    BY <1>3 DEF LeafOnce, Leaf
  <2>1. c \in Calls /\ e \in Calls => c = e
    BY DEF JInv, LeafOnce
  <2>2. (c \notin Calls => c = y) /\ (e \notin Calls => e = y)
    BY <1>1, <1>4, <1>6
  <2>3. c = y /\ e \in Calls => FALSE
    BY <1>1, <1>2, <1>10
  <2>4. e = y /\ c \in Calls => FALSE
    BY <1>1, <1>2, <1>10
  <2>5. QED
    BY <2>1, <2>2, <2>3, <2>4
<1>12. Counter'
  <2> SUFFICES ASSUME NEW k \in Jobs, Used(k) PROVE Counts(k)'
    BY <1>3 DEF Counter, Used
  <2>1. Own(k)' = Own(k)
    BY <1>3 DEF Own
  <2>2. \A c \in Jobs : c # j => (Checked(c)' <=> Checked(c))
    BY <1>1, <1>4, <1>5 DEF Checked
  <2>3. CASE ~(unfinished[j] = 0 /\ k = p)
    <3>1. Kids(k)' = Kids(k)
      BY <1>3, <2>2, <2>3 DEF Kids, Used
    <3>2. Bodies(k)' = Bodies(k)
      BY <1>1, <1>2, <1>5, <2>3, PoolAssumption DEF Bodies
    <3>3. QED
      BY <1>3, <2>1, <3>1, <3>2, Finite DEF Counts
  <2>4. CASE unfinished[j] = 0 /\ k = p
    <3>1. p \in Jobs /\ Calls' = (Calls \ {x}) \cup {y, z} /\ z \notin Calls /\ Leaf(j)
      BY <1>1, <1>2, <1>6, <2>4, PoolAssumption
    <3>2. Bodies(p)' = Bodies(p) \cup {z} /\ z \notin Bodies(p)
      BY <1>1, <3>1 DEF Bodies
    <3>3. ~\E c \in Calls' : c[3].at = "check" /\ c[3].job = j
      BY <1>1, <1>10, <3>1
    <3>4. j \in Kids(p) /\ Kids(p)' = Kids(p) \ {j}
      <4>1. j \in Kids(p)
        BY <1>1 DEF Kids, Checked
      <4>2. \A c \in Jobs : c \in Kids(p)' <=> c \in Kids(p) /\ c # j
        BY <1>3, <2>2, <2>4, <3>3 DEF Kids, Checked, Used
      <4>3. Kids(p) \subseteq Jobs /\ Kids(p)' \subseteq Jobs
        BY DEF Kids
      <4>4. QED
        BY <4>1, <4>2, <4>3
    <3>5. /\ IsFiniteSet(Bodies(p)') /\ IsFiniteSet(Kids(p)')
          /\ Cardinality(Bodies(p)') = Cardinality(Bodies(p)) + 1
          /\ Cardinality(Kids(p)') = Cardinality(Kids(p)) - 1
      BY <2>4, <3>2, <3>4, Finite, BodyIn, BodyOut
    <3> DEFINE b == Cardinality(Bodies(p))
               bb == Cardinality(Bodies(p)')
               q == Cardinality(Kids(p))
               qq == Cardinality(Kids(p)')
    <3>6. /\ b \in Nat /\ q \in Nat /\ Own(p) \in {0, 1} /\ unfinished[p] = Own(p) + b + q
          /\ bb = b + 1 /\ qq = q - 1
      BY <2>4, <3>1, <3>5, Finite
    <3>7. unfinished[p] = Own(p) + bb + qq
      <4> HIDE DEF b, bb, q, qq
      <4> QED
        BY <3>6
    <3>8. QED
      BY <1>3, <2>1, <2>4, <3>5, <3>7 DEF Counts
  <2>5. QED
    BY <2>3, <2>4
<1>13. Released'
  <2>1. ASSUME NEW d \in Jobs, NEW k \in Index PROVE Unvisited(d, k)' <=> Unvisited(d, k)
    <3>1. CASE d = j
      <4>1. Unvisited(j, k)
        BY <1>1 DEF Unvisited
      <4>2. k \in Nat /\ 0 <= k
        BY CounterAssumption DEF Index
      <4>3. Unvisited(j, k)'
        BY <1>1, <1>2, <1>3, <4>2 DEF Unvisited
      <4>4. QED
        BY <3>1, <4>1, <4>3
    <3>2. CASE d # j
      BY <1>1, <1>3, <1>4, <1>5, <3>2 DEF Unvisited
    <3>3. QED
      BY <3>1, <3>2
  <2>2. QED
    BY <1>3, <2>1 DEF JInv, Released, Waits, Queued, Index
<1>14. LinksOnTop'
  <2>1. \A c \in Calls : c[1] # w => c \in Calls'
    BY <1>1, <1>5
  <2>2. \A c \in Calls' : c[3].at = "link" => c \in Calls
    BY <1>1, <1>4
  <2>3. QED
    BY <1>3, <2>1, <2>2, LinksStay DEF JInv
<1>15. TaskStep
  <2>1. SameRunning
    BY <1>1, <1>4, <1>5 DEF SameRunning, Running
  <2>2. QED
    BY <1>3, <2>1 DEF TaskStep, Steady
<1>16. QED
  BY <1>1, <1>7, <1>8, <1>9, <1>11, <1>12, <1>13, <1>14, <1>15 DEF JInv

-----------------------------------------------------------------------------
(* schedule(job, dependence).                                              *)

(* One thread at a time links to a job: the one that created it.           *)
LEMMA LinkOnce ==
    ASSUME JInv, NEW c \in Calls, NEW e \in Calls, c[3].at = "link", e[3].at = "link",
           c[3].job = e[3].job \/ c[1] = e[1]
    PROVE  c = e
<1>1. c = Here(c[1]) /\ e = Here(e[1])
  BY CallPlace DEF JInv, LinksOnTop, OnTop
<1>2. PICK a \in Calls : a[1] = c[1] /\ a[3].at = "code" /\ a[3].job = creator[c[3].job]
  BY DEF JInv, LinksOnTop, OnTop
<1>3. PICK b \in Calls : b[1] = e[1] /\ b[3].at = "code" /\ b[3].job = creator[e[3].job]
  BY DEF JInv, LinksOnTop, OnTop
<1>4. c[3].job = e[3].job => a = b
  BY <1>2, <1>3 DEF JInv, CodeOnce
<1>5. QED
  BY <1>1, <1>2, <1>3, <1>4

(* A job that has not run counts itself.                                   *)
LEMMA NotRun ==
    ASSUME JInv, NEW j \in Jobs, Used(j), runs[j] = 0
    PROVE  unfinished[j] # 0
BY AtZero

LEMMA LinkWriteJ ==
    ASSUME JInv, IInv', NEW w \in Workers, LinkWrite(w)
    PROVE  JInv' /\ TaskStep
<1> SUFFICES ASSUME NEW d, d = Top(w).job, NEW j, j = Top(w).other, NEW n, n = Top(w).n,
                    NEW x, x = Here(w)
             PROVE  JInv' /\ TaskStep
  OBVIOUS
<1>1. /\ x \in Calls /\ x[3].at = "link" /\ x[3].job = d /\ x[3].other = j /\ x[3].n = n
      /\ x[1] = w /\ d \in Jobs /\ Used(d)
      /\ GoodStack(stack[w]) /\ stack[w] # <<>>
  BY HereCall, AtTop, CallJob DEF LinkWrite, Active, JInv
<1>2. /\ j \in Jobs /\ Waits(j) /\ life[d] = "fresh" /\ after[j] = {d}
      /\ n \in Index /\ n < dependent_count[d] /\ dependents[d][n] = NoJob
      /\ \A k \in Index : dependents[d][k] # j
  <2>1. LinkCall(x)
    BY <1>1 DEF JInv, LinkCalls
  <2>2. n \in Nat /\ dependent_count[d] \in 0 .. MaxDependents - 1
    BY <1>1, CallJob DEF JInv, IInv, TypeOK
  <2>3. QED
    BY <1>1, <2>1, <2>2, CounterAssumption DEF LinkCall, Index
<1>3. /\ UNCHANGED <<allocated, type, parent, unfinished, dependent_count, life, creator,
                     after, runs, queue>>
      /\ SetStack(w, Pop(stack[w]))
  BY DEF LinkWrite, ghosts
<1>4. \A e \in Jobs, k \in Index :
         dependents'[e][k] = IF e = d /\ k = n THEN j ELSE dependents[e][k]
  <2>1. dependents \in [Jobs -> [Index -> Jobs \cup {NoJob}]]
    BY DEF JInv, IInv, TypeOK, Index
  <2>2. dependents' = [dependents EXCEPT ![d] = [dependents[d] EXCEPT ![n] = j]]
    BY DEF LinkWrite
  <2>3. QED
    BY <1>1, <1>2, <2>1, <2>2
<1>5. Calls' = Calls \ {x}
  BY <1>1, <1>3, PopCalls DEF JInv
<1>6. RunsOnce' /\ Parents' /\ QueueOnce' /\ QueuedKnown' /\ Unused' /\ Allocated'
  BY <1>3 DEF JInv, RunsOnce, Parents, QueueOnce, QueuedKnown, Unused, Allocated, Used, Leaf, Queued
<1>7. CallsKnown' /\ CodeOnce' /\ LeafOnce'
  BY <1>3, <1>5 DEF JInv, CallsKnown, CallKnown, CodeOnce, LeafOnce, Leaf, Used, HasChildren
<1>8. Counter'
  <2> SUFFICES ASSUME NEW k \in Jobs, Used(k) PROVE Counts(k)'
    BY <1>3 DEF Counter, Used
  <2>1. Bodies(k)' = Bodies(k)
    BY <1>1, <1>5 DEF Bodies
  <2>2. Kids(k)' = Kids(k)
    BY <1>1, <1>3, <1>5 DEF Kids, Checked, Used
  <2>3. QED
    BY <1>3, <2>1, <2>2, Finite DEF Counts, Own
<1>9. Linked'
  <2> SUFFICES ASSUME NEW k \in Jobs
               PROVE  /\ life[k] = "linked" =>
                           \E e \in Jobs : /\ after[k] = {e} /\ Used(e) /\ e # k
                                           /\ Linking(e, k)' \/ \E i \in Index : dependents'[e][i] = k
                      /\ life[k] # "linked" => after[k] = {}
    BY <1>3 DEF Linked, Used
  <2>1. life[k] # "linked" => after[k] = {}
    BY DEF JInv, Linked
  <2>2. ASSUME life[k] = "linked"
        PROVE  \E e \in Jobs : /\ after[k] = {e} /\ Used(e) /\ e # k
                               /\ Linking(e, k)' \/ \E i \in Index : dependents'[e][i] = k
    <3>1. PICK e \in Jobs : /\ after[k] = {e} /\ Used(e) /\ e # k
                            /\ Linking(e, k) \/ \E i \in Index : dependents[e][i] = k
      BY <2>2 DEF JInv, Linked
    <3>2. CASE k = j
      BY <1>2, <1>4, <3>1, <3>2
    <3>3. CASE k # j
      <4>1. Linking(e, k) => Linking(e, k)'
        BY <1>1, <1>5, <3>3 DEF Linking
      <4>2. \A i \in Index : dependents[e][i] = k => dependents'[e][i] = k
        BY <1>2, <1>4, PoolAssumption
      <4>3. QED
        BY <3>1, <4>1, <4>2
    <3>4. QED
      BY <3>2, <3>3
  <2>3. QED
    BY <2>1, <2>2
<1>10. Slots'
  <2> SUFFICES ASSUME NEW e \in Jobs, NEW k \in Index, dependents'[e][k] # NoJob
               PROVE  /\ k < dependent_count[e] /\ after[dependents'[e][k]] = {e}
                      /\ \A l \in Index : dependents'[e][l] = dependents'[e][k] => l = k
    BY <1>3 DEF Slots, Index
  <2>1. CASE e = d /\ k = n
    BY <1>2, <1>4, <2>1
  <2>2. CASE ~(e = d /\ k = n)
    <3>1. dependents'[e][k] = dependents[e][k]
      BY <1>4, <2>2
    <3>2. /\ k < dependent_count[e] /\ after[dependents[e][k]] = {e}
          /\ \A l \in Index : dependents[e][l] = dependents[e][k] => l = k
      BY <3>1 DEF JInv, Slots
    <3>3. \A l \in Index : dependents'[e][l] = dependents'[e][k] => l = k
      BY <1>2, <1>4, <3>1, <3>2
    <3>4. QED
      BY <3>1, <3>2, <3>3
  <2>3. QED
    BY <2>1, <2>2
<1>11. Released'
  <2>1. \A e \in Jobs, k \in Index : Unvisited(e, k)' <=> Unvisited(e, k)
    BY <1>1, <1>3, <1>5 DEF Unvisited
  <2>2. \A k \in Index : Unvisited(d, k)
    BY <1>1, <1>2, NotRun DEF Unvisited, JInv, RunsOnce
  <2>3. \A k : Waits(k)' <=> Waits(k)
    BY <1>3 DEF Waits, Queued
  <2> SUFFICES ASSUME NEW e \in Jobs, NEW k \in Index, dependents'[e][k] # NoJob
               PROVE  Unvisited(e, k) <=> Waits(dependents'[e][k])
    <3>1. \A a \in Jobs, b \in Index : dependents'[a][b] # NoJob
             => (Unvisited(a, b)' <=> Waits(dependents[a][b])')
      BY <2>1, <2>3 DEF Waits, Queued
    <3>2. QED
      BY <3>1 DEF Released, Index
  <2>4. CASE e = d /\ k = n
    BY <1>2, <1>4, <2>2, <2>4
  <2>5. CASE ~(e = d /\ k = n)
    BY <1>4, <2>5 DEF JInv, Released
  <2>6. QED
    BY <2>4, <2>5
<1>12. \A c \in Calls' : c[3].at = "link" => c \in Calls /\ c[3].job \in Jobs /\ c[3].job # d /\ c[1] # w
  BY <1>1, <1>5, CallJob, LinkOnce
<1>13. LinkCalls'
  <2> SUFFICES ASSUME NEW c \in Calls', c[3].at = "link" PROVE LinkCall(c)'
    BY DEF LinkCalls
  <2>1. LinkCall(c) /\ c[3].job \in Jobs /\ c[3].job # d /\ c[3].n \in Nat /\ c \in Calls
    BY <1>12, CallJob DEF JInv, LinkCalls
  <2>2. c[3].n \in Index
    <3>1. dependent_count[c[3].job] \in 0 .. MaxDependents - 1
      BY <2>1 DEF JInv, IInv, TypeOK
    <3>2. c[3].n < dependent_count[c[3].job]
      BY <2>1 DEF LinkCall
    <3>3. QED
      BY <2>1, <3>1, <3>2, CounterAssumption DEF Index
  <2>3. /\ dependents'[c[3].job][c[3].n] = dependents[c[3].job][c[3].n]
        /\ \A k \in Index : dependents'[c[3].job][k] = dependents[c[3].job][k]
    BY <1>4, <2>1, <2>2
  <2>4. QED
    BY <1>3, <2>1, <2>3 DEF LinkCall, Waits, Queued, Index
<1>14. LinksOnTop'
  <2> SUFFICES ASSUME NEW c \in Calls', c[3].at = "link" PROVE OnTop(c)'
    BY DEF LinksOnTop
  <2>1. c \in Calls /\ OnTop(c) /\ c[1] # w /\ c[1] \in Workers
    BY <1>12, CallPlace DEF JInv, LinksOnTop
  <2>2. stack' = [stack EXCEPT ![w] = Pop(stack[w])] /\ stack \in [Workers -> Seq(Frames)]
    BY <1>3 DEF JInv, IInv, TypeOK, SetStack
  <2>3. stack'[c[1]] = stack[c[1]] /\ creator' = creator
    BY <1>3, <2>1, <2>2
  <2>4. \A e \in Calls : e[1] # w => e \in Calls'
    BY <1>1, <1>5
  <2>5. QED
    BY <2>1, <2>3, <2>4 DEF OnTop
<1>15. Outermost'
  BY <1>1, <1>3, PopShape, OneShape DEF JInv, Outermost
<1>16. TaskStep
  BY <1>1, <1>3, <1>5 DEF TaskStep, Steady, SameRunning, Running
<1>17. QED
  BY <1>6, <1>7, <1>8, <1>9, <1>10, <1>11, <1>13, <1>14, <1>15, <1>16 DEF JInv

LEMMA SlotType ==
    ASSUME IInv, NEW d \in Jobs, NEW k \in Index
    PROVE  dependents[d][k] \in Jobs \cup {NoJob}
<1>1. dependents \in [Jobs -> [Index -> Jobs \cup {NoJob}]]
  BY DEF IInv, TypeOK, Index
<1>2. QED
  BY <1>1

LEMMA ScheduleAfterJ ==
    ASSUME JInv, IInv', Disciplined, NEW w \in Workers, NEW j \in Jobs, NEW d \in Jobs,
           ScheduleAfter(w, j, d)
    PROVE  JInv' /\ TaskStep
<1> SUFFICES ASSUME NEW n, n = dependent_count[d], NEW f, f = LinkFrame(d, j, n),
                    NEW x, x = Here(w), NEW y, y = Above(w, f)
             PROVE  JInv' /\ TaskStep
  OBVIOUS
<1>1. /\ x \in Calls /\ x[3] = Top(w) /\ x[3].at = "code" /\ x[1] = w /\ x[2] = Len(stack[w])
      /\ GoodStack(stack[w]) /\ ~Seeks(stack[w]) /\ At(w, "code")
  BY HereCall, AtTop DEF ScheduleAfter, Active, JInv, Searching
<1>2. /\ Used(j) /\ Used(d) /\ creator[j] = Top(w).job /\ creator[d] = Top(w).job /\ j # d
      /\ life[j] = "fresh" /\ life[d] = "fresh" /\ ~HasChildren(d)
  BY DEF ScheduleAfter, Mine, Disciplined
<1>3. runs[j] = 0 /\ runs[d] = 0 /\ ~Queued(j) /\ after[j] = {}
  BY <1>2 DEF JInv, RunsOnce, QueuedKnown, Linked
<1>4. /\ UNCHANGED <<allocated, type, parent, unfinished, dependents, creator, runs, queue>>
      /\ life' = [life EXCEPT ![j] = "linked"]
      /\ after' = [after EXCEPT ![j] = @ \cup {d}]
      /\ dependent_count' = [dependent_count EXCEPT ![d] = @ + 1]
      /\ SetStack(w, Append(stack[w], f))
  BY DEF ScheduleAfter
<1>5. /\ n \in Nat /\ n + 1 < MaxDependents /\ dependent_count'[d] = n + 1
      /\ \A k \in Jobs : k # d => dependent_count'[k] = dependent_count[k]
      /\ \A k \in Jobs : dependent_count[k] \in Nat
  BY <1>4, CounterAssumption DEF JInv, IInv, TypeOK, ScheduleAfter
<1>6. \A k \in Jobs : /\ life'[k] = IF k = j THEN "linked" ELSE life[k]
                      /\ after'[k] = IF k = j THEN {d} ELSE after[k]
                      /\ Used(k)' <=> Used(k)
  BY <1>2, <1>3, <1>4 DEF JInv, IInv, TypeOK, Used
<1>7. /\ GoodFrame(f) /\ f.at = "link" /\ f.job = d /\ f.other = j /\ f.n = n
  BY <1>5, LinkFrameType DEF LinkFrame
<1>8. y[3] = f /\ y[1] = w /\ y[2] = Len(stack[w]) + 1
  BY DEF Above
<1>9. Calls' = Calls \cup {y} /\ y \notin Calls
  BY <1>1, <1>4, <1>7, PushCalls DEF JInv, Active
<1>10. \A c \in Calls : c[3].at # "link" => c[3].job # d
  BY <1>2, <1>3, CallJob, PoolAssumption DEF CallKnown, Active
<1>11. \A c \in Calls : c[3].job \in Jobs => (Used(c[3].job)' <=> Used(c[3].job))
  BY <1>6
<1>12. RunsOnce' /\ QueueOnce' /\ QueuedKnown' /\ Allocated'
  <2>1. QueueOnce' /\ Allocated'
    BY <1>4, <1>6 DEF JInv, QueueOnce, Allocated, Jobs
  <2>2. RunsOnce' /\ QueuedKnown'
    BY <1>3, <1>4, <1>6 DEF JInv, RunsOnce, QueuedKnown, Queued
  <2>3. QED
    BY <2>1, <2>2
<1>13. Unused'
  BY <1>2, <1>4, <1>5, <1>6 DEF JInv, Unused
<1>14. \A k \in Jobs : k # d => (Leaf(k)' <=> Leaf(k))
  BY <1>4, <1>5 DEF Leaf
<1>15. Parents'
  <2>1. \A k \in Jobs : Used(k) => parent[k] # d
    BY <1>2 DEF HasChildren
  <2>2. \A k \in Jobs : parent[k] \in Jobs \cup {NoJob}
    BY DEF JInv, IInv, TypeOK
  <2> SUFFICES ASSUME NEW k \in Jobs, Used(k), parent[k] # NoJob
               PROVE  Used(parent[k])' /\ ~Leaf(parent[k])'
    <3>1. \A a \in Jobs : Used(a) /\ parent[a] # NoJob => Used(parent[a])' /\ ~Leaf(parent[a])'
      OBVIOUS
    <3>2. \A a \in Jobs : Used(a)' /\ parent'[a] # NoJob => Used(parent[a])' /\ ~Leaf(parent[a])'
      BY <1>4, <1>6, <3>1
    <3>3. QED
      BY <3>2 DEF Parents
  <2>3. PICK p \in Jobs : p = parent[k]
    BY <2>2
  <2>4. p # d /\ Used(p) /\ ~Leaf(p)
    BY <2>1, <2>3 DEF JInv, Parents
  <2>5. Used(p)' /\ ~Leaf(p)'
    BY <1>6, <1>14, <2>4
  <2>6. QED
    BY <1>4, <2>3, <2>5
<1>16. CallsKnown'
  <2>1. \A c \in Calls' : c = y => CallKnown(c)'
    BY <1>2, <1>6, <1>7, <1>8, PoolAssumption DEF CallKnown
  <2>2. ASSUME NEW c \in Calls PROVE CallKnown(c)'
    <3>1. CallKnown(c) /\ c[3].job \in Jobs \cup {NoJob}
      BY CallJob
    <3>2. \A k \in Jobs : HasChildren(k)' <=> HasChildren(k)
      BY <1>4, <1>6 DEF HasChildren
    <3>3. c[3].at \in {"finish", "check", "dependents"} => c[3].job \in Jobs
      BY CallJob
    <3>4. QED
      BY <1>4, <1>6, <3>1, <3>2, <3>3 DEF CallKnown
  <2>3. QED
    BY <1>9, <2>1, <2>2 DEF CallsKnown
<1>17. CodeOnce'
  BY <1>7, <1>8, <1>9 DEF JInv, CodeOnce
<1>18. LeafOnce'
  <2> SUFFICES ASSUME NEW c \in Calls', NEW e \in Calls', c[3].at # "link", e[3].at # "link",
                      c[3].job = e[3].job, c[3].job # NoJob, Leaf(c[3].job)'
               PROVE  c = e
    <3>1. \A a, b \in Calls' : /\ a[3].at # "link" /\ b[3].at # "link" /\ a[3].job = b[3].job
                               /\ a[3].job # NoJob /\ Leaf(a[3].job)'
                               => a = b
      OBVIOUS
    <3>2. QED
      BY <3>1 DEF LeafOnce, Leaf
  <2>1. c \in Calls /\ e \in Calls /\ c[3].job \in Jobs /\ c[3].job # d
    BY <1>7, <1>8, <1>9, <1>10, CallJob
  <2>2. Leaf(c[3].job)
    BY <1>14, <2>1
  <2>3. QED
    BY <2>1, <2>2 DEF JInv, LeafOnce
<1>19. Counter'
  <2> SUFFICES ASSUME NEW k \in Jobs, Used(k) PROVE Counts(k)'
    BY <1>6 DEF Counter
  <2>1. Bodies(k)' = Bodies(k)
    BY <1>7, <1>8, <1>9 DEF Bodies
  <2>2. Kids(k)' = Kids(k)
    BY <1>4, <1>6, <1>7, <1>8, <1>9 DEF Kids, Checked
  <2>3. QED
    BY <1>4, <2>1, <2>2, Finite DEF Counts, Own
<1>20. Linked'
  <2>1. Linking(d, j)'
    BY <1>7, <1>8, <1>9 DEF Linking
  <2>2. \A e, k \in Jobs : Linking(e, k) => Linking(e, k)'
    BY <1>9 DEF Linking
  <2> SUFFICES ASSUME NEW k \in Jobs
               PROVE  /\ life'[k] = "linked" =>
                           \E e \in Jobs : /\ after'[k] = {e} /\ Used(e)' /\ e # k
                                           /\ Linking(e, k)' \/ \E i \in Index : dependents[e][i] = k
                      /\ life'[k] # "linked" => after'[k] = {}
    BY <1>4 DEF Linked, Index
  <2>3. CASE k = j
    BY <1>2, <1>6, <2>1, <2>3
  <2>4. CASE k # j
    <3>1. life'[k] = life[k] /\ after'[k] = after[k]
      BY <1>6, <2>4
    <3>2. ASSUME life[k] = "linked"
          PROVE  \E e \in Jobs : /\ after[k] = {e} /\ Used(e)' /\ e # k
                                 /\ Linking(e, k)' \/ \E i \in Index : dependents[e][i] = k
      <4>1. PICK e \in Jobs : /\ after[k] = {e} /\ Used(e) /\ e # k
                              /\ Linking(e, k) \/ \E i \in Index : dependents[e][i] = k
        BY <3>2 DEF JInv, Linked
      <4>2. Used(e)' /\ (Linking(e, k) => Linking(e, k)')
        BY <1>6, <2>2, <4>1
      <4>3. QED
        BY <4>1, <4>2
    <3>3. QED
      BY <3>1, <3>2 DEF JInv, Linked
  <2>5. QED
    BY <2>3, <2>4
<1>21. \A e \in Jobs, k \in Index : dependents[e][k] # j /\ dependents[e][k] \in Jobs \cup {NoJob}
  <2>1. \A e \in Jobs, k \in Index : dependents[e][k] \in Jobs \cup {NoJob}
    BY SlotType DEF JInv
  <2>2. QED
    BY <1>3, <2>1, PoolAssumption DEF JInv, Slots
<1>22. Slots'
  <2> SUFFICES ASSUME NEW e \in Jobs, NEW k \in Index, dependents[e][k] # NoJob
               PROVE  /\ k < dependent_count'[e] /\ after'[dependents[e][k]] = {e}
                      /\ \A l \in Index : dependents[e][l] = dependents[e][k] => l = k
    BY <1>4 DEF Slots, Index
  <2>1. /\ k < dependent_count[e] /\ after[dependents[e][k]] = {e}
        /\ \A l \in Index : dependents[e][l] = dependents[e][k] => l = k
    BY DEF JInv, Slots
  <2>2. dependents[e][k] \in Jobs /\ dependents[e][k] # j
    BY <1>21
  <2>3. k < dependent_count'[e]
    <3>1. k \in Nat
      BY CounterAssumption DEF Index
    <3>2. QED
      BY <1>5, <2>1, <3>1
  <2>4. QED
    BY <1>6, <2>1, <2>2, <2>3
<1>23. Released'
  <2>1. \A e \in Jobs, k \in Index : Unvisited(e, k)' <=> Unvisited(e, k)
    BY <1>4, <1>7, <1>8, <1>9 DEF Unvisited
  <2>2. QED
    BY <1>4, <2>1 DEF JInv, Released, Waits, Queued, Index
<1>24. LinkCalls'
  <2>1. \A c \in Calls' : c = y => LinkCall(c)'
    <3>1. n \in Index /\ dependents[d][n] = NoJob
      <4>1. n \in Index
        BY <1>5, CounterAssumption DEF Index
      <4>2. QED
        BY <1>5, <4>1 DEF JInv, Slots
    <3> SUFFICES ASSUME NEW c \in Calls', c = y PROVE LinkCall(c)'
      OBVIOUS
    <3>2. c[3].job = d /\ c[3].other = j /\ c[3].n = n
      BY <1>7, <1>8
    <3>3. Waits(j)'
      BY <1>3, <1>4 DEF Waits, Queued
    <3>4. life'[d] = "fresh" /\ after'[j] = {d} /\ n < dependent_count'[d]
      BY <1>2, <1>5, <1>6
    <3>5. QED
      BY <1>4, <1>21, <3>1, <3>2, <3>3, <3>4 DEF LinkCall, Waits, Queued, Index
  <2>2. ASSUME NEW c \in Calls, c[3].at = "link" PROVE LinkCall(c)'
    <3>1. LinkCall(c) /\ c[3].job \in Jobs /\ c[3].other \in Jobs /\ c[3].n \in Nat
      BY <2>2, CallJob DEF JInv, LinkCalls, LinkCall
    <3>2. c[3].job # j
      BY <1>1, <1>2, <2>2, NoLinkHere
    <3>3. c[3].other # j
      BY <1>3, <3>1 DEF LinkCall
    <3>4. life'[c[3].job] = life[c[3].job] /\ after'[c[3].other] = after[c[3].other]
      BY <1>6, <3>1, <3>2, <3>3
    <3>5. c[3].n < dependent_count'[c[3].job]
      BY <1>5, <3>1 DEF LinkCall
    <3>6. QED
      BY <1>4, <3>1, <3>4, <3>5 DEF LinkCall, Waits, Queued, Index
  <2>3. QED
    BY <1>9, <2>1, <2>2 DEF LinkCalls
<1>25. LinksOnTop'
  <2>1. stack' = [stack EXCEPT ![w] = Append(stack[w], f)] /\ stack \in [Workers -> Seq(Frames)]
    BY <1>4 DEF JInv, IInv, TypeOK, SetStack
  <2>2. Len(stack'[w]) = Len(stack[w]) + 1 /\ Len(stack[w]) \in Nat
    <3>1. f \in Frames /\ stack[w] \in Seq(Frames)
      BY <1>7, <2>1 DEF GoodFrame
    <3>2. Len(Append(stack[w], f)) = Len(stack[w]) + 1 /\ Len(stack[w]) \in Nat
      BY <3>1, AppendProperties, LenProperties
    <3>3. QED
      BY <2>1, <3>2
  <2>3. \A c \in Calls' : c = y => OnTop(c)'
    <3> SUFFICES ASSUME NEW c \in Calls', c = y PROVE OnTop(c)'
      OBVIOUS
    <3>1. c[1] = w /\ c[2] = Len(stack[w]) + 1 /\ c[3].job = d
      BY <1>7, <1>8
    <3>2. x \in Calls' /\ x[3].job = creator'[d] /\ x[2] = c[2] - 1
      BY <1>1, <1>2, <1>4, <1>9, <2>2, <3>1
    <3>3. QED
      BY <1>1, <2>2, <3>1, <3>2 DEF OnTop
  <2>4. ASSUME NEW c \in Calls, c[3].at = "link" PROVE OnTop(c)'
    <3>1. OnTop(c) /\ c[1] # w /\ c[1] \in Workers
      BY <1>1, <2>4, CallPlace, NoLinkHere DEF JInv, LinksOnTop
    <3>2. stack'[c[1]] = stack[c[1]]
      BY <2>1, <3>1
    <3>3. QED
      BY <1>4, <1>9, <3>1, <3>2 DEF OnTop
  <2>5. QED
    BY <1>9, <2>3, <2>4 DEF LinksOnTop
<1>26. Outermost'
  BY <1>1, <1>4, <1>7, PushShape, OneShape DEF JInv, Outermost
<1>27. Links(j, d)
  <2>1. SameRunning
    BY <1>7, <1>8, <1>9 DEF SameRunning, Running
  <2>2. QED
    BY <1>2, <1>4, <1>6, <2>1 DEF Links
<1>28. TaskStep
  BY <1>27 DEF TaskStep
<1>29. QED
  BY <1>12, <1>13, <1>15, <1>16, <1>17, <1>18, <1>19, <1>20, <1>22, <1>23, <1>24, <1>25, <1>26,
     <1>28 DEF JInv

-----------------------------------------------------------------------------
(* create_job.                                                             *)

(* Nothing is known of a slot that no job has.                             *)
LEMMA FreeSlot ==
    ASSUME JInv, NEW j \in Jobs, ~Used(j)
    PROVE  /\ runs[j] = 0 /\ after[j] = {} /\ dependent_count[j] = 0 /\ parent[j] = NoJob
           /\ ~Queued(j)
           /\ \A c \in Calls : c[3].job # j /\ (c[3].at = "link" => c[3].other # j)
           /\ \A k \in Jobs : Used(k) => parent[k] # j
           /\ \A k \in Index : dependents[j][k] = NoJob
           /\ \A d \in Jobs, k \in Index : dependents[d][k] # j
<1>1. runs[j] = 0 /\ after[j] = {} /\ dependent_count[j] = 0 /\ parent[j] = NoJob /\ ~Queued(j)
  BY DEF JInv, RunsOnce, Linked, Unused, QueuedKnown, Used
<1>2. \A c \in Calls : c[3].job # j
  BY CallJob
<1>3. \A c \in Calls : c[3].at = "link" => c[3].other # j
  BY <1>1 DEF JInv, LinkCalls, LinkCall
<1>4. \A k \in Jobs : Used(k) => parent[k] # j
  BY PoolAssumption DEF JInv, Parents
<1>5. \A k \in Index : dependents[j][k] = NoJob
  <2>1. \A k \in Index : k \in Nat
    BY CounterAssumption DEF Index
  <2>2. QED
    BY <1>1, <2>1 DEF JInv, Slots
<1>6. \A d \in Jobs, k \in Index : dependents[d][k] # j
  BY <1>1, PoolAssumption DEF JInv, Slots
<1>7. QED
  BY <1>1, <1>2, <1>3, <1>4, <1>5, <1>6

(* A thread that has allocated no more jobs than there are slots has used  *)
(* no slot twice.                                                          *)
LEMMA NextSlot ==
    ASSUME IInv, Allocated, NoReuse, NEW w \in Workers, allocated[w] < MaxJobs[w],
           NEW j, j = <<w, (allocated[w] + 1) % PoolSize>>
    PROVE  /\ j \in Jobs /\ ~Used(j)
           /\ allocated' = [allocated EXCEPT ![w] = @ + 1]
              /\ (\A k \in Jobs : Used(k)' => Used(k) \/ k = j)
              => Allocated'
<1> DEFINE a == allocated[w]
           m == (a + 1) % PoolSize
<1>1. /\ a \in Nat /\ PoolSize \in Nat \ {0} /\ a + 1 <= PoolSize /\ a + 1 <= MaxJobs[w]
      /\ MaxJobs[w] \in Nat /\ allocated \in [Workers -> Nat]
  BY PoolAssumption, BoundAssumption DEF IInv, TypeOK, NoReuse
<1>2. m = IF a + 1 = PoolSize THEN 0 ELSE a + 1
  <2> HIDE DEF a
  <2>1. CASE a + 1 = PoolSize
    <3>1. PoolSize % PoolSize = 0
      BY <1>1
    <3>2. QED
      BY <2>1, <3>1
  <2>2. CASE a + 1 < PoolSize
    BY <1>1, <2>2
  <2>3. QED
    BY <1>1, <2>1, <2>2
<1>3. m \in 0 .. PoolSize - 1
  BY <1>1, <1>2
<1>4. j \in Jobs
  BY <1>3 DEF Jobs
<1>5. ~Used(j)
  <2> SUFFICES ASSUME Used(<<w, m>>) PROVE FALSE
    OBVIOUS
  <2>1. m \in 1 .. a \/ (m = 0 /\ a >= PoolSize)
    BY <1>3 DEF Allocated
  <2> HIDE DEF m, a
  <2>2. QED
    BY <1>1, <1>2, <2>1
<1>6. ASSUME allocated' = [allocated EXCEPT ![w] = @ + 1],
             \A k \in Jobs : Used(k)' => Used(k) \/ k = j
      PROVE  Allocated'
  <2> SUFFICES ASSUME NEW v \in Workers
               PROVE  /\ allocated'[v] <= MaxJobs[v]
                      /\ \A i \in 0 .. PoolSize - 1 :
                            Used(<<v, i>>)' => \/ i \in 1 .. allocated'[v]
                                               \/ i = 0 /\ allocated'[v] >= PoolSize
    BY DEF Allocated, Used
  <2>1. /\ allocated[v] <= MaxJobs[v]
        /\ \A i \in 0 .. PoolSize - 1 :
              Used(<<v, i>>) => i \in 1 .. allocated[v] \/ (i = 0 /\ allocated[v] >= PoolSize)
    BY DEF Allocated
  <2>2. \A i \in 0 .. PoolSize - 1 : Used(<<v, i>>)' => Used(<<v, i>>) \/ (v = w /\ i = m)
    BY <1>6 DEF Jobs
  <2>3. CASE v # w
    BY <1>1, <1>6, <2>1, <2>2, <2>3
  <2>4. CASE v = w
    <3>1. allocated'[w] = a + 1
      BY <1>1, <1>6
    <3>2. \A i \in 0 .. PoolSize - 1 :
             i \in 1 .. a \/ (i = 0 /\ a >= PoolSize) \/ i = m
                => i \in 1 .. a + 1 \/ (i = 0 /\ a + 1 >= PoolSize)
      <4> HIDE DEF a, m
      <4> QED
        BY <1>1, <1>2
    <3>3. \A i \in 0 .. PoolSize - 1 :
             Used(<<w, i>>)' => i \in 1 .. a \/ (i = 0 /\ a >= PoolSize) \/ i = m
      BY <2>1, <2>2, <2>4
    <3>4. QED
      BY <1>1, <2>4, <3>1, <3>2, <3>3
  <2>5. QED
    BY <2>3, <2>4
<1>7. QED
  BY <1>4, <1>5, <1>6

LEMMA CreateJ ==
    ASSUME JInv, IInv', Disciplined, NoReuse, NEW w \in Workers, NEW t \in Types,
           NEW p \in {k \in Jobs : Used(k)} \cup {NoJob}, Create(w, t, p)
    PROVE  JInv' /\ TaskStep
<1> SUFFICES ASSUME NEW j, j = <<w, (allocated[w] + 1) % PoolSize>>
             PROVE  JInv' /\ TaskStep
  OBVIOUS
<1>1. /\ At(w, "code") /\ allocated[w] < MaxJobs[w]
      /\ allocated' = [allocated EXCEPT ![w] = @ + 1]
      /\ UNCHANGED <<dependents, queue, stack>>
  BY DEF Create
<1>2. j \in Jobs /\ ~Used(j)
  BY <1>1, NextSlot DEF JInv
<1>3. /\ runs[j] = 0 /\ after[j] = {} /\ dependent_count[j] = 0 /\ parent[j] = NoJob
      /\ ~Queued(j)
      /\ \A c \in Calls : c[3].job # j /\ (c[3].at = "link" => c[3].other # j)
      /\ \A k \in Jobs : Used(k) => parent[k] # j
      /\ \A k \in Index : dependents[j][k] = NoJob
      /\ \A d \in Jobs, k \in Index : dependents[d][k] # j
  BY <1>2, FreeSlot
<1>4. \A k \in Jobs :
         /\ life'[k] = IF k = j THEN "fresh" ELSE life[k]
         /\ parent'[k] = IF k = j THEN p ELSE parent[k]
         /\ dependent_count'[k] = dependent_count[k]
         /\ after'[k] = after[k]
         /\ runs'[k] = runs[k]
         /\ creator'[k] = IF k = j THEN Top(w).job ELSE creator[k]
         /\ unfinished'[k] = IF k = j THEN 1 ELSE IF k = p THEN unfinished[k] + 1 ELSE unfinished[k]
         /\ Used(k)' <=> Used(k) \/ k = j
  <2>1. /\ life' = [life EXCEPT ![j] = "fresh"] /\ parent' = [parent EXCEPT ![j] = p]
        /\ dependent_count' = [dependent_count EXCEPT ![j] = 0]
        /\ after' = [after EXCEPT ![j] = {}] /\ runs' = [runs EXCEPT ![j] = 0]
        /\ creator' = [creator EXCEPT ![j] = Top(w).job]
        /\ unfinished' = [k \in Jobs |-> IF k = j THEN 1 ELSE IF k = p THEN unfinished[k] + 1
                                         ELSE unfinished[k]]
    BY DEF Create, Counted
  <2>2. /\ life \in [Jobs -> {"free", "fresh", "scheduled", "linked"}]
        /\ creator \in [Jobs -> Jobs \cup {NoJob}] /\ parent \in [Jobs -> Jobs \cup {NoJob}]
        /\ dependent_count \in [Jobs -> 0 .. MaxDependents - 1]
        /\ after \in [Jobs -> SUBSET Jobs] /\ runs \in [Jobs -> Nat]
    BY DEF JInv, IInv, TypeOK
  <2> SUFFICES ASSUME NEW k \in Jobs
               PROVE  /\ life'[k] = IF k = j THEN "fresh" ELSE life[k]
                      /\ parent'[k] = IF k = j THEN p ELSE parent[k]
                      /\ dependent_count'[k] = dependent_count[k]
                      /\ after'[k] = after[k]
                      /\ runs'[k] = runs[k]
                      /\ creator'[k] = IF k = j THEN Top(w).job ELSE creator[k]
                      /\ unfinished'[k] = IF k = j THEN 1 ELSE IF k = p THEN unfinished[k] + 1
                                          ELSE unfinished[k]
    BY DEF Used
  <2>3. life'[k] = (IF k = j THEN "fresh" ELSE life[k]) /\ (parent'[k] = IF k = j THEN p ELSE parent[k])
    BY <2>1, <2>2
  <2>4. dependent_count'[k] = dependent_count[k] /\ after'[k] = after[k] /\ runs'[k] = runs[k]
    BY <1>3, <2>1, <2>2
  <2>5. creator'[k] = IF k = j THEN Top(w).job ELSE creator[k]
    BY <2>1, <2>2
  <2>6. unfinished'[k] = IF k = j THEN 1 ELSE IF k = p THEN unfinished[k] + 1 ELSE unfinished[k]
    BY <2>1
  <2>7. QED
    BY <2>3, <2>4, <2>5, <2>6
<1>5. Calls' = Calls
  BY <1>1 DEF Calls
<1>6. p \in Jobs => Used(p) /\ p # j /\ ~Leaf(p) /\ unfinished[p] # 0 /\ unfinished[p] \in Nat
  <2> SUFFICES ASSUME p \in Jobs PROVE Used(p) /\ p # j /\ ~Leaf(p) /\ unfinished[p] # 0 /\ unfinished[p] \in Nat
    OBVIOUS
  <2>1. p # NoJob /\ Used(p) /\ p # j
    BY <1>2, PoolAssumption
  <2>2. MayParent(w, p)
    BY <2>1 DEF Create
  <2>3. ~Leaf(p)
    <3>1. parent[p] = NoJob /\ dependent_count[p] = 0
      BY <2>2 DEF MayParent, Disciplined
    <3>2. QED
      BY <3>1 DEF Leaf
  <2>4. CASE runs[p] = 0
    BY <2>1, <2>3, <2>4, NotRun, Finite
  <2>5. CASE runs[p] # 0
    <3>1. p = Top(w).job
      BY <2>1, <2>2, <2>5 DEF MayParent, JInv, RunsOnce
    <3>2. Here(w) \in Calls /\ Here(w)[3] = Top(w) /\ Top(w).at = "code"
      BY <1>1, HereCall DEF JInv, Active
    <3>3. Here(w) \in Bodies(p)
      BY <3>1, <3>2 DEF Bodies
    <3>4. QED
      BY <2>1, <2>3, <3>3, AtZero, Finite
  <2>6. QED
    BY <2>4, <2>5
<1>7. \A c \in Calls : c[3].job \in Jobs \cup {NoJob} /\ CallKnown(c)
  BY CallJob
<1>8. \A k \in Jobs : k # j => (Leaf(k)' <=> Leaf(k))
  BY <1>4 DEF Leaf
<1>9. CallsKnown'
  <2> SUFFICES ASSUME NEW c \in Calls PROVE CallKnown(c)'
    BY <1>5 DEF CallsKnown
  <2>1. c[3].job \in Jobs \cup {NoJob} /\ CallKnown(c) /\ c[3].job # j
    BY <1>3, <1>7
  <2>2. \A k \in Jobs : HasChildren(k) => HasChildren(k)'
    BY <1>2, <1>4 DEF HasChildren
  <2>3. c[3].at \in {"finish", "check", "dependents"} => c[3].job \in Jobs
    BY CallJob
  <2>4. c[3].at = "dependents" => unfinished'[c[3].job] = 0
    BY <1>4, <1>6, <2>1, <2>3 DEF CallKnown
  <2>5. QED
    BY <1>4, <2>1, <2>2, <2>3, <2>4 DEF CallKnown
<1>10. RunsOnce' /\ QueuedKnown' /\ QueueOnce' /\ Unused'
  <2>1. QueueOnce'
    BY <1>1 DEF JInv, QueueOnce
  <2>2. RunsOnce'
    BY <1>3, <1>4 DEF JInv, RunsOnce
  <2>3. QueuedKnown'
    BY <1>1, <1>3, <1>4 DEF JInv, QueuedKnown, Queued
  <2>4. Unused'
    BY <1>4 DEF JInv, Unused
  <2>5. QED
    BY <2>1, <2>2, <2>3, <2>4
<1>11. CodeOnce'
  BY <1>5 DEF JInv, CodeOnce
<1>12. LeafOnce'
  <2> SUFFICES ASSUME NEW c \in Calls', NEW e \in Calls', c[3].at # "link", e[3].at # "link",
                      c[3].job = e[3].job, c[3].job # NoJob, Leaf(c[3].job)'
               PROVE  c = e
    <3>1. \A a, b \in Calls' : /\ a[3].at # "link" /\ b[3].at # "link" /\ a[3].job = b[3].job
                               /\ a[3].job # NoJob /\ Leaf(a[3].job)'
                               => a = b
      OBVIOUS
    <3>2. QED
      BY <3>1 DEF LeafOnce, Leaf
  <2>1. c \in Calls /\ e \in Calls /\ c[3].job \in Jobs /\ c[3].job # j
    BY <1>3, <1>5, <1>7
  <2>2. Leaf(c[3].job)
    BY <1>8, <2>1
  <2>3. QED
    BY <2>1, <2>2 DEF JInv, LeafOnce
<1>13. Counter'
  <2> SUFFICES ASSUME NEW k \in Jobs, Used(k) \/ k = j PROVE Counts(k)'
    BY <1>4 DEF Counter
  <2>1. Own(k)' = Own(k) /\ Bodies(k)' = Bodies(k)
    BY <1>4, <1>5 DEF Own, Bodies
  <2>2. \A c : Checked(c)' <=> Checked(c)
    BY <1>5 DEF Checked
  <2>3. \A c \in Jobs : c # j => (unfinished'[c] # 0 <=> unfinished[c] # 0)
    BY <1>4, <1>6
  <2>4. CASE k = j
    <3>1. Bodies(j) = {} /\ Own(j) = 1
      BY <1>3 DEF Bodies, Own
    <3>2. Kids(j)' = {}
      BY <1>2, <1>3, <1>4, <1>6, PoolAssumption DEF Kids
    <3>3. unfinished'[j] = 1 /\ Bodies(k)' = {} /\ Own(k)' = 1 /\ Kids(k)' = {}
      BY <1>2, <1>4, <2>1, <2>4, <3>1, <3>2
    <3>4. IsFiniteSet({}) /\ Cardinality({}) = 0
      BY FS_EmptySet
    <3>5. /\ IsFiniteSet(Bodies(k)') /\ IsFiniteSet(Kids(k)')
          /\ Cardinality(Bodies(k)') = 0 /\ Cardinality(Kids(k)') = 0
          /\ unfinished'[k] = 1 /\ Own(k)' = 1
      BY <2>4, <3>3, <3>4
    <3>6. QED
      BY <3>5 DEF Counts
  <2>5. CASE k # j /\ k # p
    <3>1. Kids(k)' = Kids(k)
      BY <1>2, <1>4, <2>2, <2>3, <2>5 DEF Kids
    <3>2. unfinished'[k] = unfinished[k]
      BY <1>4, <2>5
    <3>3. QED
      BY <2>1, <2>5, <3>1, <3>2, Finite DEF Counts
  <2>6. CASE k # j /\ k = p
    <3>1. Kids(p)' = Kids(p) \cup {j} /\ j \notin Kids(p)
      <4>1. j \notin Kids(p)
        BY <1>2 DEF Kids
      <4>2. \A c \in Jobs : c \in Kids(p)' <=> c \in Kids(p) \/ c = j
        BY <1>4, <2>2, <2>3 DEF Kids
      <4>3. Kids(p) \subseteq Jobs /\ Kids(p)' \subseteq Jobs
        BY DEF Kids
      <4>4. QED
        BY <1>2, <4>1, <4>2, <4>3
    <3>2. /\ IsFiniteSet(Kids(p)') /\ Cardinality(Kids(p)') = Cardinality(Kids(p)) + 1
          /\ unfinished'[p] = unfinished[p] + 1
      BY <1>4, <2>6, <3>1, Finite, BodyIn
    <3> DEFINE b == Cardinality(Bodies(p))
               q == Cardinality(Kids(p))
               qq == Cardinality(Kids(p)')
    <3>3. /\ b \in Nat /\ q \in Nat /\ Own(p) \in {0, 1} /\ unfinished[p] = Own(p) + b + q
          /\ qq = q + 1 /\ unfinished'[p] = unfinished[p] + 1 /\ IsFiniteSet(Bodies(p))
      BY <2>6, <3>2, Finite
    <3>4. unfinished'[p] = Own(p) + b + qq
      <4> HIDE DEF b, q, qq
      <4> QED
        BY <3>3
    <3>5. QED
      BY <2>1, <2>6, <3>2, <3>3, <3>4 DEF Counts
  <2>7. QED
    BY <2>4, <2>5, <2>6
<1>14. Parents'
  <2> SUFFICES ASSUME NEW k \in Jobs, NEW q \in Jobs, q = parent'[k], Used(k)'
               PROVE  Used(q)' /\ ~Leaf(q)'
    <3>1. \A k \in Jobs : parent'[k] \in Jobs \cup {NoJob}
      BY DEF IInv, TypeOK
    <3>2. \A k, q \in Jobs : q = parent'[k] /\ Used(k)' => Used(q)' /\ ~Leaf(q)'
      OBVIOUS
    <3>3. QED
      BY <3>1, <3>2 DEF Parents, Used, Leaf
  <2>1. CASE k = j
    BY <1>4, <1>6, <1>8, <2>1
  <2>2. CASE k # j
    <3>1. Used(k) /\ q = parent[k]
      BY <1>4, <2>2
    <3>2. q # j /\ Used(q) /\ ~Leaf(q)
      BY <1>3, <3>1, PoolAssumption DEF JInv, Parents
    <3>3. QED
      BY <1>4, <1>8, <3>2
  <2>3. QED
    BY <2>1, <2>2
<1>15. Linked'
  <2> SUFFICES ASSUME NEW k \in Jobs
               PROVE  /\ life'[k] = "linked" =>
                           \E e \in Jobs : /\ after'[k] = {e} /\ Used(e)' /\ e # k
                                           /\ Linking(e, k)' \/ \E i \in Index : dependents[e][i] = k
                      /\ life'[k] # "linked" => after'[k] = {}
    BY <1>1 DEF Linked, Index
  <2>1. \A e : Linking(e, k)' <=> Linking(e, k)
    BY <1>5 DEF Linking
  <2>2. CASE k = j
    BY <1>3, <1>4, <2>2
  <2>3. CASE k # j
    <3>1. life'[k] = life[k] /\ after'[k] = after[k]
      BY <1>4, <2>3
    <3>2. \A e \in Jobs : Used(e) => Used(e)'
      BY <1>4
    <3>3. QED
      BY <2>1, <3>1, <3>2 DEF JInv, Linked
  <2>4. QED
    BY <2>2, <2>3
<1>16. Slots'
  <2> SUFFICES ASSUME NEW e \in Jobs, NEW k \in Index, dependents[e][k] # NoJob
               PROVE  /\ k < dependent_count'[e] /\ after'[dependents[e][k]] = {e}
                      /\ \A l \in Index : dependents[e][l] = dependents[e][k] => l = k
    BY <1>1 DEF Slots, Index
  <2>1. /\ k < dependent_count[e] /\ after[dependents[e][k]] = {e}
        /\ \A l \in Index : dependents[e][l] = dependents[e][k] => l = k
    BY DEF JInv, Slots
  <2>2. dependents[e][k] \in Jobs
    BY SlotType DEF JInv
  <2>3. QED
    BY <1>4, <2>1, <2>2
<1>17. Released'
  <2> SUFFICES ASSUME NEW e \in Jobs, NEW k \in Index, NEW v, v = dependents[e][k], v # NoJob
               PROVE  Unvisited(e, k)' <=> Waits(v)'
    <3>1. \A e \in Jobs, k \in Index : \A v :
             v = dependents[e][k] /\ v # NoJob => (Unvisited(e, k)' <=> Waits(v)')
      OBVIOUS
    <3>2. QED
      BY <1>1, <3>1 DEF Released, Index, Waits, Queued
  <2>1. v \in Jobs /\ v # j /\ e # j
    BY <1>3, SlotType DEF JInv
  <2>2. Waits(v)' <=> Waits(v)
    BY <1>1, <1>4, <2>1 DEF Waits, Queued
  <2>3. unfinished'[e] # 0 <=> unfinished[e] # 0
    BY <1>4, <1>6, <2>1
  <2>4. Unvisited(e, k)' <=> Unvisited(e, k)
    BY <1>5, <2>3 DEF Unvisited
  <2>5. QED
    BY <2>2, <2>4 DEF JInv, Released
<1>18. LinkCalls'
  <2> SUFFICES ASSUME NEW c \in Calls, c[3].at = "link" PROVE LinkCall(c)'
    BY <1>5 DEF LinkCalls
  <2>1. LinkCall(c) /\ c[3].job \in Jobs /\ c[3].job # j /\ c[3].other \in Jobs /\ c[3].other # j
    BY <1>3, CallJob DEF JInv, LinkCalls, LinkCall
  <2>2. QED
    BY <1>1, <1>4, <2>1 DEF LinkCall, Waits, Queued, Index
<1>19. LinksOnTop'
  <2> SUFFICES ASSUME NEW c \in Calls, c[3].at = "link" PROVE OnTop(c)'
    BY <1>5 DEF LinksOnTop
  <2>1. OnTop(c) /\ c[3].job \in Jobs /\ c[3].job # j
    BY <1>3, CallJob DEF JInv, LinksOnTop
  <2>2. creator'[c[3].job] = creator[c[3].job]
    BY <1>4, <2>1
  <2>3. QED
    BY <1>1, <1>5, <2>1, <2>2 DEF OnTop
<1>20. Allocated'
  <2>1. \A k \in Jobs : Used(k)' => Used(k) \/ k = j
    BY <1>4
  <2>2. IInv /\ Allocated
    BY DEF JInv
  <2>3. QED
    BY <1>1, <2>1, <2>2, NextSlot
<1>21. Outermost'
  BY <1>1 DEF JInv, Outermost
<1>22. Creates(j, p)
  <2>1. SameRunning
    BY <1>5 DEF SameRunning, Running
  <2>2. QED
    BY <1>2, <1>3, <1>4, <1>6, <2>1 DEF Creates
<1>23. TaskStep
  BY <1>2, <1>22 DEF TaskStep
<1>24. QED
  BY <1>9, <1>10, <1>11, <1>12, <1>13, <1>14, <1>15, <1>16, <1>17, <1>18, <1>19, <1>20, <1>21,
     <1>23 DEF JInv

-----------------------------------------------------------------------------
(* Deques.                                                                 *)

LEMMA PushQueue ==
    ASSUME IInv, QueueOnce, NEW w \in Workers, NEW j \in Jobs, ~Queued(j),
           queue' = [queue EXCEPT ![w] = Append(@, j)]
    PROVE  QueueOnce' /\ \A k : Queued(k)' <=> Queued(k) \/ k = j
<1> DEFINE n == Len(queue[w])
           t == Append(queue[w], j)
<1>1. queue \in [Workers -> Seq(Jobs)] /\ queue[w] \in Seq(Jobs)
  BY DEF IInv, TypeOK
<1>2. n \in Nat /\ Len(t) = n + 1 /\ t[n + 1] = j /\ \A i \in 1 .. n : t[i] = queue[w][i]
  BY <1>1, LenProperties, AppendProperties
<1>3. queue'[w] = t /\ \A v \in Workers : v # w => queue'[v] = queue[v]
  BY <1>1
<1> HIDE DEF n, t
<1>4. \A v \in Workers : \A i \in 1 .. Len(queue'[v]) :
         \/ i \in 1 .. Len(queue[v]) /\ queue'[v][i] = queue[v][i]
         \/ v = w /\ i = n + 1 /\ queue'[v][i] = j
  <2> TAKE v \in Workers
  <2> TAKE i \in 1 .. Len(queue'[v])
  <2>1. CASE v = w
    <3>1. i \in 1 .. n + 1
      BY <1>2, <1>3, <2>1
    <3>2. i \in 1 .. n \/ i = n + 1
      BY <1>2, <3>1
    <3>3. QED
      BY <1>2, <1>3, <2>1, <3>2 DEF n
  <2>2. CASE v # w
    BY <1>3, <2>2
  <2>3. QED
    BY <2>1, <2>2
<1>5. \A v \in Workers : \A i \in 1 .. Len(queue[v]) :
         i \in 1 .. Len(queue'[v]) /\ queue'[v][i] = queue[v][i]
  <2> TAKE v \in Workers
  <2> TAKE i \in 1 .. Len(queue[v])
  <2>1. CASE v = w
    <3>1. i \in 1 .. n /\ i \in 1 .. n + 1
      BY <1>2, <2>1 DEF n
    <3>2. QED
      BY <1>2, <1>3, <2>1, <3>1
  <2>2. CASE v # w
    BY <1>3, <2>2
  <2>3. QED
    BY <2>1, <2>2
<1>6. n + 1 \in 1 .. Len(queue'[w]) /\ queue'[w][n + 1] = j
  BY <1>2, <1>3
<1>7. QueueOnce'
  <2> SUFFICES ASSUME NEW u \in Workers, NEW v \in Workers, NEW i \in 1 .. Len(queue'[u]),
                      NEW k \in 1 .. Len(queue'[v]), queue'[u][i] = queue'[v][k]
               PROVE  u = v /\ i = k
    BY DEF QueueOnce
  <2>1. CASE queue'[u][i] = j
    BY <1>4, <2>1 DEF Queued
  <2>2. CASE queue'[u][i] # j
    BY <1>4, <2>2 DEF QueueOnce
  <2>3. QED
    BY <2>1, <2>2
<1>8. \A k : Queued(k)' <=> Queued(k) \/ k = j
  <2> TAKE k
  <2>1. Queued(k)' => Queued(k) \/ k = j
    BY <1>4 DEF Queued
  <2>2. Queued(k) => Queued(k)'
    BY <1>5 DEF Queued
  <2>3. k = j => Queued(k)'
    BY <1>6 DEF Queued
  <2>4. QED
    BY <2>1, <2>2, <2>3
<1>9. QED
  BY <1>7, <1>8

(* A job leaves a deque at index m: the first or the last.                 *)
LEMMA TakeQueue ==
    ASSUME IInv, QueueOnce, NEW v \in Workers, NEW j, NEW m \in 1 .. Len(queue[v]),
           queue[v][m] = j, NEW rest, NEW o \in {0, 1},
           Len(rest) = Len(queue[v]) - 1, \A i \in 1 .. Len(rest) : rest[i] = queue[v][i + o],
           m = IF o = 1 THEN 1 ELSE Len(queue[v]),
           queue' = [queue EXCEPT ![v] = rest]
    PROVE  QueueOnce' /\ \A k : Queued(k)' <=> Queued(k) /\ k # j
<1>1. queue \in [Workers -> Seq(Jobs)] /\ Len(queue[v]) \in Nat
  BY LenProperties DEF IInv, TypeOK
<1>2. queue'[v] = rest /\ \A u \in Workers : u # v => queue'[u] = queue[u]
  BY <1>1
<1>3. \A i \in 1 .. Len(queue'[v]) :
         /\ i + o \in 1 .. Len(queue[v]) /\ i + o # m /\ i \in Nat
         /\ queue'[v][i] = queue[v][i + o]
  BY <1>1, <1>2
<1>4. \A i \in 1 .. Len(queue[v]) : i # m =>
         i - o \in 1 .. Len(queue'[v]) /\ queue'[v][i - o] = queue[v][i]
  <2> TAKE i \in 1 .. Len(queue[v])
  <2>1. i # m => i - o \in 1 .. Len(rest) /\ (i - o) + o = i
    BY <1>1
  <2>2. QED
    BY <1>2, <2>1
<1>5. QueueOnce'
  <2> SUFFICES ASSUME NEW u1 \in Workers, NEW u2 \in Workers, NEW i \in 1 .. Len(queue'[u1]),
                      NEW k \in 1 .. Len(queue'[u2]), queue'[u1][i] = queue'[u2][k]
               PROVE  u1 = u2 /\ i = k
    BY DEF QueueOnce
  <2>1. CASE u1 = v /\ u2 = v
    <3> DEFINE a == i + o
               b == k + o
    <3>1. a \in 1 .. Len(queue[v]) /\ b \in 1 .. Len(queue[v]) /\ queue[v][a] = queue[v][b]
          /\ i \in Nat /\ k \in Nat
      BY <1>3, <2>1
    <3> HIDE DEF a, b
    <3>2. a = b
      BY <3>1 DEF QueueOnce
    <3>3. QED
      BY <2>1, <3>1, <3>2 DEF a, b
  <2>2. CASE u1 = v /\ u2 # v
    <3> DEFINE a == i + o
    <3>1. a \in 1 .. Len(queue[v]) /\ queue[u2][k] = queue[v][a] /\ k \in 1 .. Len(queue[u2])
      BY <1>2, <1>3, <2>2
    <3> HIDE DEF a
    <3>2. QED
      BY <2>2, <3>1 DEF QueueOnce
  <2>3. CASE u1 # v /\ u2 = v
    <3> DEFINE b == k + o
    <3>1. b \in 1 .. Len(queue[v]) /\ queue[u1][i] = queue[v][b] /\ i \in 1 .. Len(queue[u1])
      BY <1>2, <1>3, <2>3
    <3> HIDE DEF b
    <3>2. QED
      BY <2>3, <3>1 DEF QueueOnce
  <2>4. CASE u1 # v /\ u2 # v
    BY <1>2, <2>4 DEF QueueOnce
  <2>5. QED
    BY <2>1, <2>2, <2>3, <2>4
<1>6. ASSUME NEW k, Queued(k)' PROVE Queued(k) /\ k # j
  <2>1. PICK u \in Workers : \E i \in 1 .. Len(queue'[u]) : queue'[u][i] = k
    BY <1>6 DEF Queued
  <2>2. PICK i \in 1 .. Len(queue'[u]) : queue'[u][i] = k
    BY <2>1
  <2>3. CASE u = v
    <3> DEFINE a == i + o
    <3>1. a \in 1 .. Len(queue[v]) /\ a # m /\ queue[v][a] = k
      BY <1>3, <2>2, <2>3
    <3> HIDE DEF a
    <3>2. QED
      BY <3>1 DEF Queued, QueueOnce
  <2>4. CASE u # v
    BY <1>2, <2>2, <2>4 DEF Queued, QueueOnce
  <2>5. QED
    BY <2>3, <2>4
<1>7. ASSUME NEW k, Queued(k), k # j PROVE Queued(k)'
  <2>1. PICK u \in Workers : \E i \in 1 .. Len(queue[u]) : queue[u][i] = k
    BY <1>7 DEF Queued
  <2>2. PICK i \in 1 .. Len(queue[u]) : queue[u][i] = k
    BY <2>1
  <2>3. CASE u = v
    BY <1>4, <1>7, <2>2, <2>3 DEF Queued
  <2>4. CASE u # v
    BY <1>2, <2>2, <2>4 DEF Queued
  <2>5. QED
    BY <2>3, <2>4
<1>8. QED
  BY <1>5, <1>6, <1>7

-----------------------------------------------------------------------------
(* The start of a job.                                                     *)

LEMMA Unstarted ==
    ASSUME JInv, NEW j \in Jobs, Used(j), runs[j] = 0
    PROVE  \A c \in Calls : c[3].job = j =>
              /\ c[3].at \notin {"code", "dependents"}
              /\ c[3].at # "link" => ~Leaf(j)
<1> SUFFICES ASSUME NEW c \in Calls, c[3].job = j
             PROVE  c[3].at \notin {"code", "dependents"} /\ (c[3].at # "link" => ~Leaf(j))
  OBVIOUS
<1>1. unfinished[j] # 0
  BY NotRun
<1>2. CallKnown(c) /\ j # NoJob /\ c[3].at \in Active
  BY CallJob, PoolAssumption
<1>3. c[3].at \notin {"code", "dependents"}
  BY <1>1, <1>2 DEF CallKnown
<1>4. c[3].at # "link" => HasChildren(j)
  BY <1>2, <1>3 DEF CallKnown, Active
<1>5. HasChildren(j) => ~Leaf(j)
  BY <1>2 DEF HasChildren, JInv, Parents
<1>6. QED
  BY <1>3, <1>4, <1>5

LEMMA StartData ==
    ASSUME JInv, NEW j \in Jobs, Starts(j),
           \A c : c \in Calls' /\ c[3].at = "link" <=> c \in Calls /\ c[3].at = "link",
           \A c \in Calls : c[3].at = "link" => c[3].job # j /\ c[3].other # j
    PROVE  /\ RunsOnce' /\ QueuedKnown' /\ QueueOnce' /\ Linked' /\ Slots' /\ Unused' /\ Parents'
           /\ Allocated' /\ LinkCalls'
           /\ \A k \in Jobs : Used(k)' <=> Used(k)
           /\ \A k \in Jobs : k # j => (Waits(k)' <=> Waits(k))
           /\ ~Waits(j)'
<1>1. \A k \in Jobs : Used(k)' <=> Used(k)
  BY DEF Starts, Used
<1>2. /\ \A k \in Jobs : k # j => (Waits(k)' <=> Waits(k))
      /\ ~Waits(j)' /\ QueueOnce'
  BY DEF Starts, Waits
<1>3. RunsOnce'
  BY DEF Starts, JInv, RunsOnce
<1>4. QueuedKnown'
  BY DEF Starts, JInv, QueuedKnown
<1>5. Linked'
  <2>1. \A d, k : Linking(d, k)' <=> Linking(d, k)
    BY DEF Linking
  <2> SUFFICES ASSUME NEW k \in Jobs
               PROVE  /\ life'[k] = "linked" =>
                           \E e \in Jobs : /\ after[k] = {e} /\ Used(e)' /\ e # k
                                           /\ Linking(e, k)' \/ \E i \in Index : dependents[e][i] = k
                      /\ life'[k] # "linked" => after[k] = {}
    BY DEF Linked, Index, Starts
  <2>2. life'[k] = "linked" <=> life[k] = "linked"
    BY DEF Starts
  <2>3. QED
    BY <1>1, <2>1, <2>2 DEF JInv, Linked
<1>6. Slots'
  BY DEF Starts, JInv, Slots, Index
<1>7. Unused'
  BY <1>1 DEF Starts, JInv, Unused
<1>8. Parents'
  <2> SUFFICES ASSUME NEW k \in Jobs, NEW q \in Jobs, q = parent[k], Used(k)
               PROVE  Used(q)' /\ ~Leaf(q)'
    <3>1. \A k \in Jobs : parent[k] \in Jobs \cup {NoJob}
      BY DEF JInv, IInv, TypeOK
    <3>2. \A k, q \in Jobs : q = parent[k] /\ Used(k) => Used(q)' /\ ~Leaf(q)'
      OBVIOUS
    <3>3. \A k \in Jobs : Used(k)' /\ parent'[k] # NoJob => Used(parent[k])' /\ ~Leaf(parent[k])'
      BY <1>1, <3>1, <3>2 DEF Starts
    <3>4. QED
      BY <3>3 DEF Parents, Starts, Used, Leaf
  <2>1. Used(q) /\ ~Leaf(q)
    BY PoolAssumption DEF JInv, Parents
  <2>2. QED
    BY <1>1, <2>1 DEF Starts, Leaf
<1>9. Allocated'
  <2>1. \A w \in Workers, i \in 0 .. PoolSize - 1 : Used(<<w, i>>)' <=> Used(<<w, i>>)
    BY <1>1 DEF Jobs
  <2>2. QED
    BY <2>1 DEF Starts, JInv, Allocated
<1>10. LinkCalls'
  <2> SUFFICES ASSUME NEW c \in Calls, c[3].at = "link" PROVE LinkCall(c)'
    BY DEF LinkCalls
  <2>1. /\ LinkCall(c) /\ c[3].job \in Jobs /\ c[3].job # j /\ c[3].other \in Jobs /\ c[3].other # j
    BY CallJob DEF JInv, LinkCalls, LinkCall
  <2>2. \A k \in Jobs : k # j /\ k = c[3].other => Waits(k)'
    BY <1>2, <2>1 DEF LinkCall
  <2>3. life'[c[3].job] = life[c[3].job]
    BY <2>1 DEF Starts
  <2>4. Waits(c[3].other)'
    BY <2>1, <2>2
  <2>5. QED
    BY <2>1, <2>3, <2>4 DEF LinkCall, Starts, Waits, Queued, Index
<1>11. QED
  BY <1>1, <1>2, <1>3, <1>4, <1>5, <1>6, <1>7, <1>8, <1>9, <1>10

(* One round of the loop over the dependents, in the calls.                *)
Round(x, xx) ==
    /\ x \in Calls /\ x[3].at = "dependents" /\ xx[3].at = "dependents" /\ xx[3].job = x[3].job

(* The body of j is entered; the calls are otherwise as they are, or one   *)
(* of them goes round its loop.                                            *)
LEMMA EnterCalls ==
    ASSUME JInv, NEW j \in Jobs, Starts(j), runs'[j] = 1,
           NEW y, y \notin Calls, y[3].at = "code", y[3].job = j,
           \/ Calls' = Calls \cup {y}
           \/ \E x, xx : Round(x, xx) /\ Calls' = (Calls \ {x}) \cup {xx, y}
    PROVE  CallsKnown' /\ CodeOnce' /\ LeafOnce' /\ Counter'
<1>1. Used(j) /\ runs[j] = 0 /\ j # NoJob
  BY PoolAssumption DEF Starts
<1>2. PICK x, xx :
         \/ Calls' = Calls \cup {y}
         \/ Round(x, xx) /\ Calls' = (Calls \ {x}) \cup {xx, y}
  OBVIOUS
<1>3. \A c \in Calls : c[3].job = j => c[3].at \notin {"code", "dependents"} /\ (c[3].at # "link" => ~Leaf(j))
  BY <1>1, Unstarted
<1>4. \A c \in Calls' : c \in Calls \/ c = y \/ (c = xx /\ Round(x, xx) /\ x \notin Calls')
  BY <1>2 DEF Round
<1>5. y \in Calls' /\ \A c \in Calls : c[3].at # "dependents" => c \in Calls'
  BY <1>2 DEF Round
<1>6. \A k \in Jobs : /\ Used(k)' <=> Used(k)
                      /\ Leaf(k)' <=> Leaf(k)
                      /\ HasChildren(k) => HasChildren(k)'
  BY DEF Starts, Used, Leaf, HasChildren
<1>7. \A k \in Jobs : runs[k] = 1 => runs'[k] = 1
  BY <1>1 DEF Starts
<1>8. CallsKnown'
  <2>1. ASSUME NEW c \in Calls PROVE CallKnown(c)'
    <3>1. CallKnown(c) /\ c[3].job \in Jobs \cup {NoJob} /\ (c[3].at # "code" => c[3].job \in Jobs)
      BY CallJob
    <3>2. QED
      BY <1>6, <1>7, <3>1 DEF CallKnown, Starts
  <2>2. \A c \in Calls' : c = y => CallKnown(c)'
    BY <1>1, <1>6 DEF CallKnown
  <2>3. ASSUME Round(x, xx) PROVE \A c \in Calls' : c = xx => CallKnown(c)'
    <3>1. CallKnown(x) /\ x[3].job \in Jobs
      BY <2>3, CallJob DEF Round
    <3>2. QED
      BY <1>6, <1>7, <2>3, <3>1, PoolAssumption DEF CallKnown, Starts, Round
  <2>4. QED
    BY <1>4, <2>1, <2>2, <2>3 DEF CallsKnown
<1>9. CodeOnce'
  BY <1>3, <1>4 DEF JInv, CodeOnce, Round
<1>10. LeafOnce'
  <2> SUFFICES ASSUME NEW c \in Calls', NEW e \in Calls', c[3].at # "link", e[3].at # "link",
                      c[3].job = e[3].job, c[3].job # NoJob, Leaf(c[3].job)
               PROVE  c = e
    BY DEF LeafOnce, Leaf, Starts
  <2>1. c \in Calls /\ e \in Calls => c = e
    BY DEF JInv, LeafOnce
  <2>2. Round(x, xx) => xx[3].job # j /\ \A b \in Calls :
                      b[3].at # "link" /\ b[3].job = xx[3].job /\ Leaf(xx[3].job) => b = x
    <3> SUFFICES ASSUME Round(x, xx)
                 PROVE  xx[3].job # j /\ \A b \in Calls :
                      b[3].at # "link" /\ b[3].job = xx[3].job /\ Leaf(xx[3].job) => b = x
      OBVIOUS
    <3>1. xx[3].job # j /\ xx[3].job # NoJob
      BY <1>3, CallJob, PoolAssumption DEF Round
    <3>2. ASSUME NEW b \in Calls, b[3].at # "link", b[3].job = xx[3].job, Leaf(xx[3].job)
          PROVE  b = x
      <4>1. x \in Calls /\ x[3].at # "link" /\ b[3].job = x[3].job
        BY <3>2 DEF Round
      <4>2. Leaf(b[3].job) /\ b[3].job # NoJob
        BY <3>1, <3>2
      <4>3. QED
        BY <3>2, <4>1, <4>2 DEF JInv, LeafOnce
    <3>3. QED
      BY <3>1, <3>2
  <2>3. CASE c = y
    BY <1>3, <1>4, <2>2, <2>3
  <2>4. CASE e = y
    BY <1>3, <1>4, <2>2, <2>4
  <2>5. CASE c # y /\ e # y
    BY <1>4, <2>1, <2>2, <2>5
  <2>6. QED
    BY <2>3, <2>4, <2>5
<1>11. Counter'
  <2> SUFFICES ASSUME NEW k \in Jobs, Used(k) PROVE Counts(k)'
    BY <1>6 DEF Counter
  <2>1. Kids(k)' = Kids(k)
    <3>1. \A c : Checked(c)' <=> Checked(c)
      BY <1>4, <1>5 DEF Checked, Round
    <3>2. QED
      BY <1>6, <3>1 DEF Kids, Starts
  <2>2. Bodies(k)' = IF k = j THEN Bodies(k) \cup {y} ELSE Bodies(k)
    BY <1>4, <1>5 DEF Bodies, Round
  <2>3. CASE k = j
    <3>1. y \notin Bodies(j)
      BY DEF Bodies
    <3>2. IsFiniteSet(Bodies(j)') /\ Cardinality(Bodies(j)') = Cardinality(Bodies(j)) + 1
      BY <1>1, <2>2, <2>3, <3>1, Finite, BodyIn
    <3> DEFINE b == Cardinality(Bodies(j))
               bb == Cardinality(Bodies(j)')
               q == Cardinality(Kids(j))
    <3>3. /\ b \in Nat /\ q \in Nat /\ Own(j) = 1 /\ unfinished[j] = Own(j) + b + q
          /\ IsFiniteSet(Kids(j)) /\ bb = b + 1 /\ unfinished'[j] = unfinished[j] /\ Own(j)' = 0
      BY <1>1, <3>2, Finite DEF Own, Starts
    <3>4. unfinished'[j] = 0 + bb + q
      <4> HIDE DEF b, bb, q
      <4> QED
        BY <3>3
    <3>5. QED
      BY <2>1, <2>3, <3>2, <3>3, <3>4 DEF Counts
  <2>4. CASE k # j
    <3>1. Own(k)' = Own(k) /\ unfinished'[k] = unfinished[k]
      BY <2>4 DEF Own, Starts
    <3>2. QED
      BY <2>1, <2>2, <2>4, <3>1, Finite DEF Counts
  <2>5. QED
    BY <2>3, <2>4
<1>12. QED
  BY <1>8, <1>9, <1>10, <1>11

(* The same when no body is entered.                                       *)
LEMMA RoundCalls ==
    ASSUME JInv, UNCHANGED <<parent, unfinished, dependent_count, runs>>,
           \A k \in Jobs : Used(k)' <=> Used(k),
           \/ Calls' = Calls
           \/ \E x, xx : Round(x, xx) /\ Calls' \in {Calls \ {x}, (Calls \ {x}) \cup {xx}}
    PROVE  CallsKnown' /\ CodeOnce' /\ LeafOnce' /\ Counter'
<1>1. PICK x, xx :
         \/ Calls' = Calls
         \/ Round(x, xx) /\ Calls' \in {Calls \ {x}, (Calls \ {x}) \cup {xx}}
  OBVIOUS
<1>2. \A c \in Calls' : c \in Calls \/ (c = xx /\ Round(x, xx) /\ x \notin Calls')
  BY <1>1 DEF Round
<1>3. \A c \in Calls : c[3].at # "dependents" => c \in Calls'
  BY <1>1 DEF Round
<1>4. \A k \in Jobs : HasChildren(k) => HasChildren(k)'
  BY DEF HasChildren
<1>5. CallsKnown'
  <2>1. ASSUME NEW c \in Calls PROVE CallKnown(c)'
    <3>1. CallKnown(c) /\ c[3].job \in Jobs \cup {NoJob} /\ (c[3].at # "code" => c[3].job \in Jobs)
      BY CallJob
    <3>2. QED
      BY <1>4, <3>1 DEF CallKnown
  <2>2. ASSUME Round(x, xx) PROVE \A c \in Calls' : c = xx => CallKnown(c)'
    <3>1. CallKnown(x) /\ x[3].job \in Jobs
      BY <2>2, CallJob DEF Round
    <3>2. QED
      BY <1>4, <2>2, <3>1, PoolAssumption DEF CallKnown, Round
  <2>3. QED
    BY <1>2, <2>1, <2>2 DEF CallsKnown
<1>6. CodeOnce'
  BY <1>2 DEF JInv, CodeOnce, Round
<1>7. LeafOnce'
  <2> SUFFICES ASSUME NEW c \in Calls', NEW e \in Calls', c[3].at # "link", e[3].at # "link",
                      c[3].job = e[3].job, c[3].job # NoJob, Leaf(c[3].job)
               PROVE  c = e
    BY DEF LeafOnce, Leaf
  <2>1. c \in Calls /\ e \in Calls => c = e
    BY DEF JInv, LeafOnce
  <2>2. ASSUME Round(x, xx), NEW b \in Calls, b[3].at # "link", b[3].job = xx[3].job,
               xx[3].job # NoJob, Leaf(xx[3].job)
        PROVE  b = x
    <3>1. x \in Calls /\ x[3].at # "link" /\ b[3].job = x[3].job
      BY <2>2 DEF Round
    <3>2. Leaf(b[3].job) /\ b[3].job # NoJob
      BY <2>2
    <3>3. QED
      BY <2>2, <3>1, <3>2 DEF JInv, LeafOnce
  <2>3. QED
    BY <1>2, <2>1, <2>2
<1>8. Counter'
  <2> SUFFICES ASSUME NEW k \in Jobs, Used(k) PROVE Counts(k)'
    BY DEF Counter
  <2>1. \A c : Checked(c)' <=> Checked(c)
    BY <1>2, <1>3 DEF Checked, Round
  <2>2. Kids(k)' = Kids(k) /\ Bodies(k)' = Bodies(k)
    BY <1>2, <1>3, <2>1 DEF Kids, Bodies, Round
  <2>3. QED
    BY <2>2, Finite DEF Counts, Own
<1>9. QED
  BY <1>5, <1>6, <1>7, <1>8

(* A job that is started without a visit to its slot.                      *)
LEMMA StartReleased ==
    ASSUME JInv, NEW j \in Jobs, Starts(j),
           ~Waits(j)', \A k \in Jobs : k # j => (Waits(k)' <=> Waits(k)),
           \A c : c[3].at \in {"check", "dependents"} => (c \in Calls' <=> c \in Calls),
           \A d \in Jobs, k \in Index : dependents[d][k] = j => ~Unvisited(d, k)
    PROVE  Released'
<1> SUFFICES ASSUME NEW d \in Jobs, NEW k \in Index, NEW v, v = dependents[d][k], v # NoJob
             PROVE  Unvisited(d, k)' <=> Waits(v)'
  <2>1. \A d \in Jobs, k \in Index : \A v :
             v = dependents[d][k] /\ v # NoJob => (Unvisited(d, k)' <=> Waits(v)')
    OBVIOUS
  <2>2. QED
    BY <2>1 DEF Released, Index, Waits, Queued, Starts
<1>1. v \in Jobs
  BY SlotType DEF JInv
<1>2. Unvisited(d, k)' <=> Unvisited(d, k)
  BY DEF Unvisited, Starts
<1>3. CASE v = j
  BY <1>2, <1>3
<1>4. CASE v # j
  BY <1>1, <1>2, <1>4 DEF JInv, Released
<1>5. QED
  BY <1>3, <1>4

LEMMA ScheduleJ ==
    ASSUME JInv, IInv', NEW w \in Workers, NEW j \in Jobs, Schedule(w, j)
    PROVE  JInv' /\ TaskStep
<1>1. /\ At(w, "code") /\ GoodStack(stack[w]) /\ ~Seeks(stack[w]) /\ Shape(stack[w])
  BY AtTop DEF Schedule, JInv, Searching, Outermost
<1>2. /\ Used(j) /\ creator[j] = Top(w).job /\ life[j] = "fresh" /\ j # NoJob
      /\ life' = [life EXCEPT ![j] = "scheduled"]
      /\ UNCHANGED <<allocated, type, parent, unfinished, dependent_count, dependents, creator, after>>
  BY PoolAssumption DEF Schedule, Mine, jobVars
<1>3. runs[j] = 0 /\ ~Queued(j) /\ after[j] = {} /\ QueueOnce
  BY <1>2 DEF JInv, RunsOnce, QueuedKnown, Linked
<1>4. \A c \in Calls : c[3].at = "link" => c[3].job # j /\ c[3].other # j
  BY <1>1, <1>2, <1>3, NoLinkHere DEF JInv, LinkCalls, LinkCall
<1>5. \A d \in Jobs, k \in Index : dependents[d][k] # j
  BY <1>2, <1>3 DEF JInv, Slots
<1>6. /\ life'[j] = "scheduled" /\ \A k \in Jobs : k # j => life'[k] = life[k]
      /\ \A k \in Jobs : Used(k)' <=> Used(k)
  BY <1>2 DEF JInv, IInv, TypeOK, Used
<1>7. CASE /\ queue' = [queue EXCEPT ![w] = Append(@, j)] /\ UNCHANGED runs
           /\ SetStack(w, Append(stack[w], Frame("notify", NoJob)))
  <2> DEFINE f == Frame("notify", NoJob)
  <2>1. GoodFrame(f) /\ f.at = "notify" /\ SetStack(w, Append(stack[w], f))
    BY <1>7, PlainFrame DEF Places, OfJob
  <2> HIDE DEF f
  <2>2. Calls' = Calls /\ Shape(Append(stack[w], f))
    BY <1>1, <2>1, AtPush DEF Searching, Active
  <2>3. Starts(j)
    <3>1. QueueOnce' /\ \A k : Queued(k)' <=> Queued(k) \/ k = j
      BY <1>3, <1>7, PushQueue DEF JInv
    <3>2. QED
      BY <1>2, <1>3, <1>6, <1>7, <3>1 DEF Starts
  <2>4. /\ RunsOnce' /\ QueuedKnown' /\ QueueOnce' /\ Linked' /\ Slots' /\ Unused' /\ Parents'
        /\ Allocated' /\ LinkCalls' /\ ~Waits(j)' /\ \A k \in Jobs : k # j => (Waits(k)' <=> Waits(k))
    BY <1>4, <2>2, <2>3, StartData
  <2>5. Released'
    BY <1>5, <2>2, <2>3, <2>4, StartReleased
  <2>6. CallsKnown' /\ CodeOnce' /\ LeafOnce' /\ Counter'
    BY <1>2, <1>6, <1>7, <2>2, RoundCalls
  <2>7. LinksOnTop'
    BY <1>1, <1>2, <2>1, <2>2, LinksStay DEF JInv
  <2>8. Outermost'
    BY <2>1, <2>2, OneShape DEF JInv
  <2>9. TaskStep
    BY <1>3, <1>7, <2>2, <2>3 DEF TaskStep, Queues, SameRunning, Running
  <2>10. QED
    BY <2>4, <2>5, <2>6, <2>7, <2>8, <2>9 DEF JInv
<1>8. CASE SetStack(w, Append(stack[w], Frame("code", j))) /\ Enter(w, j) /\ UNCHANGED queue
  <2> SUFFICES ASSUME NEW f, f = Frame("code", j), NEW y, y = Above(w, f)
               PROVE  JInv' /\ TaskStep
    OBVIOUS
  <2>1. GoodFrame(f) /\ f.at = "code" /\ f.job = j /\ SetStack(w, Append(stack[w], f))
    BY <1>8, FrameType DEF Places, OfJob, Frame
  <2>2. Calls' = Calls \cup {y} /\ y \notin Calls /\ y[3] = f /\ y[1] = w
    BY <1>1, <2>1, PushCalls DEF JInv, Active, Above
  <2>3. Starts(j) /\ runs'[j] = 1
    <3>1. runs'[j] = 1 /\ \A k \in Jobs : k # j => runs'[k] = runs[k]
      BY <1>3, <1>8 DEF Enter, JInv, IInv, TypeOK
    <3>2. QueueOnce' /\ \A k : Queued(k)' <=> Queued(k)
      BY <1>3, <1>8 DEF QueueOnce, Queued
    <3>3. QED
      BY <1>2, <1>3, <1>6, <3>1, <3>2 DEF Starts
  <2>4. /\ RunsOnce' /\ QueuedKnown' /\ QueueOnce' /\ Linked' /\ Slots' /\ Unused' /\ Parents'
        /\ Allocated' /\ LinkCalls' /\ ~Waits(j)' /\ \A k \in Jobs : k # j => (Waits(k)' <=> Waits(k))
    <3>1. \A c : c \in Calls' /\ c[3].at = "link" <=> c \in Calls /\ c[3].at = "link"
      BY <2>1, <2>2
    <3>2. QED
      BY <1>4, <2>3, <3>1, StartData
  <2>5. Released'
    <3>1. \A c : c[3].at \in {"check", "dependents"} => (c \in Calls' <=> c \in Calls)
      BY <2>1, <2>2
    <3>2. QED
      BY <1>5, <2>3, <2>4, <3>1, StartReleased
  <2>6. CallsKnown' /\ CodeOnce' /\ LeafOnce' /\ Counter'
    BY <2>1, <2>2, <2>3, EnterCalls
  <2>7. LinksOnTop'
    BY <1>1, <1>2, <2>1, <2>2, LinksStay DEF JInv
  <2>8. Outermost'
    BY <1>1, <2>1, PushShape, OneShape DEF JInv
  <2>9. TaskStep
    <3>1. \A k \in Jobs : Running(k)' <=> Running(k) \/ k = j
      BY <2>1, <2>2 DEF Running
    <3>2. QED
      BY <2>3, <3>1 DEF TaskStep, Begins
  <2>10. QED
    BY <2>4, <2>5, <2>6, <2>7, <2>8, <2>9 DEF JInv
<1>9. QED
  BY <1>7, <1>8 DEF Schedule, MyQueue

(* flush() finds a job, at either end of a deque.                          *)
LEMMA TakeJ ==
    ASSUME JInv, IInv', NEW w \in Workers, NEW p \in {"flush", "retry", "stealMain", "stealAny"},
           At(w, p), NEW v \in Workers, NEW m \in 1 .. Len(queue[v]), NEW j, queue[v][m] = j,
           NEW rest, NEW o \in {0, 1}, Len(rest) = Len(queue[v]) - 1,
           \A i \in 1 .. Len(rest) : rest[i] = queue[v][i + o],
           m = IF o = 1 THEN 1 ELSE Len(queue[v]),
           queue' = [queue EXCEPT ![v] = rest],
           SetStack(w, Goto(stack[w], Frame("code", j))), Enter(w, j),
           UNCHANGED <<allocated, jobVars, life, creator, after, flags>>
    PROVE  JInv' /\ TaskStep
<1> SUFFICES ASSUME NEW f, f = Frame("code", j), NEW y, y = Instead(w, f)
             PROVE  JInv' /\ TaskStep
  OBVIOUS
<1>1. /\ GoodStack(stack[w]) /\ stack[w] # <<>> /\ Shape(stack[w]) /\ Here(w) \notin Calls
      /\ p \notin Active /\ p # "link"
  BY AtTop, HereCall DEF JInv, Outermost, Active
<1>2. j \in Jobs /\ Queued(j)
  <2>1. queue[v] \in Seq(Jobs)
    BY DEF JInv, IInv, TypeOK
  <2>2. QED
    BY <2>1, ElementOfSeq DEF Queued
<1>3. /\ runs[j] = 0 /\ life[j] \in {"scheduled", "linked"} /\ Used(j) /\ ~Waits(j)
  BY <1>2 DEF JInv, QueuedKnown, Used, Waits
<1>4. UNCHANGED <<allocated, type, parent, unfinished, dependent_count, dependents, life, creator, after>>
  BY DEF jobVars
<1>5. GoodFrame(f) /\ f.at = "code" /\ f.job = j /\ SetStack(w, Goto(stack[w], f))
  BY <1>2, FrameType DEF Places, OfJob, Frame
<1>6. y[3] = f /\ y[1] = w /\ y \notin Calls
  <2>1. y[3] = f /\ y[1] = w
    BY DEF Instead
  <2>2. Instead(w, f) \in Calls => Instead(w, f) = Here(w)
    BY <1>1, <1>5, GotoCalls DEF JInv
  <2>3. QED
    BY <1>1, <2>1, <2>2
<1>7. Calls' = Calls \cup {y}
  <2>1. f.at \in Active => Calls' = (Calls \ {Here(w)}) \cup {Instead(w, f)}
    BY <1>1, <1>5, GotoCalls DEF JInv
  <2>2. QED
    BY <1>1, <1>5, <2>1 DEF Active
<1>8. Starts(j) /\ runs'[j] = 1
  <2>1. runs'[j] = 1 /\ \A k \in Jobs : k # j => runs'[k] = runs[k]
    BY <1>2, <1>3 DEF Enter, JInv, IInv, TypeOK
  <2>2. QueueOnce' /\ \A k : Queued(k)' <=> Queued(k) /\ k # j
    BY TakeQueue DEF JInv
  <2>3. QED
    BY <1>2, <1>3, <1>4, <2>1, <2>2 DEF Starts
<1>9. \A c \in Calls : c[3].at = "link" => c[3].job # j /\ c[3].other # j
  BY <1>3 DEF JInv, LinkCalls, LinkCall
<1>10. /\ RunsOnce' /\ QueuedKnown' /\ QueueOnce' /\ Linked' /\ Slots' /\ Unused' /\ Parents'
       /\ Allocated' /\ LinkCalls' /\ ~Waits(j)' /\ \A k \in Jobs : k # j => (Waits(k)' <=> Waits(k))
  <2>1. \A c : c \in Calls' /\ c[3].at = "link" <=> c \in Calls /\ c[3].at = "link"
    BY <1>5, <1>6, <1>7
  <2>2. QED
    BY <1>2, <1>8, <1>9, <2>1, StartData
<1>11. Released'
  <2>1. \A c : c[3].at \in {"check", "dependents"} => (c \in Calls' <=> c \in Calls)
    BY <1>5, <1>6, <1>7
  <2>2. \A d \in Jobs, k \in Index : dependents[d][k] = j => ~Unvisited(d, k)
    BY <1>2, <1>3, PoolAssumption DEF JInv, Released
  <2>3. QED
    BY <1>2, <1>8, <1>10, <2>1, <2>2, StartReleased
<1>12. CallsKnown' /\ CodeOnce' /\ LeafOnce' /\ Counter'
  BY <1>2, <1>5, <1>6, <1>7, <1>8, EnterCalls
<1>13. LinksOnTop'
  BY <1>1, <1>4, <1>5, <1>6, <1>7, LinksStay DEF JInv
<1>14. Outermost'
  BY <1>1, <1>5, GotoShape, OneShape DEF JInv
<1>15. TaskStep
  <2>1. \A k \in Jobs : Running(k)' <=> Running(k) \/ k = j
    BY <1>5, <1>6, <1>7 DEF Running
  <2>2. QED
    BY <1>2, <1>8, <2>1 DEF TaskStep, Begins
<1>16. QED
  BY <1>10, <1>11, <1>12, <1>13, <1>14, <1>15 DEF JInv

(* flush() finds a job in its own deque, or at the end of another.         *)
LEMMA TakeSteps ==
    ASSUME JInv, IInv', NEW w \in Workers, PopOwn(w) \/ Steal(w)
    PROVE  JInv' /\ TaskStep
<1>1. UNCHANGED <<allocated, jobVars, life, creator, after, flags>>
  BY DEF PopOwn, Steal
<1>2. queue \in [Workers -> Seq(Jobs)] /\ Main \in Workers
  BY DEF JInv, IInv, TypeOK, Workers
<1>3. CASE /\ queue[w] # <<>> /\ Enter(w, Head(queue[w]))
           /\ SetStack(w, Goto(stack[w], Frame("code", Head(queue[w]))))
           /\ queue' = [queue EXCEPT ![w] = Tail(@)]
           /\ At(w, "flush") \/ At(w, "retry")
  <2> SUFFICES ASSUME NEW s, s = queue[w], NEW j, j = Head(s), NEW rest, rest = Tail(s)
               PROVE  JInv' /\ TaskStep
    OBVIOUS
  <2>1. s \in Seq(Jobs) /\ s # <<>> /\ Len(s) \in Nat \ {0}
    BY <1>2, <1>3, EmptySeq
  <2>2. Len(rest) = Len(s) - 1 /\ s[1] = j /\ \A i \in 1 .. Len(rest) : rest[i] = s[i + 1]
    BY <2>1, HeadTailProperties
  <2>3. 1 \in 1 .. Len(queue[w]) /\ queue[w][1] = j /\ 1 = (IF 1 = 1 THEN 1 ELSE Len(queue[w]))
    BY <2>1, <2>2
  <2>4. queue' = [queue EXCEPT ![w] = rest] /\ SetStack(w, Goto(stack[w], Frame("code", j))) /\ Enter(w, j)
    BY <1>3
  <2>5. PICK p \in {"flush", "retry", "stealMain", "stealAny"} : At(w, p)
    BY <1>3
  <2>6. 1 \in {0, 1}
    OBVIOUS
  <2>7. QED
    BY <1>1, <2>2, <2>3, <2>4, <2>5, <2>6, TakeJ
<1>4. ASSUME NEW v \in Workers, StealFrom(w, v), At(w, "stealMain") \/ At(w, "stealAny")
      PROVE  JInv' /\ TaskStep
  <2> SUFFICES ASSUME NEW s, s = queue[v], NEW n, n = Len(s), NEW j, j = s[n],
                      NEW rest, rest = SubSeq(s, 1, n - 1)
               PROVE  JInv' /\ TaskStep
    OBVIOUS
  <2>1. s \in Seq(Jobs) /\ s # <<>> /\ n \in Nat \ {0}
    BY <1>2, <1>4, EmptySeq DEF StealFrom
  <2>2. Len(rest) = n - 1 /\ \A i \in 1 .. Len(rest) : rest[i] = s[i]
    <3> DEFINE m == n - 1
               r == SubSeq(s, 1, m)
    <3>1. m \in Nat /\ \A i \in 1 .. m : s[i] \in Jobs
      BY <2>1, ElementOfSeq
    <3> HIDE DEF m
    <3>2. /\ Len(r) = IF 1 <= m THEN m - 1 + 1 ELSE 0
          /\ \A i \in 1 .. m - 1 + 1 : r[i] = s[1 + i - 1]
      BY <3>1, SubSeqProperties
    <3> HIDE DEF r
    <3>3. Len(r) = m /\ \A i \in 1 .. m : r[i] = s[i]
      BY <3>1, <3>2
    <3>4. QED
      BY <3>3 DEF r, m
  <2>3. /\ n \in 1 .. Len(queue[v]) /\ queue[v][n] = j /\ n = (IF 0 = 1 THEN 1 ELSE Len(queue[v]))
        /\ Len(rest) = Len(queue[v]) - 1
    BY <2>1, <2>2
  <2>4. \A i \in 1 .. Len(rest) : rest[i] = queue[v][i + 0]
    BY <2>1, <2>2
  <2>5. /\ queue' = [queue EXCEPT ![v] = rest] /\ SetStack(w, Goto(stack[w], Frame("code", j)))
        /\ Enter(w, j)
    BY <1>4 DEF StealFrom, Stolen
  <2>6. PICK p \in {"flush", "retry", "stealMain", "stealAny"} : At(w, p)
    BY <1>4
  <2>7. 0 \in {0, 1}
    OBVIOUS
  <2>8. QED
    BY <1>1, <2>3, <2>4, <2>5, <2>6, <2>7, TakeJ
<1>5. CASE UNCHANGED <<queue, runs>>
  BY <1>5, SearchSteps
<1>6. QED
  BY <1>2, <1>3, <1>4, <1>5 DEF PopOwn, Steal, Popped

(* finish() visits slot i of its job j, where d is, and goes on to the     *)
(* next slot if there is more.                                             *)
Visits(x, xx, j, i, d, more) ==
    /\ Round(x, xx) /\ j \in Jobs /\ j = x[3].job
    /\ i \in Nat /\ x[3].n = i /\ xx[3].n = i + 1
    /\ UNCHANGED <<unfinished, dependents>>
    /\ \A c : c[3].at \in {"check", "dependents"} =>
                   (c \in Calls' <=> (c \in Calls /\ c # x) \/ (c = xx /\ more))
    /\ IF more THEN i \in Index /\ dependents[j][i] = d
       ELSE d = NoJob /\ i >= dependent_count[j]
    /\ d # NoJob => d \in Jobs /\ ~Waits(d)'
    /\ \A k \in Jobs : k # d => (Waits(k)' <=> Waits(k))

LEMMA VisitReleased ==
    ASSUME JInv, NEW x, NEW xx, NEW j, NEW i, NEW d, NEW more \in BOOLEAN,
           Visits(x, xx, j, i, d, more)
    PROVE  Released'
<1>0. /\ Round(x, xx) /\ j \in Jobs /\ j = x[3].job
      /\ i \in Nat /\ x[3].n = i /\ xx[3].n = i + 1
      /\ UNCHANGED <<unfinished, dependents>>
      /\ \A c : c[3].at \in {"check", "dependents"} =>
                    (c \in Calls' <=> (c \in Calls /\ c # x) \/ (c = xx /\ more))
      /\ more => i \in Index /\ dependents[j][i] = d
      /\ ~more => d = NoJob /\ i >= dependent_count[j]
      /\ d # NoJob => d \in Jobs /\ more /\ ~Waits(d)'
      /\ \A k \in Jobs : k # d => (Waits(k)' <=> Waits(k))
  BY DEF Visits
<1> SUFFICES ASSUME NEW e \in Jobs, NEW k \in Index, NEW v, v = dependents[e][k], v # NoJob
             PROVE  Unvisited(e, k)' <=> Waits(v)'
  <2>1. \A e \in Jobs, k \in Index : \A v :
             v = dependents[e][k] /\ v # NoJob => (Unvisited(e, k)' <=> Waits(v)')
    OBVIOUS
  <2>2. QED
    BY <1>0, <2>1 DEF Released, Index, Waits, Queued
<1>1. v \in Jobs /\ k \in Nat /\ (Unvisited(e, k) <=> Waits(v))
      /\ k < dependent_count[e] /\ dependent_count[e] \in Nat /\ after[v] = {e}
      /\ \A l \in Index : dependents[e][l] = v => l = k
  <2>1. v \in Jobs /\ k \in Nat /\ dependent_count[e] \in 0 .. MaxDependents - 1
    BY SlotType, CounterAssumption DEF JInv, IInv, TypeOK, Index
  <2>2. Unvisited(e, k) <=> Waits(v)
    BY DEF JInv, Released
  <2>3. k < dependent_count[e] /\ after[v] = {e} /\ \A l \in Index : dependents[e][l] = v => l = k
    BY DEF JInv, Slots
  <2>4. QED
    BY <2>1, <2>2, <2>3, CounterAssumption
<1>2. CASE e # j
  <2>1. Unvisited(e, k)' <=> Unvisited(e, k)
    BY <1>0, <1>2 DEF Unvisited, Round
  <2>2. v # d
    <3>1. d # NoJob => dependents[j][i] = d /\ i \in Index
      BY <1>0
    <3>2. d # NoJob => after[d] = {j}
      BY <1>0, <3>1 DEF JInv, Slots
    <3>3. QED
      BY <1>1, <1>2, <3>2
  <2>3. QED
    BY <1>0, <1>1, <2>1, <2>2
<1>3. CASE e = j
  <2>1. Leaf(j) /\ j # NoJob
    BY <1>1, <1>3, PoolAssumption DEF Leaf
  <2>2. unfinished[j] = 0
    BY <1>0, CallJob DEF Round, CallKnown
  <2>3. \A c \in Calls : c[3].job = j /\ c[3].at \in {"check", "dependents"} => c = x
    BY <1>0, <2>1 DEF JInv, LeafOnce, Round
  <2>4. Unvisited(j, k) <=> i <= k
    BY <1>0, <2>2, <2>3 DEF Unvisited, Round
  <2>5. Unvisited(j, k)' <=> more /\ i + 1 <= k
    <3>1. \A c \in Calls' : c[3].job = j /\ c[3].at \in {"check", "dependents"} => c = xx /\ more
      BY <1>0, <2>3
    <3>2. more => xx \in Calls'
      BY <1>0 DEF Round
    <3>3. QED
      BY <1>0, <2>2, <3>1, <3>2 DEF Unvisited, Round
  <2>6. CASE v = d
    <3>1. i = k
      BY <1>0, <1>1, <1>3, <2>6
    <3>2. QED
      BY <1>0, <1>1, <1>3, <2>5, <2>6, <3>1
  <2>7. CASE v # d
    <3>1. more => i # k
      BY <1>0, <1>3, <2>7
    <3>2. i <= k <=> more /\ i + 1 <= k
      BY <1>0, <1>1, <1>3, <3>1
    <3>3. QED
      BY <1>0, <1>1, <1>3, <2>4, <2>5, <2>7, <3>2
  <2>8. QED
    BY <2>6, <2>7
<1>4. QED
  BY <1>2, <1>3

LEMMA DependentsJ ==
    ASSUME JInv, IInv', NEW w \in Workers, Dependents(w)
    PROVE  JInv' /\ TaskStep
<1> SUFFICES ASSUME NEW j, j = Top(w).job, NEW i, i = Top(w).n, NEW d, d = dependents[j][i],
                    NEW f, f = LoopFrame(j, i + 1), NEW g, g = Frame("code", d),
                    NEW x, x = Here(w), NEW xx, xx = Instead(w, f), NEW y, y = Above(w, g)
             PROVE  JInv' /\ TaskStep
  OBVIOUS
<1>1. /\ x \in Calls /\ x[3].at = "dependents" /\ x[3].job = j /\ x[3].n = i /\ x[1] = w
      /\ j \in Jobs /\ i \in Nat /\ unfinished[j] = 0
      /\ At(w, "dependents") /\ GoodStack(stack[w]) /\ stack[w] # <<>> /\ Shape(stack[w])
  BY HereCall, AtTop, CallJob DEF Dependents, Active, JInv, CallKnown, Outermost
<1>2. GoodFrame(f) /\ f.at = "dependents" /\ f.job = j /\ f.n = i + 1
  <2>1. i + 1 \in Nat
    BY <1>1
  <2>2. QED
    BY <1>1, <2>1, LoopFrameType DEF LoopFrame
<1>3. /\ i < dependent_count[j] => i \in Index /\ d \in Jobs \cup {NoJob}
      /\ dependent_count[j] \in Nat
  <2>1. dependent_count[j] \in 0 .. MaxDependents - 1
    BY <1>1 DEF JInv, IInv, TypeOK
  <2>2. i < dependent_count[j] => i \in Index
    BY <1>1, <2>1, CounterAssumption DEF Index
  <2>3. QED
    BY <1>1, <2>1, <2>2, SlotType, CounterAssumption DEF JInv
<1>4. /\ UNCHANGED <<allocated, type, parent, unfinished, dependent_count, dependents, life, creator, after>>
      /\ \/ i >= dependent_count[j] /\ SetStack(w, Pop(stack[w])) /\ UNCHANGED <<queue, runs>>
         \/ /\ i < dependent_count[j] /\ d = NoJob
            /\ SetStack(w, Goto(stack[w], f)) /\ UNCHANGED <<queue, runs>>
         \/ /\ i < dependent_count[j] /\ d # NoJob
            /\ queue' = [queue EXCEPT ![w] = Append(@, d)]
            /\ SetStack(w, Goto(stack[w], f)) /\ UNCHANGED runs
         \/ /\ i < dependent_count[j] /\ d # NoJob
            /\ SetStack(w, Append(Goto(stack[w], f), g)) /\ Enter(w, d) /\ UNCHANGED queue
  BY DEF Dependents, MyQueue, jobVars
<1>5. xx[3] = f /\ xx[1] = w /\ y[3] = g /\ y[1] = w /\ Round(x, xx)
  BY <1>1, <1>2 DEF Instead, Above, Round
<1>6. ASSUME NEW s, SetStack(w, s), Shape(s),
             \A c \in Calls' : c \in Calls \/ c = xx \/ (c = y /\ g.at = "code"),
             \A c \in Calls : c # x => c \in Calls'
      PROVE  LinksOnTop' /\ Outermost' /\ \A c : c \in Calls' /\ c[3].at = "link"
                                                   <=> c \in Calls /\ c[3].at = "link"
  <2>1. \A c : c \in Calls' /\ c[3].at = "link" <=> c \in Calls /\ c[3].at = "link"
    BY <1>1, <1>2, <1>5, <1>6
  <2>2. LinksOnTop'
    BY <1>1, <1>4, <1>6, <2>1, LinksStay DEF JInv
  <2>3. QED
    BY <1>6, <2>1, <2>2, OneShape DEF JInv
<1>7. \A k \in Jobs : Used(k)' <=> Used(k)
  BY <1>4 DEF Used
<1>8. CASE i >= dependent_count[j] /\ SetStack(w, Pop(stack[w])) /\ UNCHANGED <<queue, runs>>
  <2>1. Calls' = Calls \ {x}
    BY <1>1, <1>8, PopCalls DEF JInv
  <2>2. LinksOnTop' /\ Outermost' /\ \A c : c \in Calls' /\ c[3].at = "link" <=> c \in Calls /\ c[3].at = "link"
    BY <1>1, <1>6, <1>8, <2>1, PopShape
  <2>3. CallsKnown' /\ CodeOnce' /\ LeafOnce' /\ Counter'
    BY <1>4, <1>5, <1>7, <1>8, <2>1, RoundCalls
  <2>4. /\ RunsOnce' /\ Parents' /\ QueueOnce' /\ QueuedKnown' /\ Slots' /\ Unused' /\ Allocated'
        /\ Linked' /\ LinkCalls'
    BY <1>4, <1>8, <2>2, DataKept DEF ghosts
  <2>5. Released'
    <3>1. \A k : Waits(k)' <=> Waits(k)
      BY <1>8 DEF Waits, Queued
    <3>2. \A c : c[3].at \in {"check", "dependents"} =>
                    (c \in Calls' <=> (c \in Calls /\ c # x) \/ (c = xx /\ FALSE))
      BY <2>1
    <3>3. Visits(x, xx, j, i, NoJob, FALSE)
      BY <1>1, <1>2, <1>4, <1>5, <1>8, <3>1, <3>2 DEF Visits
    <3>4. QED
      BY <3>3, VisitReleased
  <2>6. TaskStep
    BY <1>1, <1>4, <1>8, <2>1 DEF TaskStep, Steady, SameRunning, Running
  <2>7. QED
    BY <2>2, <2>3, <2>4, <2>5, <2>6 DEF JInv
<1>9. ASSUME SetStack(w, Goto(stack[w], f))
      PROVE  Calls' = (Calls \ {x}) \cup {xx} /\ Shape(Goto(stack[w], f))
  BY <1>1, <1>2, <1>9, GotoCalls, GotoShape DEF JInv, Active
<1>10. CASE /\ i < dependent_count[j] /\ d = NoJob
            /\ SetStack(w, Goto(stack[w], f)) /\ UNCHANGED <<queue, runs>>
  <2>1. Calls' = (Calls \ {x}) \cup {xx} /\ Shape(Goto(stack[w], f))
    BY <1>9, <1>10
  <2>2. LinksOnTop' /\ Outermost' /\ \A c : c \in Calls' /\ c[3].at = "link" <=> c \in Calls /\ c[3].at = "link"
    BY <1>6, <1>10, <2>1
  <2>3. CallsKnown' /\ CodeOnce' /\ LeafOnce' /\ Counter'
    BY <1>4, <1>5, <1>7, <1>10, <2>1, RoundCalls
  <2>4. /\ RunsOnce' /\ Parents' /\ QueueOnce' /\ QueuedKnown' /\ Slots' /\ Unused' /\ Allocated'
        /\ Linked' /\ LinkCalls'
    BY <1>4, <1>10, <2>2, DataKept DEF ghosts
  <2>5. Released'
    <3>1. \A k : Waits(k)' <=> Waits(k)
      BY <1>10 DEF Waits, Queued
    <3>2. \A c : c[3].at \in {"check", "dependents"} =>
                    (c \in Calls' <=> (c \in Calls /\ c # x) \/ (c = xx /\ TRUE))
      BY <2>1
    <3>3. Visits(x, xx, j, i, d, TRUE)
      BY <1>1, <1>2, <1>3, <1>4, <1>5, <1>10, <3>1, <3>2 DEF Visits
    <3>4. QED
      BY <3>3, VisitReleased
  <2>6. TaskStep
    <3>1. SameRunning
      BY <1>1, <1>2, <1>5, <2>1 DEF SameRunning, Running
    <3>2. QED
      BY <1>4, <1>10, <3>1 DEF TaskStep, Steady
  <2>7. QED
    BY <2>2, <2>3, <2>4, <2>5, <2>6 DEF JInv
<1>11. ASSUME i < dependent_count[j], d # NoJob
       PROVE  /\ d \in Jobs /\ i \in Index /\ runs[d] = 0 /\ ~Queued(d) /\ life[d] = "linked" /\ Used(d)
              /\ \A c \in Calls : c[3].at = "link" => c[3].job # d /\ c[3].other # d
  <2>1. d \in Jobs /\ i \in Index
    BY <1>3, <1>11
  <2>2. Unvisited(j, i)
    BY <1>1 DEF Unvisited
  <2>3. Waits(d) /\ after[d] = {j}
    BY <1>1, <1>11, <2>1, <2>2 DEF JInv, Released, Slots
  <2>4. life[d] = "linked"
    BY <2>1, <2>3 DEF JInv, Linked
  <2>5. ASSUME NEW c \in Calls, c[3].at = "link" PROVE c[3].job # d /\ c[3].other # d
    <3>1. LinkCall(c)
      BY <2>5 DEF JInv, LinkCalls
    <3>2. c[3].job # d
      BY <2>4, <3>1 DEF LinkCall
    <3>3. c[3].other = d => c[3].job = j
      BY <2>3, <3>1 DEF LinkCall
    <3>4. QED
      BY <2>1, <3>1, <3>2, <3>3 DEF LinkCall
  <2>6. QED
    BY <2>1, <2>3, <2>4, <2>5 DEF Waits, Used
<1>12. CASE /\ i < dependent_count[j] /\ d # NoJob
            /\ queue' = [queue EXCEPT ![w] = Append(@, d)]
            /\ SetStack(w, Goto(stack[w], f)) /\ UNCHANGED runs
  <2>1. Calls' = (Calls \ {x}) \cup {xx} /\ Shape(Goto(stack[w], f))
    BY <1>9, <1>12
  <2>2. LinksOnTop' /\ Outermost' /\ \A c : c \in Calls' /\ c[3].at = "link" <=> c \in Calls /\ c[3].at = "link"
    BY <1>6, <1>12, <2>1
  <2>3. CallsKnown' /\ CodeOnce' /\ LeafOnce' /\ Counter'
    BY <1>4, <1>5, <1>7, <1>12, <2>1, RoundCalls
  <2>4. Starts(d)
    <3>1. QueueOnce' /\ \A k : Queued(k)' <=> Queued(k) \/ k = d
      BY <1>11, <1>12, PushQueue DEF JInv
    <3>2. QED
      BY <1>4, <1>11, <1>12, <3>1 DEF Starts
  <2>5. /\ RunsOnce' /\ QueuedKnown' /\ QueueOnce' /\ Linked' /\ Slots' /\ Unused' /\ Parents'
        /\ Allocated' /\ LinkCalls' /\ ~Waits(d)' /\ \A k \in Jobs : k # d => (Waits(k)' <=> Waits(k))
    BY <1>11, <1>12, <2>2, <2>4, StartData
  <2>6. Released'
    <3>1. \A c : c[3].at \in {"check", "dependents"} =>
                    (c \in Calls' <=> (c \in Calls /\ c # x) \/ (c = xx /\ TRUE))
      BY <2>1
    <3>2. Visits(x, xx, j, i, d, TRUE)
      BY <1>1, <1>2, <1>4, <1>5, <1>11, <1>12, <2>5, <3>1 DEF Visits
    <3>3. QED
      BY <3>2, VisitReleased
  <2>7. TaskStep
    <3>1. SameRunning
      BY <1>1, <1>2, <1>5, <2>1 DEF SameRunning, Running
    <3>2. runs'[d] = 0
      BY <1>11, <1>12
    <3>3. QED
      BY <1>11, <1>12, <2>4, <3>1, <3>2 DEF TaskStep, Queues
  <2>8. QED
    BY <2>2, <2>3, <2>5, <2>6, <2>7 DEF JInv
<1>13. CASE /\ i < dependent_count[j] /\ d # NoJob
            /\ SetStack(w, Append(Goto(stack[w], f), g)) /\ Enter(w, d) /\ UNCHANGED queue
  <2>1. d \in Jobs /\ GoodFrame(g) /\ g.at = "code" /\ g.job = d
    BY <1>11, <1>13, FrameType DEF Places, OfJob, Frame
  <2>2. Calls' = (Calls \ {x}) \cup {xx, y} /\ y \notin Calls
    BY <1>1, <1>2, <1>13, <2>1, GotoPushCalls DEF JInv, Active, Searching
  <2>3. Shape(Append(Goto(stack[w], f), g))
    <3>1. GoodStack(Goto(stack[w], f)) /\ Shape(Goto(stack[w], f))
      BY <1>1, <1>2, GotoStack, GotoShape
    <3>2. QED
      BY <2>1, <3>1, PushShape
  <2>4. LinksOnTop' /\ Outermost' /\ \A c : c \in Calls' /\ c[3].at = "link" <=> c \in Calls /\ c[3].at = "link"
    BY <1>6, <1>13, <2>1, <2>2, <2>3
  <2>5. Starts(d) /\ runs'[d] = 1
    <3>1. runs'[d] = 1 /\ \A k \in Jobs : k # d => runs'[k] = runs[k]
      BY <1>11, <1>13 DEF Enter, JInv, IInv, TypeOK
    <3>2. QueueOnce' /\ \A k : Queued(k)' <=> Queued(k)
      BY <1>13 DEF QueueOnce, Queued, JInv
    <3>3. QED
      BY <1>4, <1>11, <1>13, <3>1, <3>2 DEF Starts
  <2>6. CallsKnown' /\ CodeOnce' /\ LeafOnce' /\ Counter'
    BY <1>5, <2>1, <2>2, <2>5, EnterCalls
  <2>7. /\ RunsOnce' /\ QueuedKnown' /\ QueueOnce' /\ Linked' /\ Slots' /\ Unused' /\ Parents'
        /\ Allocated' /\ LinkCalls' /\ ~Waits(d)' /\ \A k \in Jobs : k # d => (Waits(k)' <=> Waits(k))
    BY <1>11, <1>13, <2>4, <2>5, StartData
  <2>8. Released'
    <3>1. \A c : c[3].at \in {"check", "dependents"} =>
                    (c \in Calls' <=> (c \in Calls /\ c # x) \/ (c = xx /\ TRUE))
      BY <1>5, <2>1, <2>2
    <3>2. Visits(x, xx, j, i, d, TRUE)
      BY <1>1, <1>2, <1>4, <1>5, <1>11, <1>13, <2>7, <3>1 DEF Visits
    <3>3. QED
      BY <3>2, VisitReleased
  <2>9. TaskStep
    <3>1. \A k \in Jobs : Running(k)' <=> Running(k) \/ k = d
      BY <1>1, <1>2, <1>5, <2>1, <2>2 DEF Running
    <3>2. QED
      BY <2>1, <2>5, <3>1 DEF TaskStep, Begins
  <2>10. QED
    BY <2>4, <2>6, <2>7, <2>8, <2>9 DEF JInv
<1>14. QED
  BY <1>4, <1>8, <1>10, <1>12, <1>13

-----------------------------------------------------------------------------
(* The invariant is inductive.                                             *)

LEMMA InitJInv == Init => JInv
<1> SUFFICES ASSUME Init PROVE JInv
  OBVIOUS
<1>1. IInv
  BY InitIInv
<1> DEFINE f == Frame("code", NoJob)
           l == Frame("loop", NoJob)
<1>2. f.at = "code" /\ l.at = "loop" /\ f.job = NoJob
  BY DEF Frame
<1>3. stack = [w \in Workers |-> IF w = Main THEN <<f>> ELSE <<l>>]
  BY DEF Init
<1> HIDE DEF f, l
<1>4. \A w \in Workers : Len(stack[w]) = 1 /\ stack[w][1] = IF w = Main THEN f ELSE l
  BY <1>3
<1>5. \A c \in Calls : c[1] = Main /\ c[2] = 1 /\ c[3] = f
  BY <1>2, <1>4 DEF Calls, Active
<1>6. \A c, e \in Calls : c = e
  BY <1>1, <1>5, CallPlace
<1>7. \A j \in Jobs : /\ ~Used(j) /\ runs[j] = 0 /\ life[j] = "free" /\ after[j] = {}
                      /\ parent[j] = NoJob /\ dependent_count[j] = 0
                      /\ \A k \in Index : dependents[j][k] = NoJob
  BY DEF Init, Used, Index
<1>8. \A w \in Workers : Len(queue[w]) = 0 /\ allocated[w] = 0 /\ MaxJobs[w] \in Nat
  BY BoundAssumption DEF Init
<1>9. CallsKnown
  BY <1>2, <1>5 DEF CallsKnown, CallKnown
<1>10. CodeOnce /\ LeafOnce
  BY <1>6 DEF CodeOnce, LeafOnce
<1>11. RunsOnce /\ Counter /\ Parents /\ Unused
  BY <1>7 DEF RunsOnce, Counter, Parents, Unused
<1>12. \A w \in Workers : 1 .. Len(queue[w]) = {}
  BY <1>8
<1>13. QueueOnce /\ QueuedKnown
  BY <1>12 DEF QueueOnce, QueuedKnown, Queued
<1>14. Linked /\ Slots /\ Released
  BY <1>7 DEF Linked, Slots, Released
<1>15. LinkCalls /\ LinksOnTop
  BY <1>2, <1>5 DEF LinkCalls, LinksOnTop
<1>16. Allocated
  BY <1>7, <1>8 DEF Allocated, Jobs
<1>17. Outermost
  BY <1>4 DEF Outermost, Shape
<1>18. QED
  BY <1>1, <1>9, <1>10, <1>11, <1>13, <1>14, <1>15, <1>16, <1>17 DEF JInv

LEMMA NextJInv ==
    ASSUME Disciplined, NoReuse, JInv, [Next]_vars
    PROVE  JInv' /\ TaskStep
<1>1. IInv'
  BY NextIInv DEF JInv
<1>2. CASE UNCHANGED vars
  <2>1. /\ UNCHANGED <<allocated, jobVars, ghosts, queue, stack>>
        /\ creator' = creator
    BY <1>2 DEF vars, ghosts
  <2>2. Calls' = Calls
    BY <2>1 DEF Calls
  <2>3. LinksOnTop' /\ Outermost'
    BY <2>1, <2>2 DEF JInv, LinksOnTop, OnTop, Outermost
  <2>4. QED
    BY <1>1, <2>1, <2>2, <2>3, QuietStep
<1>3. ASSUME NEW w \in Workers, Client(w)
      PROVE  JInv' /\ TaskStep
  <2>1. CASE \E t \in Types, p \in {k \in Jobs : Used(k)} \cup {NoJob} : Create(w, t, p)
    BY <1>1, <2>1, CreateJ
  <2>2. CASE \E j \in Jobs : Schedule(w, j)
    BY <1>1, <2>2, ScheduleJ
  <2>3. CASE \E j \in Jobs : CallWait(w, j)
    BY <1>1, <2>3, WaitSteps
  <2>4. CASE \E j \in Jobs, d \in Jobs : ScheduleAfter(w, j, d)
    BY <1>1, <2>4, ScheduleAfterJ
  <2>5. QED
    BY <1>3, <2>1, <2>2, <2>3, <2>4 DEF Client
<1>4. ASSUME NEW w \in Workers, Internal(w)
      PROVE  JInv' /\ TaskStep
  <2>1. CASE LinkWrite(w)
    BY <1>1, <2>1, LinkWriteJ
  <2>2. CASE Return(w)
    BY <1>1, <2>2, ReturnJ
  <2>3. CASE Waiting(w)
    BY <1>1, <2>3, WaitingQuiet
  <2>4. CASE Notify(w)
    BY <1>1, <2>4, NotifySteps
  <2>5. CASE Finish(w)
    BY <1>1, <2>5, FinishJ
  <2>6. CASE Check(w)
    BY <1>1, <2>6, CheckJ
  <2>7. CASE Dependents(w)
    BY <1>1, <2>7, DependentsJ
  <2>8. CASE PopOwn(w) \/ Steal(w)
    BY <1>1, <2>8, TakeSteps
  <2>9. CASE Doze(w) \/ Sleep(w)
    BY <1>1, <2>9, WaitSteps
  <2>10. CASE Loop(w)
    BY <1>1, <2>10, LoopSteps
  <2>11. QED
    BY <1>4, <2>1, <2>2, <2>3, <2>4, <2>5, <2>6, <2>7, <2>8, <2>9, <2>10 DEF Internal
<1>5. ASSUME NEW w \in Full, SpuriousWake(w)
      PROVE  JInv' /\ TaskStep
  <2>1. w \in Workers
    BY DEF Workers
  <2>2. QED
    BY <1>1, <1>5, <2>1, WaitSteps
<1>6. CASE BeginStop \/ Stopping
  BY <1>1, <1>6, LoopSteps, NotifySteps DEF Stopping
<1>7. QED
  BY <1>2, <1>3, <1>4, <1>5, <1>6 DEF Next

(* The invariant of queues, slots, counters and calls holds in every       *)
(* behaviour of create_job, schedule, execute and finish.                  *)
THEOREM JobsInvariance ==
    ASSUME Disciplined, NoReuse
    PROVE  Spec => []JInv
<1>1. Init => JInv
  BY InitJInv
<1>2. JInv /\ [Next]_vars => JInv'
  BY NextJInv
<1>3. QED
  BY <1>1, <1>2, PTL DEF Spec

-----------------------------------------------------------------------------
(* What it implies.                                                        *)

(* A job is executed at most once, and is in one deque at most before      *)
(* that: schedule() and finish() push it once, and pop() and steal() never *)
(* give it to two workers.                                                 *)
THEOREM ExecutedOnce ==
    ASSUME Disciplined, NoReuse
    PROVE  Spec => []AtMostOnce
<1>1. ASSUME JInv PROVE AtMostOnce
  <2> SUFFICES ASSUME NEW j \in Jobs PROVE runs[j] + Cardinality(QueuePlaces(j)) <= 1
    BY DEF AtMostOnce
  <2>1. \A w \in Workers : queue[w] \in Seq(Jobs) /\ DOMAIN queue[w] = 1 .. Len(queue[w])
    BY <1>1 DEF JInv, IInv, TypeOK
  <2>2. \A p : p \in QueuePlaces(j) <=>
           \E w \in Workers : \E i \in 1 .. Len(queue[w]) : queue[w][i] = j /\ p = <<w, i>>
    BY <2>1 DEF QueuePlaces
  <2>3. runs[j] \in {0, 1} /\ QueueOnce
    BY <1>1 DEF JInv, RunsOnce
  <2>4. CASE Queued(j)
    <3>1. PICK w \in Workers : \E i \in 1 .. Len(queue[w]) : queue[w][i] = j
      BY <2>4 DEF Queued
    <3>2. PICK i \in 1 .. Len(queue[w]) : queue[w][i] = j
      BY <3>1
    <3>3. QueuePlaces(j) = {<<w, i>>}
      <4>1. \A p : p \in QueuePlaces(j) <=> p = <<w, i>>
        BY <2>2, <2>3, <3>2 DEF QueueOnce
      <4>2. QED
        BY <4>1
    <3>4. runs[j] = 0
      BY <1>1, <2>4 DEF JInv, QueuedKnown
    <3>5. Cardinality({<<w, i>>}) = 1
      BY FS_Singleton
    <3>6. QED
      BY <3>3, <3>4, <3>5
  <2>5. CASE ~Queued(j)
    <3>1. QueuePlaces(j) = {}
      BY <2>2, <2>5 DEF Queued
    <3>2. QED
      BY <2>3, <3>1, FS_EmptySet
  <2>6. QED
    BY <2>4, <2>5
<1>2. Spec => []JInv
  BY JobsInvariance
<1>3. QED
  BY <1>1, <1>2, PTL

(* A job that was given to schedule(job, dependence) does not run before   *)
(* the job it was given with is finished, on whatever worker.              *)
LEMMA StartedAfter == ASSUME JInv PROVE StartsAfterDependences
<1> SUFFICES ASSUME NEW j \in Jobs, runs[j] > 0, NEW e \in after[j]
             PROVE  unfinished[e] = 0
  BY DEF StartsAfterDependences
<1>1. runs[j] = 1 /\ life[j] = "linked"
  BY DEF JInv, RunsOnce, Linked
<1>2. PICK d \in Jobs : /\ after[j] = {d} /\ Used(d)
                        /\ Linking(d, j) \/ \E k \in Index : dependents[d][k] = j
  BY <1>1 DEF JInv, Linked
<1>3. ~Waits(j)
  BY <1>1 DEF Waits
<1>4. ~Linking(d, j)
  BY <1>3 DEF JInv, Linking, LinkCalls, LinkCall
<1>5. PICK k \in Index : dependents[d][k] = j
  BY <1>2, <1>4
<1>6. ~Unvisited(d, k)
  BY <1>3, <1>5, PoolAssumption DEF JInv, Released
<1>7. QED
  BY <1>2, <1>6 DEF Unvisited

(* A job does not start before the job it depends on is finished: neither  *)
(* schedule() nor a worker gives it to a deque before finish() visits its  *)
(* slot.                                                                   *)
THEOREM DependencesFirst ==
    ASSUME Disciplined, NoReuse
    PROVE  Spec => []StartsAfterDependences
<1>1. JInv => StartsAfterDependences
  BY StartedAfter
<1>2. Spec => []JInv
  BY JobsInvariance
<1>3. QED
  BY <1>1, <1>2, PTL

(* A job that waits for a dependence is not forgotten: it is in a deque,   *)
(* or in a slot that finish() of its dependence has yet to visit, or about *)
(* to be written to one.                                                   *)
THEOREM DependentsNotLost ==
    ASSUME Disciplined, NoReuse
    PROVE  Spec => []LinkedNotLost
<1>1. ASSUME JInv PROVE LinkedNotLost
  <2> SUFFICES ASSUME NEW j \in Jobs, life[j] = "linked", runs[j] = 0, QueuePlaces(j) = {}
               PROVE  \E d \in after[j] : AwaitsRelease(j, d)
    BY DEF LinkedNotLost
  <2>1. \A w \in Workers : DOMAIN queue[w] = 1 .. Len(queue[w])
    BY <1>1 DEF JInv, IInv, TypeOK
  <2>2. Waits(j)
    <3>1. \A w \in Workers : \A i \in 1 .. Len(queue[w]) :
             queue[w][i] = j => <<w, i>> \in QueuePlaces(j)
      BY <2>1 DEF QueuePlaces
    <3>2. QED
      BY <3>1 DEF Waits, Queued
  <2>3. PICK d \in Jobs : /\ after[j] = {d}
                          /\ Linking(d, j) \/ \E k \in Index : dependents[d][k] = j
    BY <1>1 DEF JInv, Linked
  <2>4. CASE Linking(d, j)
    <3>1. PICK c \in Calls : c[3].at = "link" /\ c[3].job = d /\ c[3].other = j
      BY <2>4 DEF Linking
    <3>2. /\ c[1] \in Workers /\ stack[c[1]] # <<>> /\ c[3] = stack[c[1]][c[2]]
          /\ c[2] = Len(stack[c[1]])
      BY <1>1, <3>1, CallPlace DEF JInv, LinksOnTop, OnTop
    <3>3. At(c[1], "link") /\ Top(c[1]).job = d /\ Top(c[1]).other = j
      BY <3>1, <3>2 DEF At, Top
    <3>4. QED
      BY <2>3, <3>2, <3>3 DEF AwaitsRelease
  <2>5. ASSUME NEW k \in Index, dependents[d][k] = j
        PROVE  AwaitsRelease(j, d)
    <3>1. Unvisited(d, k) /\ k < dependent_count[d]
      BY <1>1, <2>2, <2>5, PoolAssumption DEF JInv, Released, Slots
    <3>2. k \in 0 .. dependent_count[d] - 1
      BY <1>1, <3>1, CounterAssumption DEF JInv, IInv, TypeOK, Index
    <3>3. \A c \in Calls : /\ c[1] \in Workers /\ c[2] \in DOMAIN stack[c[1]]
                           /\ stack[c[1]][c[2]] = c[3]
      BY <1>1, CallPlace DEF JInv, IInv, TypeOK
    <3>4. \/ unfinished[d] # 0 \/ InFrame(d, {"check"})
          \/ \E w \in Workers : \E i \in DOMAIN stack[w] :
                stack[w][i].at = "dependents" /\ stack[w][i].job = d /\ stack[w][i].n <= k
      BY <3>1, <3>3 DEF Unvisited, InFrame
    <3>5. QED
      BY <2>5, <3>2, <3>4 DEF AwaitsRelease
  <2>6. QED
    BY <2>3, <2>4, <2>5
<1>2. Spec => []JInv
  BY JobsInvariance
<1>3. QED
  BY <1>1, <1>2, PTL

(* A parent is finished after its children: its 8-bit counter holds one    *)
(* for each child that is not finished, and reaches 0 when nothing is left.*)
THEOREM ChildrenFirst ==
    ASSUME Disciplined, NoReuse
    PROVE  Spec => []ParentOutlivesChildren
<1>1. ASSUME JInv PROVE ParentOutlivesChildren
  <2> SUFFICES ASSUME NEW j \in Jobs, NEW p, p = parent[j], Used(j), p # NoJob, unfinished[p] = 0
               PROVE  unfinished[j] = 0
    BY DEF ParentOutlivesChildren
  <2>1. p \in Jobs /\ Used(p)
    BY <1>1 DEF JInv, IInv, TypeOK, Parents
  <2>2. Kids(p) = {}
    BY <1>1, <2>1, AtZero
  <2>3. QED
    BY <2>2 DEF Kids
<1>2. Spec => []JInv
  BY JobsInvariance
<1>3. QED
  BY <1>1, <1>2, PTL

(* Once finished, a job stays finished: only create_job and finish() write *)
(* a counter, and neither that of a finished job.                          *)
THEOREM FinishedJobsStay ==
    ASSUME Disciplined, NoReuse
    PROVE  Spec => FinishedStays
<1>1. ASSUME JInv, TaskStep, NEW j \in Jobs, Used(j), unfinished[j] = 0
      PROVE  unfinished'[j] = 0
  <2>1. CASE \E k \in Jobs : \E p \in Jobs \cup {NoJob} : Creates(k, p)
    BY <1>1, <2>1, PoolAssumption DEF Creates
  <2>2. CASE \E k \in Jobs : Finishes(k)
    BY <1>1, <2>2 DEF Finishes
  <2>3. CASE UNCHANGED unfinished
    BY <1>1, <2>3
  <2>4. QED
    BY <1>1, <2>1, <2>2, <2>3 DEF TaskStep, Steady, Queues, Begins, Starts, Links, Returns
<1>2. JInv /\ [Next]_vars =>
        [\A j \in Jobs : Used(j) /\ runs[j] > 0 /\ unfinished[j] = 0
             => unfinished'[j] = 0 \/ runs'[j] = 0]_vars
  BY <1>1, NextJInv
<1>3. Spec => []JInv
  BY JobsInvariance
<1>4. QED
  BY <1>2, <1>3, PTL DEF Spec, FinishedStays

-----------------------------------------------------------------------------
(* Nobody waits in vain: for what is not finished, something is left to be *)
(* done.                                                                   *)

(* What schedule(job) was called for is in a deque until it is entered.    *)
ScheduledQueued == \A j \in Jobs : life[j] = "scheduled" /\ runs[j] = 0 => Queued(j)

WorkLeftFor(j) ==
    \/ QueuePlaces(j) # {} \/ InFrame(j, {"code", "finish"})
    \/ \E k \in Jobs : /\ Used(k) /\ parent[k] = j
                       /\ unfinished[k] # 0 \/ InFrame(k, {"check"})
    \/ \E d \in after[j] : AwaitsRelease(j, d)
WorkLeft ==
    \A j \in Jobs : life[j] \in {"scheduled", "linked"} /\ unfinished[j] # 0 => WorkLeftFor(j)

(* The deques change in three ways: push, pop and steal.                   *)
Pushed == \E w \in Workers, j \in Jobs : queue' = [queue EXCEPT ![w] = Append(@, j)]
TakenFrom(w, i, rest) ==
    /\ i \in 1 .. Len(queue[w]) /\ queue' = [queue EXCEPT ![w] = rest]
    /\ runs' = [runs EXCEPT ![queue[w][i]] = @ + 1]
Taken ==
    \E w \in Workers : \/ queue[w] # <<>> /\ TakenFrom(w, 1, Tail(queue[w]))
                       \/ TakenFrom(w, Len(queue[w]), SubSeq(queue[w], 1, Len(queue[w]) - 1))

LEMMA QueueType ==
    ASSUME JInv, NEW w \in Workers
    PROVE  /\ queue[w] \in Seq(Jobs) /\ Len(queue[w]) \in Nat /\ queue \in [Workers -> Seq(Jobs)]
           /\ \A i \in 1 .. Len(queue[w]) : queue[w][i] \in Jobs
           /\ queue[w] # <<>> => Len(queue[w]) \in Nat \ {0} /\ Head(queue[w]) = queue[w][1]
<1>1. queue \in [Workers -> Seq(Jobs)] /\ queue[w] \in Seq(Jobs)
  BY DEF JInv, IInv, TypeOK
<1>2. QED
  BY <1>1, LenProperties, ElementOfSeq, EmptySeq

LEMMA QueueChange ==
    ASSUME JInv, [Next]_vars
    PROVE  UNCHANGED queue \/ Pushed \/ Taken
<1>1. ASSUME NEW w \in Workers, Client(w)
      PROVE  UNCHANGED queue \/ Pushed
  <2>1. ASSUME NEW j \in Jobs, Schedule(w, j) PROVE UNCHANGED queue \/ Pushed
    BY <2>1 DEF Schedule, MyQueue, Pushed
  <2>2. QED
    BY <1>1, <2>1 DEF Client, Create, CallWait, ScheduleAfter
<1>2. ASSUME NEW w \in Workers, Dependents(w)
      PROVE  UNCHANGED queue \/ Pushed
  <2> SUFFICES ASSUME NEW j, j = Top(w).job, NEW i, i = Top(w).n, NEW d, d = dependents[j][i]
               PROVE  UNCHANGED queue \/ Pushed
    OBVIOUS
  <2>1. i < dependent_count[j] => d \in Jobs \cup {NoJob}
    <3>1. j \in Jobs /\ i \in Nat
      BY <1>2, HereCall, CallJob DEF Dependents, Active, JInv, CallKnown, GoodFrame
    <3>2. dependent_count[j] \in 0 .. MaxDependents - 1
      BY <3>1 DEF JInv, IInv, TypeOK
    <3>3. i < dependent_count[j] => i \in Index
      BY <3>1, <3>2, CounterAssumption DEF Index
    <3>4. QED
      BY <3>1, <3>3, SlotType DEF JInv
  <2>2. QED
    BY <1>2, <2>1 DEF Dependents, MyQueue, Pushed
<1>3. ASSUME NEW w \in Workers, PopOwn(w) PROVE UNCHANGED queue \/ Taken
  <2>1. CASE /\ queue[w] # <<>> /\ Enter(w, Head(queue[w]))
             /\ queue' = [queue EXCEPT ![w] = Tail(@)]
    <3>1. 1 \in 1 .. Len(queue[w]) /\ Head(queue[w]) = queue[w][1]
      BY <2>1, QueueType
    <3>2. TakenFrom(w, 1, Tail(queue[w]))
      BY <2>1, <3>1 DEF TakenFrom, Enter
    <3>3. QED
      BY <2>1, <3>2 DEF Taken
  <2>2. QED
    BY <1>3, <2>1 DEF PopOwn, Popped
<1>4. ASSUME NEW w \in Workers, NEW v \in Workers, StealFrom(w, v) PROVE Taken
  <2>1. Len(queue[v]) \in 1 .. Len(queue[v])
    BY <1>4, QueueType DEF StealFrom
  <2>2. TakenFrom(v, Len(queue[v]), SubSeq(queue[v], 1, Len(queue[v]) - 1))
    BY <1>4, <2>1 DEF StealFrom, TakenFrom, Enter, Stolen
  <2>3. QED
    BY <2>2 DEF Taken
<1>5. ASSUME NEW w \in Workers, Steal(w) PROVE UNCHANGED queue \/ Taken
  <2>1. Main \in Workers
    BY DEF Workers
  <2>2. QED
    BY <1>4, <1>5, <2>1 DEF Steal
<1>6. ASSUME NEW w \in Workers, Internal(w)
      PROVE  UNCHANGED queue \/ Pushed \/ Taken
  BY <1>2, <1>3, <1>5, <1>6
     DEF Internal, LinkWrite, Return, Waiting, Notify, Finish, Check, Doze, Sleep, Loop
<1>7. QED
  BY <1>1, <1>6 DEF Next, SpuriousWake, BeginStop, Stopping, StopWorker, NotifyAll, EndStop, vars

(* Whoever leaves a deque is entered.                                      *)
LEMMA QueueKeeps ==
    ASSUME JInv, [Next]_vars, NEW k \in Jobs, Queued(k)
    PROVE  Queued(k)' \/ runs'[k] # 0
<1>1. PICK v \in Workers : \E i \in 1 .. Len(queue[v]) : queue[v][i] = k
  BY DEF Queued
<1>2. PICK i \in 1 .. Len(queue[v]) : queue[v][i] = k
  BY <1>1
<1>3. CASE UNCHANGED queue
  BY <1>3 DEF Queued
<1>4. ASSUME NEW w \in Workers, NEW j \in Jobs, queue' = [queue EXCEPT ![w] = Append(@, j)]
      PROVE  Queued(k)'
  <2>1. i \in 1 .. Len(queue'[v]) /\ queue'[v][i] = k
    <3>1. CASE v # w
      BY <1>2, <1>4, <3>1, QueueType
    <3>2. CASE v = w
      <4>1. queue'[v] = Append(queue[v], j)
        BY <1>4, <3>2, QueueType
      <4>2. QED
        BY <1>2, <4>1, QueueType, AppendProperties
    <3>3. QED
      BY <3>1, <3>2
  <2>2. QED
    BY <2>1 DEF Queued
<1>5. ASSUME NEW w \in Workers, NEW n, NEW rest, NEW o \in {0, 1}, TakenFrom(w, n, rest),
             Len(rest) = Len(queue[w]) - 1, \A m \in 1 .. Len(rest) : rest[m] = queue[w][m + o],
             n = IF o = 1 THEN 1 ELSE Len(queue[w])
      PROVE  Queued(k)' \/ runs'[k] # 0
  <2>1. CASE v # w
    <3>1. queue'[v] = queue[v]
      BY <1>5, <2>1, QueueType DEF TakenFrom
    <3>2. QED
      BY <1>2, <3>1 DEF Queued
  <2>2. CASE v = w /\ i = n
    <3>1. runs' = [runs EXCEPT ![k] = @ + 1] /\ runs \in [Jobs -> Nat]
      BY <1>2, <1>5, <2>2 DEF TakenFrom, JInv, IInv, TypeOK
    <3>2. QED
      BY <3>1
  <2>3. CASE v = w /\ i # n
    <3>1. i - o \in 1 .. Len(rest) /\ (i - o) + o = i
      BY <1>2, <1>5, <2>3, QueueType
    <3>2. queue'[v] = rest /\ rest[i - o] = k
      <4>1. queue'[v] = rest
        BY <1>5, <2>3, QueueType DEF TakenFrom
      <4>2. rest[i - o] = queue[w][(i - o) + o]
        BY <1>5, <3>1
      <4>3. QED
        BY <1>2, <2>3, <3>1, <4>1, <4>2
    <3>3. QED
      BY <3>1, <3>2 DEF Queued
  <2>4. QED
    BY <2>1, <2>2, <2>3
<1>6. ASSUME NEW w \in Workers, queue[w] # <<>>, TakenFrom(w, 1, Tail(queue[w]))
      PROVE  Queued(k)' \/ runs'[k] # 0
  <2> DEFINE rest == Tail(queue[w])
  <2>1. Len(rest) = Len(queue[w]) - 1 /\ \A m \in 1 .. Len(rest) : rest[m] = queue[w][m + 1]
    BY <1>6, QueueType, HeadTailProperties
  <2>2. TakenFrom(w, 1, rest)
    BY <1>6
  <2> HIDE DEF rest
  <2>3. 1 \in {0, 1} /\ 1 = IF 1 = 1 THEN 1 ELSE Len(queue[w])
    OBVIOUS
  <2>4. QED
    BY <1>5, <2>1, <2>2, <2>3
<1>7. ASSUME NEW w \in Workers,
             TakenFrom(w, Len(queue[w]), SubSeq(queue[w], 1, Len(queue[w]) - 1))
      PROVE  Queued(k)' \/ runs'[k] # 0
  <2> DEFINE n == Len(queue[w])
             m == n - 1
             rest == SubSeq(queue[w], 1, m)
  <2>1. n \in Nat \ {0}
    BY <1>7, QueueType DEF TakenFrom
  <2>2. m \in Nat /\ m = n - 1 /\ \A a \in 1 .. m : queue[w][a] \in Jobs
    BY <2>1, QueueType
  <2>3. TakenFrom(w, n, rest)
    BY <1>7
  <2> HIDE DEF m
  <2>4. /\ Len(rest) = IF 1 <= m THEN m - 1 + 1 ELSE 0
        /\ \A a \in 1 .. m - 1 + 1 : rest[a] = queue[w][1 + a - 1]
    BY <2>2, SubSeqProperties
  <2> HIDE DEF rest, n
  <2>5. Len(rest) = m /\ \A a \in 1 .. m : rest[a] = queue[w][a + 0]
    BY <2>2, <2>4
  <2>6. 0 \in {0, 1} /\ n = IF 0 = 1 THEN 1 ELSE Len(queue[w])
    BY DEF n
  <2>7. Len(rest) = Len(queue[w]) - 1
    BY <2>2, <2>5 DEF n
  <2>8. QED
    BY <1>5, <2>3, <2>5, <2>6, <2>7
<1>8. QED
  BY <1>3, <1>4, <1>6, <1>7, QueueChange DEF Pushed, Taken

LEMMA ScheduledStep ==
    ASSUME Disciplined, NoReuse, JInv, ScheduledQueued, [Next]_vars
    PROVE  ScheduledQueued'
<1>1. TaskStep
  BY NextJInv
<1>2. ASSUME NEW k \in Jobs, life[k] = "scheduled" /\ runs[k] = 0, runs'[k] = 0
      PROVE  Queued(k)'
  BY <1>2, QueueKeeps DEF ScheduledQueued
<1>3. ASSUME NEW k \in Jobs, life'[k] = "scheduled", runs'[k] = 0
      PROVE  Queued(k)'
  <2>1. CASE life[k] = "scheduled" /\ runs[k] = 0
    BY <1>2, <1>3, <2>1
  <2>2. ASSUME NEW j \in Jobs, Starts(j) PROVE Queued(k)'
    BY <1>2, <1>3, <2>2 DEF Starts
  <2>3. ASSUME NEW j \in Jobs, Creates(j, NoJob) \/ \E p \in Jobs : Creates(j, p)
        PROVE  life[k] = "scheduled" /\ runs[k] = 0
    BY <1>3, <2>3 DEF Creates
  <2>4. ASSUME NEW j \in Jobs, NEW d \in Jobs, Links(j, d)
        PROVE  life[k] = "scheduled" /\ runs[k] = 0
    BY <1>3, <2>4 DEF Links
  <2>5. CASE UNCHANGED <<life, runs>>
    BY <1>3, <2>1, <2>5
  <2>6. QED
    BY <1>1, <2>1, <2>2, <2>3, <2>4, <2>5 DEF TaskStep, Steady, Queues, Begins, Returns, Finishes
<1>4. QED
  BY <1>3 DEF ScheduledQueued

(* wait(job) never waits for nothing: as long as a job that was scheduled  *)
(* is not finished, it is in a deque, its body or a decrement of its       *)
(* counter is in progress, a child of it is not finished, or a dependence  *)
(* has yet to release it (schedule, wait, finish).                         *)
THEOREM NobodyWaitsInVain ==
    ASSUME Disciplined, NoReuse
    PROVE  Spec => []WorkLeft
<1>1. Init => ScheduledQueued
  BY DEF Init, ScheduledQueued
<1>2. JInv /\ ScheduledQueued /\ [Next]_vars => ScheduledQueued'
  BY ScheduledStep
<1>3. ASSUME JInv, ScheduledQueued, LinkedNotLost PROVE WorkLeft
  <2> SUFFICES ASSUME NEW j \in Jobs, life[j] \in {"scheduled", "linked"}, unfinished[j] # 0
               PROVE  WorkLeftFor(j)
    BY DEF WorkLeft
  <2>1. \A c \in Calls : /\ c[1] \in Workers /\ c[2] \in DOMAIN stack[c[1]]
                         /\ stack[c[1]][c[2]] = c[3]
    BY <1>3, CallPlace DEF JInv, IInv, TypeOK
  <2>2. CASE runs[j] = 0 /\ life[j] = "scheduled"
    <3>1. PICK w \in Workers : \E i \in 1 .. Len(queue[w]) : queue[w][i] = j
      BY <1>3, <2>2 DEF ScheduledQueued, Queued
    <3>2. DOMAIN queue[w] = 1 .. Len(queue[w])
      BY <1>3, QueueType, LenProperties
    <3>3. PICK i \in DOMAIN queue[w] : queue[w][i] = j
      BY <3>1, <3>2
    <3>4. <<w, i>> \in QueuePlaces(j)
      BY <3>3 DEF QueuePlaces
    <3>5. QED
      BY <3>4 DEF WorkLeftFor
  <2>3. CASE runs[j] = 0 /\ life[j] = "linked"
    BY <1>3, <2>3 DEF LinkedNotLost, WorkLeftFor
  <2>4. CASE runs[j] # 0
    <3>1. Used(j)
      BY DEF Used
    <3>2. Cardinality(Bodies(j)) # 0 \/ Cardinality(Kids(j)) # 0
      BY <1>3, <2>4, <3>1, Finite DEF Own
    <3>3. Bodies(j) # {} \/ Kids(j) # {}
      BY <3>2, FS_EmptySet
    <3>4. CASE Bodies(j) # {}
      <4>1. PICK c \in Calls : c[3].at \in {"code", "finish"} /\ c[3].job = j
        BY <3>4 DEF Bodies
      <4>2. InFrame(j, {"code", "finish"})
        BY <2>1, <4>1 DEF InFrame
      <4>3. QED
        BY <4>2 DEF WorkLeftFor
    <3>5. CASE Kids(j) # {}
      <4>1. PICK k \in Jobs : Used(k) /\ parent[k] = j /\ (unfinished[k] # 0 \/ Checked(k))
        BY <3>5 DEF Kids
      <4>2. Checked(k) => InFrame(k, {"check"})
        BY <2>1 DEF Checked, InFrame
      <4>3. QED
        BY <4>1, <4>2 DEF WorkLeftFor
    <3>6. QED
      BY <3>3, <3>4, <3>5
  <2>5. QED
    BY <2>2, <2>3, <2>4
<1>4. Spec => []JInv
  BY JobsInvariance
<1>5. Spec => []LinkedNotLost
  BY DependentsNotLost
<1>6. QED
  BY <1>1, <1>2, <1>3, <1>4, <1>5, PTL DEF Spec

-----------------------------------------------------------------------------
(* The job system implements Tasks.                                        *)

(* The state of a job for its clients.                                     *)
View(j) ==
    IF ~Used(j) THEN "unused"
    ELSE IF unfinished[j] = 0 THEN "done"
    ELSE IF runs[j] = 0 THEN IF life[j] = "fresh" THEN "created" ELSE "scheduled"
    ELSE IF Running(j) THEN "running" ELSE "returned"

Views == [j \in Jobs |-> StateOf(j)]

LEMMA ViewState == JInv => Views = [j \in Jobs |-> View(j)]
<1> SUFFICES ASSUME JInv, NEW j \in Jobs PROVE StateOf(j) = View(j)
  BY DEF Views
<1>1. InFrame(j, {"code"}) <=> Running(j)
  <2>1. stack \in [Workers -> Seq(Frames)]
    BY DEF JInv, IInv, TypeOK
  <2>2. \A w \in Workers : DOMAIN stack[w] = 1 .. Len(stack[w])
    BY <2>1
  <2>3. ASSUME Running(j) PROVE InFrame(j, {"code"})
    <3>1. PICK c \in Calls : c[3].at = "code" /\ c[3].job = j
      BY <2>3 DEF Running
    <3>2. c[1] \in Workers /\ c[2] \in DOMAIN stack[c[1]] /\ stack[c[1]][c[2]] = c[3]
      BY <2>2, CallPlace DEF JInv
    <3>3. QED
      BY <3>1, <3>2 DEF InFrame
  <2>4. ASSUME InFrame(j, {"code"}) PROVE Running(j)
    <3>1. PICK w \in Workers : \E i \in 1 .. Len(stack[w]) :
             stack[w][i].at = "code" /\ stack[w][i].job = j
      BY <2>2, <2>4 DEF InFrame
    <3>2. PICK i \in 1 .. Len(stack[w]) : stack[w][i].at = "code" /\ stack[w][i].job = j
      BY <3>1
    <3>3. stack[w][i] \in Frames /\ i \in Nat
      BY <2>1, ElementOfSeq
    <3>4. <<w, i, stack[w][i]>> \in Calls
      BY <3>2, <3>3 DEF Calls, Active
    <3>5. QED
      BY <3>2, <3>4 DEF Running
  <2>5. QED
    BY <2>3, <2>4
<1>2. QED
  BY <1>1 DEF StateOf, View

LEMMA ViewStep == JInv' => (Views = [j \in Jobs |-> View(j)])'
BY ViewState, PTL

(* AtZero and StartedAfter for the state a step leads to.                  *)
LEMMA DoneStep ==
    JInv' => (\A j \in Jobs : Used(j) /\ unfinished[j] = 0
                                  => runs[j] = 1 /\ Bodies(j) = {} /\ Kids(j) = {})'
<1>1. JInv => \A j \in Jobs : Used(j) /\ unfinished[j] = 0
                                  => runs[j] = 1 /\ Bodies(j) = {} /\ Kids(j) = {}
  BY AtZero
<1>2. QED
  BY <1>1, PTL

LEMMA BegunStep == JInv' => StartsAfterDependences'
<1>1. JInv => StartsAfterDependences
  BY StartedAfter
<1>2. QED
  BY <1>1, PTL

(* A step that changes the state of one job.                               *)
LEMMA ViewReach ==
    ASSUME JInv, JInv', NEW t \in Jobs, NEW v, View(t)' = v,
           \A k \in Jobs : k # t => View(k)' = View(k)
    PROVE  Promised!Reach(t, v)
<1>1. Views = [j \in Jobs |-> View(j)] /\ Views' = [j \in Jobs |-> View(j)']
  BY ViewState, ViewStep
<1>2. Views' = [Views EXCEPT ![t] = v]
  BY <1>1
<1>3. QED
  BY <1>2 DEF Promised!Reach, Views

LEMMA ViewStutter ==
    ASSUME JInv, JInv', \A k \in Jobs : View(k)' = View(k), UNCHANGED <<after, parent>>
    PROVE  UNCHANGED Promised!tasks
<1>1. Views = [j \in Jobs |-> View(j)] /\ Views' = [j \in Jobs |-> View(j)']
  BY ViewState, ViewStep
<1>2. Views' = Views
  BY <1>1
<1>3. QED
  BY <1>2 DEF Promised!tasks, Views

(* One task takes a step of Tasks.                                         *)
LEMMA ViewNext ==
    ASSUME JInv, JInv', NEW t \in Jobs, View(t)' # View(t),
           \/ Promised!CreateTask(t) \/ Promised!ScheduleTask(t) \/ Promised!RunTask(t)
           \/ Promised!LinkTask(t) \/ Promised!BeginTask(t) \/ Promised!ReturnTask(t)
           \/ Promised!CompleteTask(t)
    PROVE  Promised!TasksNext
<1>1. Views[t] = View(t) /\ Views'[t] = View(t)'
  BY ViewState, ViewStep
<1>2. QED
  BY <1>1 DEF Promised!TasksNext, Views

LEMMA StateView == JInv => \A j \in Jobs : StateOf(j) = View(j)
BY ViewState DEF Views

LEMMA Unfinished ==
    ASSUME JInv, NEW j \in Jobs, Used(j), runs[j] = 0 \/ Running(j)
    PROVE  unfinished[j] # 0
<1>1. Running(j) => Bodies(j) # {}
  BY DEF Running, Bodies
<1>2. QED
  BY <1>1, AtZero

LEMMA CreateRefines ==
    ASSUME JInv, JInv', NEW j \in Jobs, NEW p \in Jobs \cup {NoJob}, Creates(j, p)
    PROVE  Promised!TasksNext
<1>1. /\ ~Used(j) /\ p # j /\ (p \in Jobs => Used(p) /\ unfinished[p] # 0) /\ runs'[j] = 0
      /\ life'[j] = "fresh" /\ unfinished'[j] = 1
  BY PoolAssumption DEF Creates
<1>2. View(j) = "unused" /\ View(j)' = "created"
  BY <1>1 DEF View, Used
<1>3. \A k \in Jobs : k # j => View(k)' = View(k)
  <2> SUFFICES ASSUME NEW k \in Jobs, k # j PROVE View(k)' = View(k)
    OBVIOUS
  <2>1. life'[k] = life[k] /\ runs'[k] = runs[k] /\ (Running(k)' <=> Running(k))
    BY DEF Creates, SameRunning
  <2>2. unfinished'[k] = 0 <=> unfinished[k] = 0
    <3>1. unfinished[k] \in 0 .. CounterSize - 1
      BY DEF JInv, IInv, TypeOK
    <3>2. QED
      BY <1>1, <3>1, CounterAssumption DEF Creates
  <2>3. QED
    BY <2>1, <2>2 DEF View, Used
<1>4. Promised!Reach(j, "created")
  BY <1>2, <1>3, ViewReach
<1>5. after' = [after EXCEPT ![j] = {}] /\ parent' = [parent EXCEPT ![j] = p]
  <2>1. /\ after = [k \in Jobs |-> after[k]] /\ after' = [k \in Jobs |-> after'[k]]
        /\ parent = [k \in Jobs |-> parent[k]] /\ parent' = [k \in Jobs |-> parent'[k]]
    BY DEF JInv, IInv, TypeOK
  <2>2. /\ \A k \in Jobs : after'[k] = IF k = j THEN {} ELSE after[k]
        /\ \A k \in Jobs : parent'[k] = IF k = j THEN p ELSE parent[k]
    BY DEF Creates
  <2>3. QED
    BY <2>1, <2>2
<1>6. \A k \in Jobs : StateOf(k) = View(k)
  BY StateView
<1>7. p \in {q \in Jobs \ {j} : ~Promised!Free(q)} \cup {NoJob}
  <2>1. p \in Jobs => View(p) \notin {"unused", "done"}
    BY <1>1 DEF View
  <2>2. QED
    BY <1>1, <1>6, <2>1 DEF Promised!Free
<1>8. Promised!Free(j)
  BY <1>2, <1>6 DEF Promised!Free
<1>9. Promised!CreateTask(j)
  BY <1>4, <1>5, <1>7, <1>8 DEF Promised!CreateTask
<1>10. QED
  BY <1>2, <1>9, ViewNext

LEMMA LinkRefines ==
    ASSUME JInv, JInv', NEW j \in Jobs, NEW d \in Jobs, Links(j, d)
    PROVE  Promised!TasksNext
<1>1. /\ Used(j) /\ runs[j] = 0 /\ unfinished[j] # 0 /\ life'[j] = "linked"
      /\ runs'[j] = 0 /\ unfinished'[j] # 0
  <2>1. Used(j) /\ runs[j] = 0 /\ life'[j] = "linked"
    BY DEF Links, Used, JInv, RunsOnce
  <2>2. unfinished[j] # 0
    BY <2>1, Unfinished
  <2>3. QED
    BY <2>1, <2>2 DEF Links
<1>2. View(j) = "created" /\ View(j)' = "scheduled"
  BY <1>1 DEF View, Used, Links
<1>3. \A k \in Jobs : k # j => View(k)' = View(k)
  BY DEF View, Used, Links, SameRunning
<1>4. Promised!Reach(j, "scheduled")
  BY <1>2, <1>3, ViewReach
<1>5. after' = [after EXCEPT ![j] = {d}]
  <2>1. after = [k \in Jobs |-> after[k]] /\ after' = [k \in Jobs |-> after'[k]]
    BY DEF JInv, IInv, TypeOK
  <2>2. \A k \in Jobs : after'[k] = IF k = j THEN {d} ELSE after[k]
    BY DEF Links
  <2>3. QED
    BY <2>1, <2>2
<1>6. \A k \in Jobs : StateOf(k) = View(k)
  BY StateView
<1>7. d \in Jobs \ {j} /\ View(d) # "unused"
  BY DEF Links, View
<1>8. Promised!LinkTask(j)
  BY <1>2, <1>4, <1>5, <1>6, <1>7 DEF Promised!LinkTask, Links
<1>9. QED
  BY <1>2, <1>8, ViewNext

LEMMA StartRefines ==
    ASSUME JInv, JInv', NEW j \in Jobs, Queues(j) \/ Begins(j)
    PROVE  [Promised!TasksNext]_(Promised!tasks)
<1>1. /\ Starts(j) /\ Used(j) /\ runs[j] = 0 /\ UNCHANGED <<unfinished, after, parent>>
  BY DEF Queues, Begins, Starts
<1>2. unfinished[j] # 0 /\ unfinished'[j] # 0
  BY <1>1, Unfinished
<1>3. View(j) = IF life[j] = "fresh" THEN "created" ELSE "scheduled"
  BY <1>1, <1>2 DEF View
<1>4. \A k \in Jobs : k # j => View(k)' = View(k)
  BY <1>1 DEF View, Used, Starts, Queues, Begins, SameRunning
<1>5. \A k \in Jobs : StateOf(k) = View(k)
  BY StateView
<1>6. CASE Queues(j)
  <2>1. View(j)' = "scheduled"
    BY <1>1, <1>2, <1>6 DEF View, Used, Starts, Queues
  <2>2. CASE life[j] = "fresh"
    <3>1. Promised!ScheduleTask(j)
      BY <1>1, <1>3, <1>4, <1>5, <2>1, <2>2, ViewReach DEF Promised!ScheduleTask
    <3>2. QED
      BY <1>3, <2>1, <2>2, <3>1, ViewNext
  <2>3. CASE life[j] # "fresh"
    BY <1>1, <1>3, <1>4, <2>1, <2>3, ViewStutter
  <2>4. QED
    BY <2>2, <2>3
<1>7. CASE Begins(j)
  <2>1. View(j)' = "running"
    BY <1>1, <1>2, <1>7 DEF View, Used, Starts, Begins
  <2>2. Promised!Reach(j, "running")
    BY <1>4, <2>1, ViewReach
  <2>3. CASE life[j] = "fresh"
    <3>1. Promised!RunTask(j)
      BY <1>1, <1>3, <1>5, <2>2, <2>3 DEF Promised!RunTask
    <3>2. QED
      BY <1>3, <2>1, <2>3, <3>1, ViewNext
  <2>4. CASE life[j] # "fresh"
    <3>1. \A e \in after[j] : e \in Jobs /\ Used(e)
      BY DEF JInv, Linked
    <3>2. \A e \in after[j] : unfinished[e] = 0
      <4>1. StartsAfterDependences'
        BY BegunStep
      <4>2. runs'[j] > 0
        BY <1>7 DEF Begins
      <4>3. QED
        BY <1>1, <4>1, <4>2 DEF StartsAfterDependences
    <3>3. Promised!Done(after[j])
      BY <1>5, <3>1, <3>2 DEF Promised!Done, View
    <3>4. Promised!BeginTask(j)
      BY <1>1, <1>3, <1>5, <2>2, <2>4, <3>3 DEF Promised!BeginTask
    <3>5. QED
      BY <1>3, <2>1, <2>4, <3>4, ViewNext
  <2>5. QED
    BY <2>3, <2>4
<1>8. QED
  BY <1>6, <1>7

LEMMA ReturnRefines ==
    ASSUME JInv, JInv', NEW j \in Jobs, Returns(j)
    PROVE  Promised!TasksNext
<1>1. unfinished[j] # 0
  BY Unfinished DEF Returns
<1>2. View(j) = "running" /\ View(j)' = "returned"
  BY <1>1 DEF View, Used, Returns
<1>3. \A k \in Jobs : k # j => View(k)' = View(k)
  BY DEF View, Used, Returns
<1>4. Promised!ReturnTask(j)
  BY <1>2, <1>3, StateView, ViewReach DEF Promised!ReturnTask, Returns
<1>5. QED
  BY <1>2, <1>4, ViewNext

(* The last decrement of a counter completes the job: its body has         *)
(* returned, and its children are done.                                    *)
LEMMA FinishRefines ==
    ASSUME JInv, JInv', NEW j \in Jobs, Finishes(j)
    PROVE  [Promised!TasksNext]_(Promised!tasks)
<1>1. \A k \in Jobs : k # j => View(k)' = View(k)
  BY DEF View, Used, Finishes, SameRunning
<1>2. CASE unfinished'[j] # 0
  <2>1. View(j)' = View(j)
    BY <1>2 DEF View, Used, Finishes, SameRunning
  <2>2. QED
    BY <1>1, <2>1, ViewStutter DEF Finishes
<1>3. CASE unfinished'[j] = 0
  <2>1. runs'[j] = 1 /\ Bodies(j)' = {} /\ Kids(j)' = {}
    BY <1>3, DoneStep DEF Used, Finishes
  <2>2. runs[j] = 1 /\ ~Running(j)
    <3>1. ~Running(j)'
      BY <2>1 DEF Running, Bodies
    <3>2. QED
      BY <2>1, <3>1 DEF Finishes, SameRunning
  <2>3. View(j) = "returned" /\ View(j)' = "done"
    BY <1>3, <2>2 DEF View, Used, Finishes
  <2>4. ASSUME NEW c \in Jobs, parent[c] = j PROVE View(c) = "done"
    <3>1. Used(c) /\ c # j
      BY <2>4, PoolAssumption DEF JInv, Unused, Parents, Leaf
    <3>2. unfinished'[c] = 0
      BY <2>1, <2>4, <3>1 DEF Kids, Used, Finishes
    <3>3. unfinished[c] = 0
      BY <3>1, <3>2 DEF Finishes
    <3>4. QED
      BY <3>1, <3>3 DEF View
  <2>5. \A k \in Jobs : StateOf(k) = View(k)
    BY StateView
  <2>6. Promised!Done(Promised!Parts(j))
    BY <2>4, <2>5 DEF Promised!Done, Promised!Parts
  <2>7. Promised!Reach(j, "done")
    BY <1>1, <2>3, ViewReach
  <2>8. Promised!CompleteTask(j)
    BY <2>3, <2>5, <2>6, <2>7 DEF Promised!CompleteTask, Finishes
  <2>9. QED
    BY <2>3, <2>8, ViewNext
<1>4. QED
  BY <1>2, <1>3

(* The job system does what Tasks allows and no more: a job is begun once, *)
(* after its dependences, and done when its body has returned and its      *)
(* children are done (create_job, schedule, execute, finish).              *)
THEOREM RefinesTasks ==
    ASSUME Disciplined, NoReuse
    PROVE  Spec => ImplementsTasks
<1>1. Init => Promised!TasksInit
  <2> SUFFICES ASSUME Init PROVE Promised!TasksInit
    OBVIOUS
  <2>1. \A j \in Jobs : StateOf(j) = "unused"
    BY DEF Init, StateOf, Used
  <2>2. QED
    BY <2>1 DEF Init, Promised!TasksInit
<1>2. ASSUME JInv, [Next]_vars PROVE [Promised!TasksNext]_(Promised!tasks)
  <2>1. JInv' /\ TaskStep
    BY <1>2, NextJInv
  <2>2. CASE Steady
    <3>1. \A k \in Jobs : View(k)' = View(k)
      BY <2>2 DEF Steady, SameRunning, View, Used
    <3>2. QED
      BY <1>2, <2>1, <2>2, <3>1, ViewStutter DEF Steady
  <2>3. QED
    BY <1>2, <2>1, <2>2, CreateRefines, LinkRefines, StartRefines, ReturnRefines, FinishRefines
       DEF TaskStep
<1>3. JInv /\ [Next]_vars => [Promised!TasksNext]_(Promised!tasks)
  BY <1>2
<1>4. Spec => []JInv
  BY JobsInvariance
<1>5. QED
  BY <1>1, <1>3, <1>4, PTL DEF Spec, ImplementsTasks, Promised!TasksSpec
=============================================================================
