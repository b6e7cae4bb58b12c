------------------------ MODULE HandlerRuntimeProofs ------------------------
(* The runtime of the handlers is well formed for every program, every      *)
(* number of tasks and messages and every list of excuses: no handler can   *)
(* bring it to a state in which a task that could run is forgotten, one is  *)
(* queued twice or runs while it waits, an async call is given the place of *)
(* one that still runs, a read is outstanding on a dead socket, or a wait   *)
(* has an outcome that the code after it does not know.                     *)
(*                                                                         *)
(* Nothing is assumed of the steps of a handler, so the argument is about   *)
(* the tasks and the queue alone: a step changes the task at the head of    *)
(* the queue, and tasks that cannot run; it keeps its place unless it ends  *)
(* or waits.                                                                *)
EXTENDS HandlerRuntime, TLAPS, WellFoundedInduction

IsWait(w) ==
  \/ w = NoWait
  \/ /\ w = [op |-> w.op, on |-> w.on, out |-> w.out, of |-> w.of, by |-> w.by]
     /\ w.op # "none" /\ w.of \subseteq Ids /\ w.by \in 0..MaxTasks

IsTask(k) ==
  /\ k = [stack |-> k.stack, wait |-> k.wait, got |-> k.got, state |-> k.state, kind |-> k.kind]
  /\ IsWait(k.wait)
  /\ k.got \in {"data", "end", "null"}
  /\ k.state \in {"free", "running", "returned", "threw"}
  /\ k.kind \in {"call", "stray", "loose"}
  /\ k.state # "running" => k.stack = << >> /\ k.wait = NoWait

AreTasks(ts) == ts = [t \in Ids |-> ts[t]] /\ \A t \in Ids : IsTask(ts[t])

(* The queue holds the tasks of R, each once. *)
QueueIs(q, R) ==
  /\ q \in Seq(Ids)
  /\ \A t \in Ids : t \in R <=> \E i \in 1..Len(q) : q[i] = t
  /\ \A i, j \in 1..Len(q) : q[i] = q[j] => i = j

Ready(ts) == {t \in Ids : Runs(ts[t])}

Machine(ts, q) == AreTasks(ts) /\ QueueIs(q, Ready(ts))

IsSlot(slot) == slot \in SlotType /\ (slot.lost => Live(slot))
AreSlots(ss) == ss = [s \in DOMAIN ss |-> ss[s]] /\ \A s \in DOMAIN ss : IsSlot(ss[s])

AreNames(b) == b = [n \in DOMAIN b |-> b[n]] /\ \A n \in DOMAIN b : b[n] \in Ids

IsPage(p) ==
  /\ p = [ws |-> p.ws, given |-> p.given, shut |-> p.shut, heard |-> p.heard, typed |-> p.typed]
  /\ p.ws \in {"none", "open", "left"} /\ p.typed \in 0..MaxMessages
  /\ p.ws = "left" => p.given

IInv ==
  /\ excused \subseteq DOMAIN Excuses
  /\ Machine(tasks, cpu)
  /\ AreSlots(slots)
  /\ AreNames(bound)
  /\ IsPage(page)

(* The names tell the async calls apart, and the handler is none of them:   *)
(* it is never waited for, never given up, and its place never given away.  *)
Names ==
  /\ \A n, m \in DOMAIN bound : bound[n] = bound[m] => n = m
  /\ \A n \in DOMAIN bound : bound[n] # 1 /\ tasks[bound[n]].kind # "loose"
  /\ tasks[1].kind = "call" /\ tasks[1].state # "free"
  /\ \A t \in Ids : 1 \notin tasks[t].wait.of

LEMMA IInvTypeOK == IInv /\ Names => TypeOK
<1> SUFFICES ASSUME IInv, Names PROVE TypeOK
  OBVIOUS
<1>1. excused \subseteq DOMAIN Excuses
  BY DEF IInv
<1>2. cpu \in Seq(Ids) /\ DOMAIN cpu = 1..Len(cpu)
  BY DEF IInv, Machine, QueueIs
<1>3. ASSUME NEW t \in Ids
      PROVE  /\ tasks[t].state \in {"free", "running", "returned", "threw"}
             /\ tasks[t].state # "running" => tasks[t].stack = << >> /\ tasks[t].wait = NoWait
             /\ tasks[t].got \in {"data", "end", "null"} /\ tasks[t].kind \in {"call", "stray", "loose"}
             /\ tasks[t].wait.of \subseteq Ids \ {1}
             /\ Runs(tasks[t]) <=> \E i \in DOMAIN cpu : cpu[i] = t
  <2>1. IsTask(tasks[t])
    BY DEF IInv, Machine, AreTasks
  <2>2. tasks[t].wait.of \subseteq Ids \ {1}
    BY <2>1 DEF IsTask, IsWait, NoWait, Names
  <2>3. Runs(tasks[t]) <=> \E i \in DOMAIN cpu : cpu[i] = t
    BY <1>2 DEF IInv, Machine, QueueIs, Ready
  <2> QED BY <2>1, <2>2, <2>3 DEF IsTask
<1>4. \A i \in DOMAIN cpu : cpu[i] \in Ids /\ \A j \in DOMAIN cpu : cpu[i] = cpu[j] => i = j
  BY <1>2 DEF IInv, Machine, QueueIs
<1>5. \A n \in DOMAIN bound : /\ bound[n] \in Ids \ {1} /\ tasks[bound[n]].kind # "loose"
                             /\ \A m \in DOMAIN bound : bound[m] = bound[n] => m = n
  BY DEF IInv, AreNames, Names
<1>6. \A s \in DOMAIN slots : slots[s] \in SlotType /\ (slots[s].lost => Live(slots[s]))
  BY DEF IInv, AreSlots, IsSlot
<1>7. /\ page.ws \in {"none", "open", "left"} /\ page.typed \in 0..MaxMessages
      /\ page.ws = "left" => page.given
  BY DEF IInv, IsPage
<1> QED BY <1>1, <1>3, <1>4, <1>5, <1>6, <1>7 DEF TypeOK

-----------------------------------------------------------------------------
(* A set of tasks has a first one. *)

Smaller == OpToRel(<, Nat)

LEMMA FirstIsIn ==
  ASSUME NEW S \in SUBSET Ids, S # {}
  PROVE  First(S) \in S
<1>1. IsWellFoundedOn(Smaller, Nat)
  BY NatLessThanWellFounded DEF Smaller
<1>2. S \subseteq Nat
  BY BoundsAssumption DEF Ids
<1>3. PICK m \in S : \A k \in S : ~(<<k, m>> \in Smaller)
  BY <1>1, <1>2, WFMin
<1>4. ASSUME NEW k \in S PROVE m <= k
  <2>1. k \in Nat /\ m \in Nat
    BY <1>2
  <2>2. ~(k < m)
    BY <1>3, <2>1 DEF Smaller, OpToRel
  <2> QED BY <2>1, <2>2
<1> QED BY <1>4 DEF First

-----------------------------------------------------------------------------
(* What the operators on a task give: a task that has ended, or one that    *)
(* runs and waits for nothing.                                              *)

LEMMA IdleIsTask == IsTask(Idle) /\ Idle.wait = NoWait /\ Idle.state = "free"
BY DEF Idle, IsTask, IsWait

LEMMA StartIsTask ==
  ASSUME NEW steps
  PROVE  /\ IsTask(Start(steps)) /\ Runs(Start(steps))
         /\ IsTask(StartLoose(steps)) /\ Runs(StartLoose(steps))
<1> DEFINE stack == Settle(Push(steps, << >>))
<1>1. Start(steps) = [Idle EXCEPT !.stack = stack, !.state = "running"]
  BY DEF Start
<1>2. StartLoose(steps) = [Start(steps) EXCEPT !.kind = "loose"]
  BY DEF StartLoose
<1> HIDE DEF stack
<1> QED BY <1>1, <1>2 DEF Idle, IsTask, IsWait, Runs

LEMMA EndsIsTask ==
  ASSUME NEW k, IsTask(k), NEW how \in {"returned", "threw"}
  PROVE  IsTask(Ends(k, how)) /\ Ends(k, how).wait = NoWait
<1>1. CASE k.kind # "call"
  BY <1>1, IdleIsTask DEF Ends
<1>2. CASE k.kind = "call"
  <2>1. Ends(k, how) = [k EXCEPT !.stack = << >>, !.wait = NoWait, !.state = how]
    BY <1>2 DEF Ends
  <2> QED BY <2>1 DEF IsTask, IsWait
<1> QED BY <1>1, <1>2

LEMMA GoesIsTask ==
  ASSUME NEW k, IsTask(k), k.state = "running", NEW stack
  PROVE  IsTask(Goes(k, stack)) /\ Goes(k, stack).wait = NoWait
<1> DEFINE rest == Settle(stack)
<1>1. CASE rest = << >>
  <2>1. Goes(k, stack) = Ends(k, "returned")
    BY <1>1 DEF Goes
  <2> QED BY <2>1, EndsIsTask
<1>2. CASE rest # << >>
  <2>1. Goes(k, stack) = [k EXCEPT !.stack = rest, !.wait = NoWait]
    BY <1>2 DEF Goes
  <2> HIDE DEF rest
  <2> QED BY <2>1 DEF IsTask, IsWait
<1> QED BY <1>1, <1>2

LEMMA LeavesIsTask ==
  ASSUME NEW k, IsTask(k), k.state = "running", NEW stack, NEW e
  PROVE  IsTask(Leaves(k, stack, e)) /\ Leaves(k, stack, e).wait = NoWait
<1>1. CASE Escapes(stack, e)
  <2>1. PICK how \in {"returned", "threw"} : Leaves(k, stack, e) = Ends(k, how)
    BY <1>1 DEF Leaves
  <2> QED BY <2>1, EndsIsTask
<1>2. CASE ~Escapes(stack, e)
  <2>1. Leaves(k, stack, e) = Goes(k, Unwind(stack, e))
    BY <1>2 DEF Leaves
  <2> QED BY <2>1, GoesIsTask
<1> QED BY <1>1, <1>2

LEMMA ThrowsIsTask ==
  ASSUME NEW k, IsTask(k), k.state = "running"
  PROVE  IsTask(Throws(k)) /\ Throws(k).wait = NoWait
BY LeavesIsTask DEF Throws

-----------------------------------------------------------------------------
(* The queue.                                                               *)

LEMMA TailIsQueue ==
  ASSUME NEW q, NEW R, QueueIs(q, R), q # << >>
  PROVE  /\ Head(q) \in Ids /\ Head(q) \in R
         /\ QueueIs(Tail(q), R \ {Head(q)})
<1>1. q \in Seq(Ids) /\ Len(q) \in Nat /\ Len(q) >= 1 /\ Head(q) = q[1]
  BY DEF QueueIs
<1>2. /\ Tail(q) \in Seq(Ids) /\ Len(Tail(q)) = Len(q) - 1
      /\ \A i \in 1..Len(Tail(q)) : Tail(q)[i] = q[i + 1]
  BY <1>1
<1>3. \A t \in Ids : t \in R <=> \E i \in 1..Len(q) : q[i] = t
  BY DEF QueueIs
<1>4. \A i, j \in 1..Len(q) : q[i] = q[j] => i = j
  BY DEF QueueIs
<1>5. Head(q) \in Ids /\ Head(q) \in R
  BY <1>1, <1>3
<1>6. ASSUME NEW t \in Ids
      PROVE  t \in R \ {Head(q)} <=> \E i \in 1..Len(Tail(q)) : Tail(q)[i] = t
  <2>1. ASSUME t \in R, t # Head(q) PROVE \E i \in 1..Len(Tail(q)) : Tail(q)[i] = t
    <3>1. PICK i \in 1..Len(q) : q[i] = t
      BY <1>3, <2>1
    <3>2. i # 1
      BY <1>1, <2>1, <3>1
    <3>3. i - 1 \in 1..Len(Tail(q)) /\ i - 1 + 1 = i
      BY <1>1, <1>2, <3>2
    <3>4. Tail(q)[i - 1] = t
      BY <1>2, <3>1, <3>3
    <3> QED BY <3>3, <3>4
  <2>2. ASSUME NEW i \in 1..Len(Tail(q)), Tail(q)[i] = t PROVE t \in R \ {Head(q)}
    <3>1. i + 1 \in 1..Len(q) /\ q[i + 1] = t
      BY <1>1, <1>2, <2>2
    <3>2. q[i + 1] # q[1]
      BY <1>1, <1>4, <3>1
    <3> QED BY <1>1, <1>3, <3>1, <3>2
  <2> QED BY <2>1, <2>2
<1>7. \A i, j \in 1..Len(Tail(q)) : Tail(q)[i] = Tail(q)[j] => i = j
  <2> SUFFICES ASSUME NEW i \in 1..Len(Tail(q)), NEW j \in 1..Len(Tail(q)),
                      Tail(q)[i] = Tail(q)[j]
               PROVE  i = j
    OBVIOUS
  <2>1. i + 1 \in 1..Len(q) /\ j + 1 \in 1..Len(q) /\ q[i + 1] = q[j + 1]
    BY <1>1, <1>2
  <2> QED BY <1>4, <2>1
<1> QED BY <1>2, <1>5, <1>6, <1>7 DEF QueueIs

LEMMA ConsIsQueue ==
  ASSUME NEW q, NEW R, QueueIs(q, R), NEW n \in Ids, n \notin R
  PROVE  QueueIs(<<n>> \o q, R \cup {n})
<1> DEFINE p == <<n>> \o q
<1>1. q \in Seq(Ids) /\ Len(q) \in Nat
  BY DEF QueueIs
<1>2. /\ p \in Seq(Ids) /\ Len(p) = Len(q) + 1 /\ p[1] = n
      /\ \A i \in 1..Len(q) : p[i + 1] = q[i]
  BY <1>1
<1>3. \A t \in Ids : t \in R <=> \E i \in 1..Len(q) : q[i] = t
  BY DEF QueueIs
<1>4. \A i, j \in 1..Len(q) : q[i] = q[j] => i = j
  BY DEF QueueIs
<1> HIDE DEF p
<1>5. \A i \in 1..Len(p) : i = 1 \/ (i - 1 \in 1..Len(q) /\ p[i] = q[i - 1])
  <2> TAKE i \in 1..Len(p)
  <2>1. CASE i # 1
    <3>1. i - 1 \in 1..Len(q) /\ i - 1 + 1 = i
      BY <1>1, <1>2, <2>1
    <3> QED BY <1>2, <3>1
  <2> QED BY <2>1
<1>6. ASSUME NEW t \in Ids
      PROVE  t \in R \cup {n} <=> \E i \in 1..Len(p) : p[i] = t
  <2>1. ASSUME t \in R PROVE \E i \in 1..Len(p) : p[i] = t
    <3>1. PICK i \in 1..Len(q) : q[i] = t
      BY <1>3, <2>1
    <3>2. i + 1 \in 1..Len(p) /\ p[i + 1] = t
      BY <1>1, <1>2, <3>1
    <3> QED BY <3>2
  <2>2. ASSUME t = n PROVE \E i \in 1..Len(p) : p[i] = t
    <3>1. 1 \in 1..Len(p)
      BY <1>1, <1>2
    <3> QED BY <1>2, <2>2, <3>1
  <2>3. ASSUME NEW i \in 1..Len(p), p[i] = t PROVE t \in R \cup {n}
    BY <1>2, <1>3, <1>5, <2>3
  <2> QED BY <2>1, <2>2, <2>3
<1>7. \A i, j \in 1..Len(p) : p[i] = p[j] => i = j
  <2>1. \A i \in 1..Len(q) : q[i] # n
    BY <1>3
  <2> SUFFICES ASSUME NEW i \in 1..Len(p), NEW j \in 1..Len(p), p[i] = p[j]
               PROVE  i = j
    OBVIOUS
  <2>2. CASE i = 1 \/ j = 1
    BY <1>2, <1>5, <2>1, <2>2
  <2>3. CASE i # 1 /\ j # 1
    <3>1. i - 1 \in 1..Len(q) /\ j - 1 \in 1..Len(q) /\ q[i - 1] = q[j - 1]
      BY <1>5, <2>3
    <3>2. i - 1 = j - 1
      BY <1>4, <3>1
    <3>3. i \in Int /\ j \in Int
      BY <1>1, <1>2
    <3> QED BY <3>2, <3>3
  <2> QED BY <2>2, <2>3
<1> QED BY <1>2, <1>6, <1>7 DEF QueueIs, p

LEMMA AppendIsQueue ==
  ASSUME NEW q, NEW R, QueueIs(q, R), NEW n \in Ids, n \notin R
  PROVE  QueueIs(q \o <<n>>, R \cup {n})
<1> DEFINE p == q \o <<n>>
<1>1. q \in Seq(Ids) /\ Len(q) \in Nat
  BY DEF QueueIs
<1>2. /\ p \in Seq(Ids) /\ Len(p) = Len(q) + 1 /\ p[Len(q) + 1] = n
      /\ \A i \in 1..Len(q) : p[i] = q[i]
  BY <1>1
<1>3. \A t \in Ids : t \in R <=> \E i \in 1..Len(q) : q[i] = t
  BY DEF QueueIs
<1>4. \A i, j \in 1..Len(q) : q[i] = q[j] => i = j
  BY DEF QueueIs
<1> HIDE DEF p
<1>5. \A i \in 1..Len(p) : i = Len(q) + 1 \/ i \in 1..Len(q)
  BY <1>1, <1>2
<1>6. 1..Len(q) \subseteq 1..Len(p) /\ Len(q) + 1 \in 1..Len(p)
  BY <1>1, <1>2
<1>7. \A i \in 1..Len(q) : q[i] # n
  BY <1>3
<1>8. ASSUME NEW t \in Ids
      PROVE  t \in R \cup {n} <=> \E i \in 1..Len(p) : p[i] = t
  BY <1>2, <1>3, <1>5, <1>6
<1>9. \A i, j \in 1..Len(p) : p[i] = p[j] => i = j
  BY <1>2, <1>4, <1>5, <1>7
<1> QED BY <1>2, <1>8, <1>9 DEF QueueIs, p

-----------------------------------------------------------------------------
(* How the tasks and the queue change together.                             *)

(* The task at the head of the queue goes on, ends or waits.                *)
Kept(ts) == IF Runs(ts[Head(cpu)]) THEN cpu ELSE Tail(cpu)

LEMMA HeadSteps ==
  ASSUME Machine(tasks, cpu), cpu # << >>, NEW ts, AreTasks(ts),
         NEW R, R = Ready(ts) \ {Head(cpu)}, R = Ready(tasks) \ {Head(cpu)}
  PROVE  Machine(ts, Kept(ts))
<1>1. QueueIs(cpu, Ready(tasks))
  BY DEF Machine
<1>2. Head(cpu) \in Ready(tasks) /\ Head(cpu) \in Ids /\ QueueIs(Tail(cpu), Ready(tasks) \ {Head(cpu)})
  BY <1>1, TailIsQueue
<1>3. CASE Runs(ts[Head(cpu)])
  <2>1. Ready(ts) = Ready(tasks)
    BY <1>2, <1>3 DEF Ready
  <2> QED BY <1>1, <1>3, <2>1 DEF Machine, Kept
<1>4. CASE ~Runs(ts[Head(cpu)])
  <2>1. Ready(ts) = Ready(tasks) \ {Head(cpu)}
    BY <1>2, <1>4 DEF Ready
  <2> QED BY <1>2, <1>4, <2>1 DEF Machine, Kept
<1> QED BY <1>3, <1>4

(* ... and another one, n, that could not run, can: it goes first, when it  *)
(* is called, or last, when it is woken.                                    *)
LEMMA HeadStarts ==
  ASSUME Machine(tasks, cpu), cpu # << >>, NEW ts, AreTasks(ts),
         NEW n \in Ids, n \notin Ready(tasks), n \in Ready(ts),
         NEW R, R = Ready(ts) \ {Head(cpu), n}, R = Ready(tasks) \ {Head(cpu), n}
  PROVE  Machine(ts, <<n>> \o Kept(ts)) /\ Machine(ts, Kept(ts) \o <<n>>)
<1>1. QueueIs(cpu, Ready(tasks))
  BY DEF Machine
<1>2. Head(cpu) \in Ready(tasks) /\ Head(cpu) \in Ids /\ QueueIs(Tail(cpu), Ready(tasks) \ {Head(cpu)})
  BY <1>1, TailIsQueue
<1>3. Head(cpu) # n
  BY <1>2
<1>4. PICK S : QueueIs(Kept(ts), S) /\ n \notin S /\ Ready(ts) = S \cup {n}
  <2>1. CASE Runs(ts[Head(cpu)])
    <3>1. Ready(ts) = Ready(tasks) \cup {n}
      BY <1>2, <1>3, <2>1 DEF Ready
    <3>2. Kept(ts) = cpu
      BY <2>1 DEF Kept
    <3> QED BY <1>1, <3>1, <3>2
  <2>2. CASE ~Runs(ts[Head(cpu)])
    <3>1. Ready(ts) = (Ready(tasks) \ {Head(cpu)}) \cup {n}
      BY <1>2, <1>3, <2>2 DEF Ready
    <3>2. Kept(ts) = Tail(cpu)
      BY <2>2 DEF Kept
    <3> QED BY <1>2, <3>1, <3>2
  <2> QED BY <2>1, <2>2
<1>5. QueueIs(<<n>> \o Kept(ts), Ready(ts)) /\ QueueIs(Kept(ts) \o <<n>>, Ready(ts))
  BY <1>4, ConsIsQueue, AppendIsQueue
<1> QED BY <1>5 DEF Machine

(* Nothing runs, and what t waits for happens.                              *)
LEMMA Wakened ==
  ASSUME Machine(tasks, cpu), cpu = << >>, NEW ts, AreTasks(ts), NEW t \in Ids,
         Ready(ts) \subseteq {t} \cup Ready(tasks)
  PROVE  Machine(ts, IF Runs(ts[t]) THEN <<t>> ELSE << >>)
<1>1. Ready(tasks) = {}
  BY DEF Machine, QueueIs, Ready
<1>2. Ready(ts) = IF Runs(ts[t]) THEN {t} ELSE {}
  BY <1>1 DEF Ready
<1>3. CASE Runs(ts[t])
  <2> DEFINE q == <<t>>
  <2>1. q \in Seq(Ids) /\ Len(q) = 1 /\ q[1] = t
    OBVIOUS
  <2>2. QueueIs(q, {t})
    <3> HIDE DEF q
    <3> QED BY <2>1 DEF QueueIs
  <2> QED BY <1>2, <1>3, <2>2 DEF Machine
<1>4. CASE ~Runs(ts[t])
  <2>1. QueueIs(<< >>, {})
    BY DEF QueueIs
  <2> QED BY <1>2, <1>4, <2>1 DEF Machine
<1> QED BY <1>3, <1>4

-----------------------------------------------------------------------------
(* The task that runs.                                                      *)

LEMMA RunningTask ==
  ASSUME IInv, NEW t \in Running
  PROVE  /\ cpu # << >> /\ t = Head(cpu) /\ t \in Ids
         /\ IsTask(tasks[t]) /\ tasks[t].state = "running" /\ tasks[t].wait = NoWait
<1>1. cpu # << >> /\ t = Head(cpu)
  BY DEF Running
<1>2. t \in Ids /\ t \in Ready(tasks)
  BY <1>1, TailIsQueue DEF IInv, Machine
<1> QED BY <1>1, <1>2 DEF IInv, Machine, AreTasks, Ready, Runs

LEMMA BecomesKeeps ==
  ASSUME IInv, NEW t \in Running, NEW k, IsTask(k), Becomes(t, k)
  PROVE  Machine(tasks', cpu')
<1>1. cpu # << >> /\ t = Head(cpu) /\ t \in Ids
  BY RunningTask
<1>2. tasks = [u \in Ids |-> tasks[u]] /\ \A u \in Ids : IsTask(tasks[u])
  BY DEF IInv, Machine, AreTasks
<1>3. tasks' = [tasks EXCEPT ![t] = k]
  BY DEF Becomes
<1>4. tasks'[t] = k /\ \A u \in Ids \ {t} : tasks'[u] = tasks[u]
  BY <1>1, <1>2, <1>3
<1>5. AreTasks(tasks')
  BY <1>2, <1>3, <1>4 DEF AreTasks
<1>6. Ready(tasks') \ {t} = Ready(tasks) \ {t}
  BY <1>4 DEF Ready
<1>7. cpu' = Kept(tasks')
  BY <1>1, <1>4 DEF Becomes, Kept
<1> QED BY <1>1, <1>5, <1>6, <1>7, HeadSteps DEF IInv

LEMMA StepKeeps ==
  ASSUME IInv, NEW t \in Running
  PROVE  /\ Continues(t) => Machine(tasks', cpu')
         /\ Fails(t) => Machine(tasks', cpu')
         /\ \A steps : GoesInto(t, steps) => Machine(tasks', cpu')
         /\ \A stack : Becomes(t, Goes(tasks[t], stack)) => Machine(tasks', cpu')
         /\ \A stack, e : Becomes(t, Leaves(tasks[t], stack, e)) => Machine(tasks', cpu')
<1>1. IsTask(tasks[t]) /\ tasks[t].state = "running"
  BY RunningTask
<1>2. ASSUME NEW stack PROVE Becomes(t, Goes(tasks[t], stack)) => Machine(tasks', cpu')
  <2>1. IsTask(Goes(tasks[t], stack))
    BY <1>1, GoesIsTask
  <2> QED BY <2>1, BecomesKeeps
<1>3. ASSUME NEW stack, NEW e PROVE Becomes(t, Leaves(tasks[t], stack, e)) => Machine(tasks', cpu')
  <2>1. IsTask(Leaves(tasks[t], stack, e))
    BY <1>1, LeavesIsTask
  <2> QED BY <2>1, BecomesKeeps
<1>4. Fails(t) => Machine(tasks', cpu')
  BY <1>3 DEF Fails, Throws
<1>5. Continues(t) => Machine(tasks', cpu')
  BY <1>2 DEF Continues
<1>6. ASSUME NEW steps PROVE GoesInto(t, steps) => Machine(tasks', cpu')
  BY <1>2 DEF GoesInto
<1> QED BY <1>2, <1>3, <1>4, <1>5, <1>6

(* t goes on by itself, and some tasks that cannot run are changed to       *)
(* others that cannot.                                                      *)
LEMMA GoesBeside ==
  ASSUME IInv, NEW t \in Running, NEW stack, NEW T \in SUBSET (Ids \ {t}), NEW to,
         \A u \in T : ~Runs(tasks[u]) /\ IsTask(to[u]) /\ ~Runs(to[u]),
         tasks' = [u \in Ids |-> IF u = t THEN Goes(tasks[t], stack) ELSE IF u \in T THEN to[u] ELSE tasks[u]],
         cpu' = IF Runs(tasks'[t]) THEN cpu ELSE Tail(cpu)
  PROVE  Machine(tasks', cpu')
<1>1. cpu # << >> /\ t = Head(cpu) /\ t \in Ids /\ IsTask(tasks[t]) /\ tasks[t].state = "running"
  BY RunningTask
<1>2. \A u \in Ids : IsTask(tasks[u])
  BY DEF IInv, Machine, AreTasks
<1>3. IsTask(Goes(tasks[t], stack))
  BY <1>1, GoesIsTask
<1>4. tasks'[t] = Goes(tasks[t], stack) /\ \A u \in Ids \ {t} : tasks'[u] = IF u \in T THEN to[u] ELSE tasks[u]
  BY <1>1
<1>5. \A u \in Ids : IsTask(tasks'[u])
  <2> SUFFICES ASSUME NEW u \in Ids PROVE IsTask(tasks'[u])
    OBVIOUS
  <2>1. CASE u = t
    BY <1>3, <1>4, <2>1
  <2>2. CASE u # t /\ u \in T
    <3>1. tasks'[u] = to[u]
      BY <1>4, <2>2
    <3> QED BY <2>2, <3>1
  <2>3. CASE u # t /\ u \notin T
    <3>1. tasks'[u] = tasks[u]
      BY <1>4, <2>3
    <3> QED BY <1>2, <3>1
  <2> QED BY <2>1, <2>2, <2>3
<1>6. tasks' = [u \in Ids |-> tasks'[u]]
  OBVIOUS
<1>7. \A u \in Ids \ {t} : Runs(tasks'[u]) <=> Runs(tasks[u])
  <2> TAKE u \in Ids \ {t}
  <2>1. CASE u \in T
    <3>1. tasks'[u] = to[u]
      BY <1>4, <2>1
    <3> QED BY <2>1, <3>1
  <2>2. CASE u \notin T
    <3>1. tasks'[u] = tasks[u]
      BY <1>4, <2>2
    <3> QED BY <3>1
  <2> QED BY <2>1, <2>2
<1>8. Ready(tasks') \ {t} = Ready(tasks) \ {t}
  BY <1>7 DEF Ready
<1>9. AreTasks(tasks')
  BY <1>5, <1>6 DEF AreTasks
<1>10. cpu' = Kept(tasks')
  BY <1>1 DEF Kept
<1> QED BY <1>1, <1>8, <1>9, <1>10, HeadSteps DEF IInv

-----------------------------------------------------------------------------
(* Control, and what a step does to the WebSocket: the rest is unchanged.   *)

LEMMA ControlKeeps ==
  ASSUME IInv, NEW t \in Running,
         Upgrades(t) \/ Branches(t) \/ Tests(t) \/ Turns(t) \/ Jumps(t) \/ MayFail(t) \/ Resumes(t)
  PROVE  IInv'
<1>1. UNCHANGED <<excused, bound, slots, page>>
  BY DEF Upgrades, Branches, Tests, Turns, Jumps, MayFail, Resumes
<1>2. Machine(tasks', cpu')
  <2>1. CASE Upgrades(t)
    BY <2>1, StepKeeps DEF Upgrades
  <2>2. CASE Branches(t)
    BY <2>2, StepKeeps DEF Branches
  <2>3. CASE Tests(t)
    <3>1. PICK steps : GoesInto(t, steps)
      BY <2>3 DEF Tests
    <3> QED BY <3>1, StepKeeps
  <2>4. CASE Turns(t)
    BY <2>4, StepKeeps DEF Turns
  <2>5. CASE Jumps(t)
    BY <2>5, StepKeeps DEF Jumps
  <2>6. CASE MayFail(t)
    BY <2>6, StepKeeps DEF MayFail
  <2>7. CASE Resumes(t)
    BY <2>7, StepKeeps DEF Resumes
  <2> QED BY <2>1, <2>2, <2>3, <2>4, <2>5, <2>6, <2>7
<1> QED BY <1>1, <1>2 DEF IInv

LEMMA PageKeeps ==
  ASSUME IInv, NEW t \in Running,
         Accepts(t) \/ HandsOver(t) \/ Listens(t) \/ Unlistens(t) \/ Sends(t) \/ ClosesWeb(t)
  PROVE  IInv'
<1>1. UNCHANGED <<excused, bound, slots>>
  BY DEF Accepts, HandsOver, Listens, Unlistens, Sends, ClosesWeb, OnPage
<1>2. Machine(tasks', cpu')
  <2>1. CASE Accepts(t) \/ Listens(t) \/ Unlistens(t) \/ ClosesWeb(t)
    <3>1. Continues(t)
      BY <2>1 DEF Accepts, Listens, Unlistens, ClosesWeb
    <3> QED BY <3>1, StepKeeps
  <2>2. CASE HandsOver(t)
    BY <2>2, StepKeeps DEF HandsOver
  <2>3. CASE Sends(t)
    BY <2>3, StepKeeps DEF Sends
  <2> QED BY <2>1, <2>2, <2>3
<1>3. IsPage(page')
  <2>1. /\ page = [ws |-> page.ws, given |-> page.given, shut |-> page.shut, heard |-> page.heard, typed |-> page.typed]
        /\ page.ws \in {"none", "open", "left"} /\ page.typed \in 0..MaxMessages
        /\ page.ws = "left" => page.given
    BY DEF IInv, IsPage
  <2>2. CASE Accepts(t)
    <3>1. page' = [page EXCEPT !.ws = "open"]
      BY <2>2 DEF Accepts
    <3> QED BY <2>1, <3>1 DEF IsPage
  <2>3. CASE HandsOver(t)
    <3>1. page' = [page EXCEPT !.given = TRUE]
      BY <2>3 DEF HandsOver
    <3> QED BY <2>1, <3>1 DEF IsPage
  <2>4. CASE Listens(t) \/ Unlistens(t)
    <3>1. PICK heard : page' = [page EXCEPT !.heard = heard]
      BY <2>4 DEF Listens, Unlistens
    <3> QED BY <2>1, <3>1 DEF IsPage
  <2>5. CASE Sends(t)
    BY <2>1, <2>5 DEF Sends, IsPage
  <2>6. CASE ClosesWeb(t)
    <3>1. page' = [page EXCEPT !.shut = TRUE]
      BY <2>6 DEF ClosesWeb
    <3> QED BY <2>1, <3>1 DEF IsPage
  <2> QED BY <2>2, <2>3, <2>4, <2>5, <2>6
<1> QED BY <1>1, <1>2, <1>3 DEF IInv

-----------------------------------------------------------------------------
(* Sockets.                                                                 *)

LEMMA SetsKeeps ==
  ASSUME AreSlots(slots), NEW s, NEW slot, IsSlot(slot), Sets(s, slot)
  PROVE  AreSlots(slots')
<1>1. slots' = [r \in DOMAIN slots \cup {s} |-> IF r = s THEN slot ELSE slots[r]]
  BY DEF Sets, With
<1>2. \A r \in DOMAIN slots : IsSlot(slots[r])
  BY DEF AreSlots
<1>3. DOMAIN slots' = DOMAIN slots \cup {s} /\ slots' = [r \in DOMAIN slots' |-> slots'[r]]
  BY <1>1
<1>4. ASSUME NEW r \in DOMAIN slots' PROVE IsSlot(slots'[r])
  <2>1. CASE r = s
    <3>1. slots'[r] = slot
      BY <1>1, <2>1
    <3> QED BY <3>1
  <2>2. CASE r # s
    <3>1. r \in DOMAIN slots /\ slots'[r] = slots[r]
      BY <1>1, <1>3, <2>2
    <3> QED BY <1>2, <3>1
  <2> QED BY <2>1, <2>2
<1> QED BY <1>3, <1>4 DEF AreSlots

LEMMA KnownIsSlot ==
  ASSUME IInv, NEW s, Known(s)
  PROVE  IsSlot(slots[s])
BY DEF IInv, AreSlots, Known

LEMMA NewIsSlot ==
  ASSUME NEW d \in BOOLEAN
  PROVE  IsSlot([NewSocket EXCEPT !.dropped = d])
BY DEF IsSlot, SlotType, NewSocket, Live

(* What the steps make of a socket.                                         *)
LEMMA SlotChanges ==
  ASSUME NEW slot, IsSlot(slot)
  PROVE  /\ \A end \in {"reader", "writer"}, lock \in {"none", "held", "freed"} :
              IsSlot([slot EXCEPT ![end] = lock])
         /\ \A end \in {"reader", "writer"} :
              IsSlot([slot EXCEPT ![end] = "freed", !.lost = @ /\ end = "writer"])
         /\ IsSlot([slot EXCEPT !.lost = FALSE])
         /\ IsSlot([slot EXCEPT !.lost = Live(slot)])
         /\ \A how \in {"ended", "failed", "closed"} : IsSlot([slot EXCEPT !.sock = how, !.lost = FALSE])
         /\ IsSlot([slot EXCEPT !.dropped = @ \/ Live(slot), !.sock = "forgotten", !.lost = FALSE])
         /\ IsSlot(Opened_(slot))
         /\ \A how \in {"ended", "failed"} : IsSlot(Shut(slot, how))
<1>1. slot \in SlotType /\ (slot.lost => Live(slot))
  BY DEF IsSlot
<1>2. ASSUME NEW end \in {"reader", "writer"}, NEW lock \in {"none", "held", "freed"}
      PROVE  IsSlot([slot EXCEPT ![end] = lock])
  <2>1. CASE end = "reader"
    <3>1. [slot EXCEPT ![end] = lock] = [slot EXCEPT !.reader = lock]
      BY <2>1
    <3>2. [slot EXCEPT !.reader = lock] \in SlotType
      BY <1>1 DEF SlotType
    <3>3. [slot EXCEPT !.reader = lock].lost = slot.lost /\ [slot EXCEPT !.reader = lock].sock = slot.sock
      BY <1>1 DEF SlotType
    <3> QED BY <1>1, <3>1, <3>2, <3>3 DEF IsSlot, Live
  <2>2. CASE end = "writer"
    <3>1. [slot EXCEPT ![end] = lock] = [slot EXCEPT !.writer = lock]
      BY <2>2
    <3>2. [slot EXCEPT !.writer = lock] \in SlotType
      BY <1>1 DEF SlotType
    <3>3. [slot EXCEPT !.writer = lock].lost = slot.lost /\ [slot EXCEPT !.writer = lock].sock = slot.sock
      BY <1>1 DEF SlotType
    <3> QED BY <1>1, <3>1, <3>2, <3>3 DEF IsSlot, Live
  <2> QED BY <2>1, <2>2
<1>3. ASSUME NEW end \in {"reader", "writer"}
      PROVE  IsSlot([slot EXCEPT ![end] = "freed", !.lost = @ /\ end = "writer"])
  <2>1. CASE end = "reader"
    <3> DEFINE to == [slot EXCEPT !.reader = "freed", !.lost = FALSE]
    <3>1. (slot.lost /\ end = "writer") = FALSE
      BY <2>1
    <3>2. [slot EXCEPT ![end] = "freed", !.lost = @ /\ end = "writer"] = to
      BY <2>1, <3>1
    <3>3. to \in SlotType /\ ~to.lost
      BY <1>1 DEF SlotType
    <3> QED BY <3>2, <3>3 DEF IsSlot
  <2>2. CASE end = "writer"
    <3>1. [slot EXCEPT ![end] = "freed", !.lost = @ /\ end = "writer"] = [slot EXCEPT ![end] = "freed"]
      BY <1>1, <2>2 DEF SlotType
    <3> QED BY <1>2, <3>1
  <2> QED BY <2>1, <2>2
<1>4. IsSlot([slot EXCEPT !.lost = FALSE])
  <2>1. [slot EXCEPT !.lost = FALSE] \in SlotType /\ ~[slot EXCEPT !.lost = FALSE].lost
    BY <1>1 DEF SlotType
  <2> QED BY <2>1 DEF IsSlot
<1>5. IsSlot([slot EXCEPT !.lost = Live(slot)])
  <2>1. CASE Live(slot)
    <3>1. Live(slot) = TRUE
      BY <2>1
    <3>2. [slot EXCEPT !.lost = TRUE] \in SlotType /\ [slot EXCEPT !.lost = TRUE].sock = slot.sock
      BY <1>1 DEF SlotType
    <3>3. Live([slot EXCEPT !.lost = TRUE])
      BY <2>1, <3>2 DEF Live
    <3> QED BY <3>1, <3>2, <3>3 DEF IsSlot
  <2>2. CASE ~Live(slot)
    <3>1. Live(slot) = FALSE
      BY <2>2 DEF Live
    <3> QED BY <1>4, <3>1
  <2> QED BY <2>1, <2>2
<1>6. ASSUME NEW how \in {"ended", "failed", "closed"}
      PROVE  IsSlot([slot EXCEPT !.sock = how, !.lost = FALSE])
  <2>1. [slot EXCEPT !.sock = how, !.lost = FALSE] \in SlotType /\ ~[slot EXCEPT !.sock = how, !.lost = FALSE].lost
    BY <1>1 DEF SlotType
  <2> QED BY <2>1 DEF IsSlot
<1>7. IsSlot([slot EXCEPT !.dropped = @ \/ Live(slot), !.sock = "forgotten", !.lost = FALSE])
  <2> DEFINE to == [slot EXCEPT !.dropped = @ \/ Live(slot), !.sock = "forgotten", !.lost = FALSE]
  <2>1. to \in SlotType /\ ~to.lost
    BY <1>1 DEF SlotType
  <2> QED BY <2>1 DEF IsSlot
<1>8. IsSlot(Opened_(slot))
  <2>1. CASE slot.sock = "opening"
    <3>1. Opened_(slot) \in SlotType /\ Opened_(slot).sock = "open"
      BY <1>1, <2>1 DEF Opened_, SlotType
    <3> QED BY <3>1 DEF IsSlot, Live
  <2>2. CASE slot.sock # "opening"
    BY <2>2 DEF Opened_
  <2> QED BY <2>1, <2>2
<1>9. \A how \in {"ended", "failed"} : IsSlot(Shut(slot, how))
  BY <1>6 DEF Shut
<1> QED BY <1>2, <1>3, <1>4, <1>5, <1>6, <1>7, <1>8, <1>9

LEMMA LocksKeep ==
  ASSUME IInv, NEW t \in Running,
         Locks(t) \/ Closes(t) \/ Cancels(t) \/ ForgetsLock(t) \/ ForgetsSocket(t)
  PROVE  IInv'
<1> DEFINE s   == Step(t).on
           end == End(Step(t).op)
<1>1. UNCHANGED <<excused, bound, page>>
  BY DEF Locks, Closes, Cancels, ForgetsLock, ForgetsSocket
<1>2. Continues(t) \/ Fails(t)
  BY DEF Locks, Closes, Cancels, ForgetsLock, ForgetsSocket
<1>3. Machine(tasks', cpu')
  BY <1>2, StepKeeps
<1>4. end \in {"reader", "writer"} /\ AreSlots(slots)
  BY DEF End, IInv
<1>5. \/ UNCHANGED slots
      \/ \E slot : Known(s) /\ IsSlot(slot) /\ Sets(s, slot)
  <2> SUFFICES ASSUME ~UNCHANGED slots
               PROVE  \E slot : Known(s) /\ IsSlot(slot) /\ Sets(s, slot)
    OBVIOUS
  <2>1. CASE Locks(t)
    <3>1. Known(s) /\ Sets(s, [slots[s] EXCEPT ![end] = "held"])
      BY <2>1 DEF Locks, Has
    <3>2. IsSlot([slots[s] EXCEPT ![end] = "held"])
      BY <1>4, <3>1, KnownIsSlot, SlotChanges
    <3> QED BY <3>1, <3>2
  <2>2. CASE Closes(t)
    <3>1. Known(s) /\ Sets(s, [slots[s] EXCEPT !.sock = "closed", !.lost = FALSE])
      BY <2>2 DEF Closes, Has
    <3>2. IsSlot([slots[s] EXCEPT !.sock = "closed", !.lost = FALSE])
      BY <3>1, KnownIsSlot, SlotChanges
    <3> QED BY <3>1, <3>2
  <2>3. CASE Cancels(t)
    <3>1. Known(s) /\ Sets(s, [slots[s] EXCEPT !.lost = FALSE])
      BY <2>3 DEF Cancels
    <3>2. IsSlot([slots[s] EXCEPT !.lost = FALSE])
      BY <3>1, KnownIsSlot, SlotChanges
    <3> QED BY <3>1, <3>2
  <2>4. CASE ForgetsLock(t)
    <3>1. Known(s) /\ Sets(s, [slots[s] EXCEPT ![end] = "none"])
      BY <2>4 DEF ForgetsLock
    <3>2. IsSlot([slots[s] EXCEPT ![end] = "none"])
      BY <1>4, <3>1, KnownIsSlot, SlotChanges
    <3> QED BY <3>1, <3>2
  <2>5. CASE ForgetsSocket(t)
    <3>1. Known(s) /\ Sets(s, [slots[s] EXCEPT !.dropped = @ \/ Live(slots[s]), !.sock = "forgotten", !.lost = FALSE])
      BY <2>5 DEF ForgetsSocket
    <3>2. IsSlot([slots[s] EXCEPT !.dropped = @ \/ Live(slots[s]), !.sock = "forgotten", !.lost = FALSE])
      BY <3>1, KnownIsSlot, SlotChanges
    <3> QED BY <3>1, <3>2
  <2> QED BY <2>1, <2>2, <2>3, <2>4, <2>5
<1>6. AreSlots(slots')
  BY <1>4, <1>5, SetsKeeps
<1> QED BY <1>1, <1>3, <1>6 DEF IInv

(* connect() and releaseLock() also move what others wait for elsewhere.    *)
Moved(u, where) == [tasks[u] EXCEPT !.wait.on = where]

LEMMA MovedIsTask ==
  ASSUME IInv, NEW u \in Ids, NEW where, tasks[u].wait.op # "none"
  PROVE  ~Runs(tasks[u]) /\ IsTask(Moved(u, where)) /\ ~Runs(Moved(u, where))
<1>1. IsTask(tasks[u])
  BY DEF IInv, Machine, AreTasks
<1> DEFINE k == tasks[u]
           w == [op |-> k.wait.op, on |-> where, out |-> k.wait.out, of |-> k.wait.of, by |-> k.wait.by]
<1>2. k.wait # NoWait
  BY DEF NoWait
<1>3. /\ k.wait = [op |-> k.wait.op, on |-> k.wait.on, out |-> k.wait.out, of |-> k.wait.of, by |-> k.wait.by]
      /\ k.wait.op # "none" /\ k.wait.of \subseteq Ids /\ k.wait.by \in 0..MaxTasks
      /\ k.state = "running"
  BY <1>1, <1>2 DEF IsTask, IsWait
<1>4. k = [stack |-> k.stack, wait |-> k.wait, got |-> k.got, state |-> k.state, kind |-> k.kind]
  BY <1>1 DEF IsTask
<1>5. [k.wait EXCEPT !.on = where] = w
  BY <1>3
<1>6. Moved(u, where) = [stack |-> k.stack, wait |-> w, got |-> k.got, state |-> k.state, kind |-> k.kind]
  BY <1>4, <1>5 DEF Moved
<1>7. IsWait(w) /\ w # NoWait
  BY <1>3 DEF IsWait, NoWait
<1> HIDE DEF w
<1>8. IsTask(Moved(u, where)) /\ Moved(u, where).wait = w
  BY <1>1, <1>3, <1>6, <1>7 DEF IsTask
<1> QED BY <1>2, <1>7, <1>8 DEF Runs

LEMMA ConnectsKeeps ==
  ASSUME IInv, NEW t \in Running, Connects(t)
  PROVE  IInv'
<1> DEFINE s == Step(t).on
           dropped == Known(s) /\ (slots[s].dropped \/ Live(slots[s]))
           T == {u \in Ids \ {t} : tasks[u].wait.op \in {"opened", "read", "write", "finish"} /\ tasks[u].wait.on = s}
           to == [u \in T |-> Moved(u, "replaced")]
<1>1. UNCHANGED <<excused, bound, page>> /\ AreSlots(slots)
  BY DEF Connects, IInv
<1>2. CASE Fails(t) /\ UNCHANGED slots
  BY <1>1, <1>2, StepKeeps DEF IInv
<1>3. CASE /\ Sets(s, [NewSocket EXCEPT !.dropped = dropped])
           /\ tasks' = [u \in Ids |-> IF u = t THEN Goes(tasks[t], Rest(t)) ELSE IF u \in T THEN to[u] ELSE tasks[u]]
           /\ cpu' = IF Runs(tasks'[t]) THEN cpu ELSE Tail(cpu)
  <2>1. dropped \in BOOLEAN
    <3>1. CASE Known(s)
      <4>1. slots[s].dropped \in BOOLEAN
        BY <3>1, KnownIsSlot DEF IsSlot, SlotType
      <4> QED BY <3>1, <4>1 DEF Live
    <3>2. CASE ~Known(s)
      BY <3>2
    <3> QED BY <3>1, <3>2
  <2>2. AreSlots(slots')
    <3>1. IsSlot([NewSocket EXCEPT !.dropped = dropped])
      BY <2>1, NewIsSlot
    <3> QED BY <1>1, <1>3, <3>1, SetsKeeps
  <2>3. \A u \in T : ~Runs(tasks[u]) /\ IsTask(to[u]) /\ ~Runs(to[u])
    BY MovedIsTask
  <2>4. T \in SUBSET (Ids \ {t})
    OBVIOUS
  <2> HIDE DEF T, to
  <2>5. Machine(tasks', cpu')
    BY <1>3, <2>3, <2>4, GoesBeside
  <2> QED BY <1>1, <2>2, <2>5 DEF IInv
<1>4. ASSUME ~(Fails(t) /\ UNCHANGED slots)
      PROVE  /\ Sets(s, [NewSocket EXCEPT !.dropped = dropped])
             /\ tasks' = [u \in Ids |-> IF u = t THEN Goes(tasks[t], Rest(t)) ELSE IF u \in T THEN to[u] ELSE tasks[u]]
             /\ cpu' = IF Runs(tasks'[t]) THEN cpu ELSE Tail(cpu)
  <2> DEFINE waits(u) == u # t /\ tasks[u].wait.op \in {"opened", "read", "write", "finish"} /\ tasks[u].wait.on = s
  <2>1. /\ Sets(s, [NewSocket EXCEPT !.dropped = dropped])
        /\ tasks' = [u \in Ids |-> IF u = t THEN Goes(tasks[t], Rest(t))
                                   ELSE IF waits(u) THEN Moved(u, "replaced") ELSE tasks[u]]
        /\ cpu' = IF Runs(tasks'[t]) THEN cpu ELSE Tail(cpu)
    BY <1>4 DEF Connects, Moved
  <2>2. \A u \in Ids \ {t} : waits(u) <=> u \in T
    OBVIOUS
  <2>3. \A u \in T : to[u] = Moved(u, "replaced")
    OBVIOUS
  <2> HIDE DEF waits, T, to
  <2> QED BY <2>1, <2>2, <2>3
<1> QED BY <1>2, <1>3, <1>4

LEMMA UnlocksKeeps ==
  ASSUME IInv, NEW t \in Running, Unlocks(t)
  PROVE  IInv'
<1> DEFINE s   == Step(t).on
           end == End(Step(t).op)
           T   == {u \in Ids : end = "reader" /\ tasks[u].wait.op = "read" /\ tasks[u].wait.on = s}
           to  == [u \in T |-> Moved(u, "released")]
<1>1. UNCHANGED <<excused, bound, page>> /\ AreSlots(slots) /\ end \in {"reader", "writer"}
  BY DEF Unlocks, IInv, End
<1>2. CASE Fails(t) /\ UNCHANGED slots
  BY <1>1, <1>2, StepKeeps DEF IInv
<1>3. CASE /\ Known(s) /\ Sets(s, [slots[s] EXCEPT ![end] = "freed", !.lost = @ /\ end = "writer"])
           /\ tasks' = [u \in Ids |-> IF u = t THEN Goes(tasks[t], Rest(t)) ELSE IF u \in T THEN to[u] ELSE tasks[u]]
           /\ cpu' = IF Runs(tasks'[t]) THEN cpu ELSE Tail(cpu)
  <2>1. AreSlots(slots')
    <3>1. IsSlot([slots[s] EXCEPT ![end] = "freed", !.lost = @ /\ end = "writer"])
      BY <1>1, <1>3, KnownIsSlot, SlotChanges
    <3> QED BY <1>1, <1>3, <3>1, SetsKeeps
  <2>2. \A u \in T : ~Runs(tasks[u]) /\ IsTask(to[u]) /\ ~Runs(to[u])
    BY MovedIsTask
  <2>3. t \notin T
    BY RunningTask DEF NoWait
  <2>4. T \in SUBSET (Ids \ {t})
    BY <2>3
  <2> HIDE DEF T, to
  <2>5. Machine(tasks', cpu')
    BY <1>3, <2>2, <2>4, GoesBeside
  <2> QED BY <1>1, <2>1, <2>5 DEF IInv
<1>4. ASSUME ~(Fails(t) /\ UNCHANGED slots)
      PROVE  /\ Known(s) /\ Sets(s, [slots[s] EXCEPT ![end] = "freed", !.lost = @ /\ end = "writer"])
             /\ tasks' = [u \in Ids |-> IF u = t THEN Goes(tasks[t], Rest(t)) ELSE IF u \in T THEN to[u] ELSE tasks[u]]
             /\ cpu' = IF Runs(tasks'[t]) THEN cpu ELSE Tail(cpu)
  <2>1. /\ Known(s) /\ Sets(s, [slots[s] EXCEPT ![end] = "freed", !.lost = @ /\ end = "writer"])
        /\ tasks' = [u \in Ids |-> IF u = t THEN Goes(tasks[t], Rest(t))
                                   ELSE IF u \in T THEN Moved(u, "released") ELSE tasks[u]]
        /\ cpu' = IF Runs(tasks'[t]) THEN cpu ELSE Tail(cpu)
    BY <1>4 DEF Unlocks, Moved, Has
  <2>2. \A u \in T : to[u] = Moved(u, "released")
    OBVIOUS
  <2> HIDE DEF T, to
  <2> QED BY <2>1, <2>2
<1> QED BY <1>2, <1>3, <1>4

-----------------------------------------------------------------------------
(* Async calls: the place of a new task is one that is free.                *)

LEMMA NewIdIsFree ==
  ASSUME IInv, Free # {}
  PROVE  NewId \in Ids /\ tasks[NewId].state = "free" /\ ~Runs(tasks[NewId])
<1>1. Free \in SUBSET Ids
  BY DEF Free
<1>2. NewId \in Free
  BY <1>1, FirstIsIn DEF NewId
<1> QED BY <1>2 DEF Free, Runs

LEMMA IdOfIsId ==
  ASSUME IInv, NEW n
  PROVE  IdOf(n) \in 0..MaxTasks /\ (IdOf(n) # 0 => IdOf(n) \in Ids)
BY BoundsAssumption DEF IdOf, IInv, AreNames, Ids

LEMMA NamesKeep ==
  ASSUME AreNames(bound), NEW S
  PROVE  /\ AreNames(NamesBut(S))
         /\ \A n, u : u \in Ids => AreNames(With(NamesBut(S), n, u))
<1> DEFINE D == {m \in DOMAIN bound : bound[m] \notin S}
           b == NamesBut(S)
<1>1. b = [m \in D |-> bound[m]] /\ D \subseteq DOMAIN bound
  BY DEF NamesBut
<1>2. \A m \in DOMAIN bound : bound[m] \in Ids
  BY DEF AreNames
<1> HIDE DEF D, b
<1>3. DOMAIN b = D /\ b = [m \in DOMAIN b |-> b[m]] /\ \A m \in D : b[m] \in Ids
  BY <1>1, <1>2
<1>4. ASSUME NEW n, NEW u, u \in Ids
      PROVE  AreNames(With(b, n, u))
  <2> DEFINE c == With(b, n, u)
  <2>1. c = [m \in DOMAIN b \cup {n} |-> IF m = n THEN u ELSE b[m]]
    BY DEF With
  <2> HIDE DEF c
  <2>2. DOMAIN c = DOMAIN b \cup {n} /\ c = [m \in DOMAIN c |-> c[m]]
    BY <2>1
  <2>3. \A m \in DOMAIN c : c[m] \in Ids
    BY <1>3, <1>4, <2>1, <2>2
  <2> QED BY <2>2, <2>3 DEF AreNames, c
<1> QED BY <1>3, <1>4 DEF AreNames, b

LEMMA WaitingIsWait ==
  ASSUME NEW step, step.op # "none", NEW of \in SUBSET Ids, NEW by \in 0..MaxTasks
  PROVE  IsWait(Waiting(step, of, by)) /\ Waiting(step, of, by) # NoWait
BY DEF Waiting, IsWait, NoWait

(* A task that begins to wait.                                              *)
LEMMA WaitsIsTask ==
  ASSUME NEW k, IsTask(k), k.state = "running", NEW stack, NEW wait, IsWait(wait), wait # NoWait,
         NEW to, to = [k EXCEPT !.stack = stack, !.wait = wait]
  PROVE  IsTask(to) /\ ~Runs(to)
BY DEF IsTask, Runs

LEMMA CallsKeeps ==
  ASSUME IInv, NEW t \in Running, Calls(t)
  PROVE  IInv'
<1> DEFINE n   == Step(t).name
           old == {u \in Ids : u = IdOf(n) /\ Ended(u) /\ Unwanted(u, t)}
           new == IF n = "none" THEN StartLoose(Step(t).body) ELSE Start(Step(t).body)
<1>1. UNCHANGED <<excused, slots, page>> /\ Free # {} /\ cpu' = <<NewId>> \o Kept(tasks')
  BY RunningTask DEF Calls, Kept
<1>2. NewId \in Ids /\ tasks[NewId].state = "free" /\ ~Runs(tasks[NewId])
  BY <1>1, NewIdIsFree
<1>3. cpu # << >> /\ t = Head(cpu) /\ t \in Ids /\ IsTask(tasks[t]) /\ tasks[t].state = "running" /\ t # NewId
  BY <1>2, RunningTask
<1>4. AreNames(bound')
  <2>1. AreNames(bound)
    BY DEF IInv
  <2>2. bound' = NamesBut({NewId}) \/ bound' = With(NamesBut({NewId}), n, NewId)
    BY DEF Calls
  <2> QED BY <1>2, <2>1, <2>2, NamesKeep
<1>5. tasks' = [u \in Ids |-> IF u = t THEN Goes(tasks[t], Rest(t))
                              ELSE IF u = NewId /\ n = "none" THEN StartLoose(Step(t).body)
                              ELSE IF u = NewId THEN Start(Step(t).body)
                              ELSE IF u \in old THEN Idle ELSE tasks[u]]
  BY DEF Calls
<1>6. IsTask(new) /\ Runs(new)
  BY StartIsTask
<1>7. IsTask(Goes(tasks[t], Rest(t)))
  BY <1>3, GoesIsTask
<1>8. \A u \in old : ~Runs(tasks[u])
  BY DEF Ended, Runs
<1>9. \A u \in Ids : IsTask(tasks[u])
  BY DEF IInv, Machine, AreTasks
<1>10. IsTask(Idle) /\ ~Runs(Idle)
  BY IdleIsTask DEF Runs
<1> HIDE DEF old
<1>11. /\ tasks'[t] = Goes(tasks[t], Rest(t)) /\ tasks'[NewId] = new
       /\ \A u \in Ids \ {t, NewId} : tasks'[u] = IF u \in old THEN Idle ELSE tasks[u]
  BY <1>2, <1>3, <1>5
<1> HIDE DEF new
<1>12. \A u \in Ids : IsTask(tasks'[u])
  <2> SUFFICES ASSUME NEW u \in Ids PROVE IsTask(tasks'[u])
    OBVIOUS
  <2>1. CASE u = t
    BY <1>7, <1>11, <2>1
  <2>2. CASE u = NewId
    BY <1>6, <1>11, <2>2
  <2>3. CASE u \notin {t, NewId} /\ u \in old
    <3>1. tasks'[u] = Idle
      BY <1>11, <2>3
    <3> QED BY <1>10, <3>1
  <2>4. CASE u \notin {t, NewId} /\ u \notin old
    <3>1. tasks'[u] = tasks[u]
      BY <1>11, <2>4
    <3> QED BY <1>9, <3>1
  <2> QED BY <2>1, <2>2, <2>3, <2>4
<1>13. \A u \in Ids \ {t, NewId} : Runs(tasks'[u]) <=> Runs(tasks[u])
  <2> TAKE u \in Ids \ {t, NewId}
  <2>1. CASE u \in old
    <3>1. tasks'[u] = Idle
      BY <1>11, <2>1
    <3> QED BY <1>8, <1>10, <2>1, <3>1
  <2>2. CASE u \notin old
    <3>1. tasks'[u] = tasks[u]
      BY <1>11, <2>2
    <3> QED BY <3>1
  <2> QED BY <2>1, <2>2
<1>14. Ready(tasks') \ {t, NewId} = Ready(tasks) \ {t, NewId}
  BY <1>13 DEF Ready
<1>15. AreTasks(tasks')
  <2>1. tasks' = [u \in Ids |-> tasks'[u]]
    BY <1>5
  <2> QED BY <1>12, <2>1 DEF AreTasks
<1>16. NewId \notin Ready(tasks) /\ NewId \in Ready(tasks')
  BY <1>2, <1>6, <1>11 DEF Ready
<1>17. Machine(tasks', <<NewId>> \o Kept(tasks'))
  BY <1>2, <1>3, <1>14, <1>15, <1>16, HeadStarts DEF IInv
<1> QED BY <1>1, <1>4, <1>17 DEF IInv

LEMMA CallsAndWaitsKeeps ==
  ASSUME IInv, NEW t \in Running, CallsAndWaits(t)
  PROVE  IInv'
<1> DEFINE step == Step(t)
           w    == Waiting(Join(NewId), {NewId}, IdOf(step.by))
           wait == [w EXCEPT !.out = step.out]
           k    == [tasks[t] EXCEPT !.stack = Rest(t), !.wait = wait]
           new  == Start(step.body)
<1>1. /\ UNCHANGED <<excused, slots, page>> /\ Free # {} /\ cpu' = <<NewId>> \o Tail(cpu)
      /\ bound' = NamesBut({NewId})
  BY DEF CallsAndWaits
<1>2. NewId \in Ids /\ tasks[NewId].state = "free" /\ ~Runs(tasks[NewId])
  BY <1>1, NewIdIsFree
<1>3. cpu # << >> /\ t = Head(cpu) /\ t \in Ids /\ IsTask(tasks[t]) /\ tasks[t].state = "running" /\ t # NewId
  BY <1>2, RunningTask
<1>4. IsWait(wait) /\ wait # NoWait
  <2>1. Join(NewId).op = "join"
    BY DEF Join, Awaited
  <2>2. IsWait(w) /\ w.op = "join"
    <3>1. {NewId} \in SUBSET Ids
      BY <1>2
    <3>2. IsWait(w)
      BY <2>1, <3>1, IdOfIsId, WaitingIsWait
    <3>3. w.op = "join"
      BY <2>1 DEF Waiting
    <3> QED BY <3>2, <3>3
  <2> HIDE DEF w
  <2>3. w = [op |-> w.op, on |-> w.on, out |-> w.out, of |-> w.of, by |-> w.by] /\ w.of \subseteq Ids /\ w.by \in 0..MaxTasks
    BY <2>2 DEF IsWait, NoWait
  <2>4. wait = [op |-> w.op, on |-> w.on, out |-> step.out, of |-> w.of, by |-> w.by]
    BY <2>3
  <2> QED BY <2>2, <2>3, <2>4 DEF IsWait, NoWait
<1>5. tasks = [u \in Ids |-> tasks[u]] /\ \A u \in Ids : IsTask(tasks[u])
  BY DEF IInv, Machine, AreTasks
<1>6. IsTask(k) /\ ~Runs(k)
  <2>1. k = [tasks[t] EXCEPT !.stack = Rest(t), !.wait = wait]
    OBVIOUS
  <2> HIDE DEF wait, k
  <2> QED BY <1>3, <1>4, <2>1, WaitsIsTask
<1>7. IsTask(new) /\ Runs(new)
  BY StartIsTask
<1>8. /\ tasks'[t] = k /\ tasks'[NewId] = new
      /\ \A u \in Ids \ {t, NewId} : tasks'[u] = tasks[u]
      /\ tasks' = [u \in Ids |-> tasks'[u]]
  <2>1. tasks' = [tasks EXCEPT ![t].stack = Rest(t),
                            ![t].wait = w,
                            ![t].wait.out = step.out,
                            ![NewId] = new]
    BY DEF CallsAndWaits
  <2>2. tasks[t] = [stack |-> tasks[t].stack, wait |-> tasks[t].wait, got |-> tasks[t].got,
                    state |-> tasks[t].state, kind |-> tasks[t].kind]
    BY <1>3 DEF IsTask
  <2> HIDE DEF new, w
  <2>3. tasks'[t] = k
    BY <1>3, <1>5, <2>1, <2>2
  <2>4. tasks'[NewId] = new
    BY <1>2, <1>3, <1>5, <2>1
  <2>5. \A u \in Ids \ {t, NewId} : tasks'[u] = tasks[u]
    BY <1>5, <2>1
  <2>6. tasks' = [u \in Ids |-> tasks'[u]]
    BY <1>5, <2>1
  <2> QED BY <2>3, <2>4, <2>5, <2>6
<1> HIDE DEF k, new
<1>9. AreTasks(tasks')
  BY <1>5, <1>6, <1>7, <1>8 DEF AreTasks
<1>10. Ready(tasks') \ {t, NewId} = Ready(tasks) \ {t, NewId}
  BY <1>8 DEF Ready
<1>11. NewId \notin Ready(tasks) /\ NewId \in Ready(tasks')
  BY <1>2, <1>7, <1>8 DEF Ready
<1>12. cpu' = <<NewId>> \o Kept(tasks')
  BY <1>1, <1>3, <1>6, <1>8 DEF Kept
<1>13. Machine(tasks', cpu')
  BY <1>2, <1>3, <1>9, <1>10, <1>11, <1>12, HeadStarts DEF IInv
<1>14. AreNames(bound')
  BY <1>1, NamesKeep DEF IInv
<1> QED BY <1>1, <1>13, <1>14 DEF IInv

LEMMA ChainsKeeps ==
  ASSUME IInv, NEW t \in Running, Chains(t)
  PROVE  IInv'
<1> DEFINE step  == Step(t)
           of    == {IdOf(step.after)} \ {0}
           wait  == Waiting(Join(step.after), of, 0)
           stack == <<Frame("try", Try(<< >>, step.bad \o <<Return>>))>> \o Push(step.body, << >>)
           kind  == IF step.name = "none" THEN "loose" ELSE "call"
           next  == [Idle EXCEPT !.stack = stack, !.wait = wait, !.state = "running", !.kind = kind]
<1>1. UNCHANGED <<excused, slots, page>> /\ Free # {}
  BY DEF Chains
<1>2. NewId \in Ids /\ tasks[NewId].state = "free" /\ ~Runs(tasks[NewId])
  BY <1>1, NewIdIsFree
<1>3. cpu # << >> /\ t = Head(cpu) /\ t \in Ids /\ IsTask(tasks[t]) /\ tasks[t].state = "running" /\ t # NewId
  BY <1>2, RunningTask
<1>4. IsWait(wait) /\ wait # NoWait
  <2>1. Join(step.after).op # "none"
    BY DEF Join, Awaited
  <2>2. of \in SUBSET Ids /\ 0 \in 0..MaxTasks
    BY IdOfIsId, BoundsAssumption
  <2> HIDE DEF of
  <2> QED BY <2>1, <2>2, WaitingIsWait
<1>5. IsTask(next) /\ ~Runs(next)
  <2>1. kind \in {"call", "stray", "loose"}
    OBVIOUS
  <2>2. next = [Idle EXCEPT !.stack = stack, !.wait = wait, !.state = "running", !.kind = kind]
    OBVIOUS
  <2> HIDE DEF stack, wait, kind, next
  <2>3. next = [stack |-> stack, wait |-> wait, got |-> "data", state |-> "running", kind |-> kind]
    BY <2>2 DEF Idle
  <2> QED BY <1>4, <2>1, <2>3 DEF IsTask, Runs
<1>6. AreNames(bound')
  <2>1. AreNames(bound)
    BY DEF IInv
  <2>2. bound' = NamesBut({NewId}) \/ bound' = With(NamesBut({NewId}), step.name, NewId)
    BY DEF Chains
  <2> QED BY <1>2, <2>1, <2>2, NamesKeep
<1>7. tasks = [u \in Ids |-> tasks[u]] /\ \A u \in Ids : IsTask(tasks[u])
  BY DEF IInv, Machine, AreTasks
<1>8. tasks' = [tasks EXCEPT ![t] = Goes(tasks[t], Rest(t)), ![NewId] = next]
  BY DEF Chains
<1>9. cpu' = IF Runs(tasks'[t]) THEN cpu ELSE Tail(cpu)
  BY DEF Chains
<1> HIDE DEF next
<1> DEFINE T  == {NewId}
           to == [u \in T |-> next]
<1>10. tasks' = [u \in Ids |-> IF u = t THEN Goes(tasks[t], Rest(t)) ELSE IF u \in T THEN to[u] ELSE tasks[u]]
  BY <1>2, <1>3, <1>7, <1>8
<1>11. T \in SUBSET (Ids \ {t}) /\ \A u \in T : ~Runs(tasks[u]) /\ IsTask(to[u]) /\ ~Runs(to[u])
  BY <1>2, <1>3, <1>5
<1> HIDE DEF T, to
<1>12. Machine(tasks', cpu')
  BY <1>9, <1>10, <1>11, GoesBeside
<1> QED BY <1>1, <1>6, <1>12 DEF IInv

LEMMA SettlesKeeps ==
  ASSUME IInv, NEW t \in Running, Settles(t)
  PROVE  IInv'
<1> DEFINE u    == IdOf(Step(t).name)
           done == IF Step(t).op = "resolve" THEN Goes(tasks[u], tasks[u].stack) ELSE Throws(tasks[u])
           waits == u \in Ids \ {t} /\ tasks[u].wait.op = "signal"
<1>1. UNCHANGED <<excused, slots, bound, page>>
  BY DEF Settles
<1>2. cpu # << >> /\ t = Head(cpu) /\ t \in Ids /\ IsTask(tasks[t]) /\ tasks[t].state = "running" /\ tasks[t].wait = NoWait
  BY RunningTask
<1>3. /\ tasks' = [v \in Ids |-> IF v = t THEN Goes(tasks[t], Rest(t))
                                 ELSE IF v = u /\ tasks[u].wait.op = "signal" THEN done ELSE tasks[v]]
      /\ cpu' = Kept(tasks') \o (IF waits /\ Runs(done) THEN <<u>> ELSE << >>)
  BY <1>2 DEF Settles, Kept
<1>4. Kept(tasks') \in Seq(Ids)
  <2>1. QueueIs(cpu, Ready(tasks))
    BY DEF IInv, Machine
  <2>2. cpu \in Seq(Ids) /\ Tail(cpu) \in Seq(Ids)
    BY <1>2, <2>1, TailIsQueue DEF QueueIs
  <2> QED BY <2>2 DEF Kept
<1>5. ASSUME waits PROVE IsTask(done) /\ ~Runs(tasks[u])
  <2>1. IsTask(tasks[u]) /\ tasks[u].wait # NoWait
    BY <1>5 DEF IInv, Machine, AreTasks, NoWait
  <2>2. tasks[u].state = "running"
    BY <2>1 DEF IsTask
  <2> QED BY <2>1, <2>2, GoesIsTask, ThrowsIsTask DEF Runs
<1>6. CASE ~(waits /\ Runs(done))
  <2> DEFINE T  == IF waits THEN {u} ELSE {}
             to == [v \in T |-> done]
  <2>1. cpu' = Kept(tasks')
    <3>1. cpu' = Kept(tasks') \o << >>
      BY <1>3, <1>6
    <3> QED BY <1>4, <3>1
  <2>2. T \in SUBSET (Ids \ {t}) /\ \A v \in T : ~Runs(tasks[v]) /\ IsTask(to[v]) /\ ~Runs(to[v])
    <3> HIDE DEF done, u
    <3> QED BY <1>5, <1>6
  <2>3. tasks' = [v \in Ids |-> IF v = t THEN Goes(tasks[t], Rest(t)) ELSE IF v \in T THEN to[v] ELSE tasks[v]]
    <3>1. \A v \in Ids \ {t} : (v = u /\ tasks[u].wait.op = "signal") <=> v \in T
      OBVIOUS
    <3>2. \A v \in T : to[v] = done
      OBVIOUS
    <3> HIDE DEF done, u, T, to, waits
    <3> QED BY <1>3, <3>1, <3>2
  <2>4. cpu' = IF Runs(tasks'[t]) THEN cpu ELSE Tail(cpu)
    BY <1>2, <2>1 DEF Kept
  <2> HIDE DEF T, to
  <2>5. Machine(tasks', cpu')
    BY <2>2, <2>3, <2>4, GoesBeside
  <2> QED BY <1>1, <2>5 DEF IInv
<1>7. CASE waits /\ Runs(done)
  <2>1. cpu' = Kept(tasks') \o <<u>>
    BY <1>3, <1>7
  <2>2. u \in Ids /\ u # t /\ IsTask(done) /\ Runs(done) /\ ~Runs(tasks[u])
    BY <1>5, <1>7
  <2>3. /\ tasks'[t] = Goes(tasks[t], Rest(t)) /\ tasks'[u] = done
        /\ \A v \in Ids \ {t, u} : tasks'[v] = tasks[v]
        /\ tasks' = [v \in Ids |-> tasks'[v]]
    <3>1. tasks[u].wait.op = "signal"
      BY <1>7
    <3> HIDE DEF done, u, waits
    <3> QED BY <1>2, <1>3, <2>2, <3>1
  <2>4. IsTask(Goes(tasks[t], Rest(t)))
    BY <1>2, GoesIsTask
  <2>5. \A v \in Ids : IsTask(tasks[v])
    BY DEF IInv, Machine, AreTasks
  <2> HIDE DEF done, u
  <2>6. AreTasks(tasks')
    BY <2>2, <2>3, <2>4, <2>5 DEF AreTasks
  <2>7. Ready(tasks') \ {t, u} = Ready(tasks) \ {t, u}
    BY <2>3 DEF Ready
  <2>8. u \notin Ready(tasks) /\ u \in Ready(tasks')
    BY <2>2, <2>3 DEF Ready
  <2>9. Machine(tasks', cpu')
    BY <1>2, <2>1, <2>2, <2>6, <2>7, <2>8, HeadStarts DEF IInv
  <2> QED BY <1>1, <2>9 DEF IInv
<1> QED BY <1>6, <1>7

LEMMA WaitsKeeps ==
  ASSUME IInv, NEW t \in Running, Waits(t)
  PROVE  IInv'
<1> DEFINE step == Step(t)
           of == CASE step.op = "join" -> {IdOf(step.on)}
                   [] step.op \in {"joinAll", "joinSettled"} -> {IdOf(n) : n \in step.names}
                   [] OTHER -> {}
           wait == Waiting(step, of, IdOf(step.by))
           k == [tasks[t] EXCEPT !.stack = Rest(t), !.wait = wait]
<1>1. UNCHANGED <<excused, slots, bound, page>>
  BY DEF Waits
<1>2. step.op # "none"
  BY DEF Waits, At
<1>3. Fails(t) \/ Continues(t) \/ (0 \notin of /\ Becomes(t, k))
  BY DEF Waits
<1>4. CASE 0 \notin of /\ Becomes(t, k)
  <2>1. of \in SUBSET Ids
    <3>1. \A u \in of : u # 0 /\ \E n : u = IdOf(n)
      BY <1>4
    <3> HIDE DEF of
    <3> QED BY <3>1, IdOfIsId
  <2> HIDE DEF of
  <2>2. IsWait(wait) /\ wait # NoWait
    BY <1>2, <2>1, IdOfIsId, WaitingIsWait
  <2>3. IsTask(k)
    <3>1. k = [tasks[t] EXCEPT !.stack = Rest(t), !.wait = wait]
      OBVIOUS
    <3> HIDE DEF wait, k
    <3> QED BY <2>2, <3>1, RunningTask, WaitsIsTask
  <2> HIDE DEF k
  <2>4. Machine(tasks', cpu')
    BY <1>4, <2>3, BecomesKeeps
  <2> QED BY <1>1, <2>4 DEF IInv
<1>5. CASE Fails(t) \/ Continues(t)
  BY <1>1, <1>5, StepKeeps DEF IInv
<1> QED BY <1>3, <1>4, <1>5

LEMMA ClearsKeeps ==
  ASSUME IInv, NEW t \in Running, Clears(t)
  PROVE  IInv'
<1> DEFINE n  == Step(t).name
           T  == {u \in Ids : u = IdOf(n) /\ tasks[u].wait.op = "sleep"}
           to == [u \in T |-> Idle]
<1>1. UNCHANGED <<excused, slots, page>>
  BY DEF Clears
<1>2. AreNames(bound')
  <2>1. bound' = bound \/ bound' = [m \in DOMAIN bound \ {n} |-> bound[m]]
    BY DEF Clears
  <2>2. \A m \in DOMAIN bound : bound[m] \in Ids
    BY DEF IInv, AreNames
  <2>3. CASE bound' = bound
    BY <2>3 DEF IInv
  <2>4. CASE bound' = [m \in DOMAIN bound \ {n} |-> bound[m]]
    <3>1. DOMAIN bound' = DOMAIN bound \ {n} /\ \A m \in DOMAIN bound' : bound'[m] = bound[m]
      BY <2>4
    <3>2. bound' = [m \in DOMAIN bound' |-> bound'[m]]
      BY <2>4
    <3> QED BY <2>2, <3>1, <3>2 DEF AreNames
  <2> QED BY <2>1, <2>3, <2>4
<1>3. \A u \in T : ~Runs(tasks[u]) /\ IsTask(to[u]) /\ ~Runs(to[u])
  <2>1. \A u \in T : ~Runs(tasks[u])
    BY DEF Runs, NoWait
  <2>2. \A u \in T : to[u] = Idle
    OBVIOUS
  <2> HIDE DEF T, to
  <2> QED BY <2>1, <2>2, IdleIsTask DEF Runs
<1>4. t \notin T
  BY RunningTask DEF NoWait
<1>5. tasks' = [u \in Ids |-> IF u = t THEN Goes(tasks[t], Rest(t)) ELSE IF u \in T THEN to[u] ELSE tasks[u]]
  <2>1. tasks' = [u \in Ids |-> IF u = t THEN Goes(tasks[t], Rest(t)) ELSE IF u \in T THEN Idle ELSE tasks[u]]
    BY DEF Clears
  <2>2. \A u \in T : to[u] = Idle
    OBVIOUS
  <2> HIDE DEF T, to
  <2> QED BY <2>1, <2>2
<1>6. cpu' = IF Runs(tasks'[t]) THEN cpu ELSE Tail(cpu)
  BY DEF Clears
<1>7. T \in SUBSET (Ids \ {t})
  BY <1>4
<1> HIDE DEF T, to
<1>8. Machine(tasks', cpu')
  BY <1>3, <1>5, <1>6, <1>7, GoesBeside
<1> QED BY <1>1, <1>2, <1>8 DEF IInv

-----------------------------------------------------------------------------
(* What has been waited for happens: nothing runs, and t waits.             *)

LEMMA WaitingTask ==
  ASSUME IInv, NEW t \in Waiters
  PROVE  /\ cpu = << >> /\ t \in Ids /\ IsTask(tasks[t]) /\ tasks[t].state = "running"
         /\ tasks[t].wait.of \subseteq Ids /\ tasks[t].wait.by \in 0..MaxTasks
BY DEF Waiters, IInv, Machine, AreTasks, IsTask, IsWait

LEMMA NothingRuns ==
  ASSUME IInv, cpu = << >>
  PROVE  \A u \in Ids : ~Runs(tasks[u])
BY DEF IInv, Machine, QueueIs, Ready

LEMMA GotIsTask ==
  ASSUME NEW k, IsTask(k), k.state = "running", NEW got \in {"data", "end", "null"},
         NEW to, to = [k EXCEPT !.got = got]
  PROVE  IsTask(to) /\ to.state = "running" /\ to.stack = k.stack
BY DEF IsTask

LEMMA GetsIsTask ==
  ASSUME IInv, NEW t \in Waiters, NEW got \in {"data", "end", "null"}
  PROVE  IsTask(Gets(t, got)) /\ Gets(t, got).wait = NoWait
<1> DEFINE task == [tasks[t] EXCEPT !.got = got]
<1>1. IsTask(task) /\ task.state = "running"
  <2>1. task = [tasks[t] EXCEPT !.got = got]
    OBVIOUS
  <2> HIDE DEF task
  <2> QED BY <2>1, WaitingTask, GotIsTask
<1>2. Gets(t, got) = Goes(task, task.stack)
  BY DEF Gets
<1> HIDE DEF task
<1> QED BY <1>1, <1>2, GoesIsTask

(* t goes on, and others that still cannot run may have changed.            *)
LEMMA WokenBeside ==
  ASSUME IInv, NEW t \in Waiters, NEW next, IsTask(next), NEW T \in SUBSET Ids, NEW to,
         \A u \in T : IsTask(to[u]) /\ ~Runs(to[u]),
         tasks' = [u \in Ids |-> IF u = t THEN next ELSE IF u \in T THEN to[u] ELSE tasks[u]],
         cpu' = IF Runs(next) THEN <<t>> ELSE << >>
  PROVE  Machine(tasks', cpu')
<1>1. cpu = << >> /\ t \in Ids /\ \A u \in Ids : IsTask(tasks[u]) /\ ~Runs(tasks[u])
  BY WaitingTask, NothingRuns DEF IInv, Machine, AreTasks
<1>2. tasks'[t] = next /\ \A u \in Ids \ {t} : tasks'[u] = IF u \in T THEN to[u] ELSE tasks[u]
  BY <1>1
<1>3. ASSUME NEW u \in Ids \ {t} PROVE IsTask(tasks'[u]) /\ ~Runs(tasks'[u])
  <2>1. CASE u \in T
    <3>1. tasks'[u] = to[u]
      BY <1>2, <2>1
    <3> QED BY <2>1, <3>1
  <2>2. CASE u \notin T
    <3>1. tasks'[u] = tasks[u]
      BY <1>2, <2>2
    <3> QED BY <1>1, <3>1
  <2> QED BY <2>1, <2>2
<1>4. AreTasks(tasks')
  <2>1. tasks' = [u \in Ids |-> tasks'[u]]
    OBVIOUS
  <2>2. \A u \in Ids : IsTask(tasks'[u])
    BY <1>2, <1>3
  <2> QED BY <2>1, <2>2 DEF AreTasks
<1>5. Ready(tasks') \subseteq {t} \cup Ready(tasks)
  BY <1>3 DEF Ready
<1>6. cpu' = IF Runs(tasks'[t]) THEN <<t>> ELSE << >>
  BY <1>2
<1> QED BY <1>1, <1>4, <1>5, <1>6, Wakened DEF IInv

LEMMA WakesKeeps ==
  ASSUME IInv, NEW t \in Waiters, NEW k, IsTask(k), k.wait = NoWait, Wakes(t, k)
  PROVE  Machine(tasks', cpu')
<1> DEFINE T  == {}
           to == [u \in T |-> k]
<1>1. tasks = [u \in Ids |-> tasks[u]] /\ t \in Ids
  BY WaitingTask DEF IInv, Machine, AreTasks
<1>2. tasks' = [u \in Ids |-> IF u = t THEN k ELSE IF u \in T THEN to[u] ELSE tasks[u]]
  BY <1>1 DEF Wakes
<1>3. cpu' = IF Runs(k) THEN <<t>> ELSE << >>
  BY DEF Wakes, Runs
<1>4. T \in SUBSET Ids /\ \A u \in T : IsTask(to[u]) /\ ~Runs(to[u])
  OBVIOUS
<1> HIDE DEF T, to
<1> QED BY <1>2, <1>3, <1>4, WokenBeside

LEMMA WakingKeeps ==
  ASSUME IInv, NEW t \in Waiters,
         Delivers(t) \/ Rejects(t) \/ \E got \in {"data", "end", "null"} : Wakes(t, Gets(t, got))
  PROVE  Machine(tasks', cpu')
<1>1. IsTask(tasks[t]) /\ tasks[t].state = "running" /\ tasks[t].got \in {"data", "end", "null"}
  BY WaitingTask DEF IsTask
<1>2. CASE \E got \in {"data", "end", "null"} : Wakes(t, Gets(t, got))
  BY <1>2, GetsIsTask, WakesKeeps
<1>3. CASE Delivers(t)
  BY <1>1, <1>3, GetsIsTask, WakesKeeps DEF Delivers
<1>4. CASE Rejects(t)
  BY <1>1, <1>4, ThrowsIsTask, WakesKeeps DEF Rejects
<1> QED BY <1>2, <1>3, <1>4

LEMMA JoinsKeeps ==
  ASSUME IInv, NEW t \in Waiters, Joins(t)
  PROVE  IInv'
<1> DEFINE wait  == tasks[t].wait
           bad   == wait.op # "joinSettled" /\ \E u \in wait.of : tasks[u].state = "threw"
           got   == IF wait.op = "join" /\ wait.of # {} THEN tasks[First(wait.of)].got ELSE tasks[t].got
           task  == [tasks[t] EXCEPT !.got = got]
           next  == IF bad THEN Throws(task) ELSE Goes(task, task.stack)
           named == {bound[n] : n \in DOMAIN bound}
           T     == {u \in Ids \ {t} : u \in wait.of \ named /\ Ended(u) /\ Unwanted(u, t)}
           to    == [u \in T |-> Idle]
<1>1. UNCHANGED <<excused, slots, bound, page>>
  BY DEF Joins
<1>2. IsTask(tasks[t]) /\ tasks[t].state = "running" /\ wait.of \in SUBSET Ids
  BY WaitingTask
<1>3. \A u \in Ids : tasks[u].got \in {"data", "end", "null"}
  BY DEF IInv, Machine, AreTasks, IsTask
<1>4. got \in {"data", "end", "null"}
  <2>1. CASE wait.op = "join" /\ wait.of # {}
    <3>1. First(wait.of) \in Ids
      BY <1>2, <2>1, FirstIsIn
    <3> QED BY <1>3, <2>1, <3>1
  <2>2. CASE ~(wait.op = "join" /\ wait.of # {})
    BY <1>3, <2>2, WaitingTask
  <2> QED BY <2>1, <2>2
<1>5. IsTask(task) /\ task.state = "running"
  <2>1. task = [tasks[t] EXCEPT !.got = got]
    OBVIOUS
  <2> HIDE DEF task, got
  <2> QED BY <1>2, <1>4, <2>1, GotIsTask
<1>6. IsTask(next)
  <2> HIDE DEF task, bad
  <2> QED BY <1>5, GoesIsTask, ThrowsIsTask
<1>7. /\ tasks' = [u \in Ids |-> IF u = t THEN next
                                 ELSE IF u \in wait.of \ named /\ Ended(u) /\ Unwanted(u, t) THEN Idle
                                 ELSE tasks[u]]
      /\ cpu' = IF Runs(next) THEN <<t>> ELSE << >>
  BY DEF Joins
<1>8. \A u \in Ids \ {t} : u \in T <=> (u \in wait.of \ named /\ Ended(u) /\ Unwanted(u, t))
  OBVIOUS
<1>9. T \in SUBSET Ids /\ \A u \in T : to[u] = Idle
  OBVIOUS
<1> HIDE DEF wait, named, next, T, to
<1>10. tasks' = [u \in Ids |-> IF u = t THEN next ELSE IF u \in T THEN to[u] ELSE tasks[u]]
  BY <1>7, <1>8, <1>9
<1>11. T \in SUBSET Ids /\ \A u \in T : IsTask(to[u]) /\ ~Runs(to[u])
  BY <1>9, IdleIsTask DEF Runs
<1>12. cpu' = IF Runs(next) THEN <<t>> ELSE << >>
  BY <1>7
<1>13. Machine(tasks', cpu')
  BY <1>6, <1>10, <1>11, <1>12, WokenBeside
<1> QED BY <1>1, <1>13 DEF IInv

LEMMA FindsKeeps ==
  ASSUME IInv, NEW t \in Waiters, Finds(t)
  PROVE  IInv'
<1>1. UNCHANGED <<excused, slots, bound, page>>
  BY DEF Finds
<1>2. Machine(tasks', cpu')
  BY WakingKeeps DEF Finds
<1> QED BY <1>1, <1>2 DEF IInv

-----------------------------------------------------------------------------
(* The peer, the network and the timers move only when nothing else can:    *)
(* what a task then waits for on a socket is a socket that is there.        *)

LEMMA QuietKnows ==
  ASSUME Quiet, NEW t \in Ids, WaitsFor(t, {"opened", "read", "write", "finish"})
  PROVE  Known(tasks[t].wait.on)
BY DEF Quiet, Dead, WaitsFor

LEMMA PeerKeeps ==
  ASSUME IInv, Quiet, NEW t \in Waiters,
         Succeeds(t) \/ Receives(t) \/ ReadsEnd(t) \/ Breaks(t)
  PROVE  IInv'
<1> DEFINE s == tasks[t].wait.on
<1>1. UNCHANGED <<excused, bound, page>> /\ t \in Ids /\ AreSlots(slots)
  BY WaitingTask DEF Succeeds, Receives, ReadsEnd, Breaks, OnPeer, IInv
<1>2. WaitsFor(t, {"opened", "read", "write", "finish"})
  BY DEF Succeeds, Receives, ReadsEnd, Breaks, OnPeer, WaitsFor
<1>3. IsSlot(slots[s])
  BY <1>1, <1>2, QuietKnows, KnownIsSlot
<1>4. AreSlots(slots')
  <2>1. CASE Succeeds(t) \/ Receives(t)
    <3>1. Sets(s, Opened_(slots[s]))
      BY <2>1 DEF Succeeds, Receives, On
    <3> QED BY <1>1, <1>3, <3>1, SlotChanges, SetsKeeps
  <2>2. CASE ReadsEnd(t)
    <3>1. Sets(s, Shut(slots[s], "ended"))
      BY <2>2 DEF ReadsEnd, On
    <3> QED BY <1>1, <1>3, <3>1, SlotChanges, SetsKeeps
  <2>3. CASE Breaks(t)
    <3>1. Sets(s, Shut(slots[s], "failed"))
      BY <2>3 DEF Breaks, On
    <3> QED BY <1>1, <1>3, <3>1, SlotChanges, SetsKeeps
  <2> QED BY <2>1, <2>2, <2>3
<1>5. Machine(tasks', cpu')
  BY WakingKeeps DEF Succeeds, Receives, ReadsEnd, Breaks
<1> QED BY <1>1, <1>4, <1>5 DEF IInv

LEMMA AbandonsKeeps ==
  ASSUME IInv, Quiet, NEW t \in Waiters, NEW out, Abandons(t, out)
  PROVE  IInv'
<1> DEFINE wait == tasks[t].wait
           next == IF out = "throw" THEN Throws(tasks[t]) ELSE Gets(t, IF out = "end" THEN "end" ELSE "null")
           T    == wait.of \ {t}
           to   == [u \in T |-> [tasks[u] EXCEPT !.kind = "stray"]]
<1>1. UNCHANGED <<excused, bound, page>> /\ AreSlots(slots)
  BY DEF Abandons, IInv
<1>2. t \in Ids /\ IsTask(tasks[t]) /\ tasks[t].state = "running" /\ T \in SUBSET Ids
  BY WaitingTask
<1>3. AreSlots(slots')
  <2>1. CASE wait.op = "read"
    <3>1. Known(wait.on)
      BY <1>2, <2>1, QuietKnows DEF WaitsFor
    <3>2. Sets(wait.on, [slots[wait.on] EXCEPT !.lost = Live(slots[wait.on])])
      BY <2>1 DEF Abandons, On
    <3>3. IsSlot([slots[wait.on] EXCEPT !.lost = Live(slots[wait.on])])
      BY <3>1, KnownIsSlot, SlotChanges
    <3> QED BY <1>1, <3>2, <3>3, SetsKeeps
  <2>2. CASE wait.op # "read"
    BY <1>1, <2>2 DEF Abandons
  <2> QED BY <2>1, <2>2
<1>4. IsTask(next)
  <2>1. (IF out = "end" THEN "end" ELSE "null") \in {"data", "end", "null"}
    OBVIOUS
  <2> QED BY <1>2, <2>1, ThrowsIsTask, GetsIsTask
<1>5. T \in SUBSET Ids /\ \A u \in T : IsTask(to[u]) /\ ~Runs(to[u])
  <2> SUFFICES ASSUME NEW u \in T PROVE IsTask(to[u]) /\ ~Runs(to[u])
    BY <1>2
  <2>1. u \in Ids /\ IsTask(tasks[u]) /\ ~Runs(tasks[u])
    BY <1>2, WaitingTask, NothingRuns DEF IInv, Machine, AreTasks
  <2>2. to[u] = [tasks[u] EXCEPT !.kind = "stray"]
    OBVIOUS
  <2> HIDE DEF to
  <2> QED BY <2>1, <2>2 DEF IsTask, Runs
<1>6. /\ tasks' = [u \in Ids |-> IF u = t THEN next
                                 ELSE IF u \in wait.of THEN [tasks[u] EXCEPT !.kind = "stray"] ELSE tasks[u]]
      /\ cpu' = IF Runs(next) THEN <<t>> ELSE << >>
  BY DEF Abandons
<1>7. \A u \in T : to[u] = [tasks[u] EXCEPT !.kind = "stray"]
  OBVIOUS
<1>8. \A u \in Ids \ {t} : u \in T <=> u \in wait.of
  OBVIOUS
<1> HIDE DEF wait, next, T, to
<1>9. tasks' = [u \in Ids |-> IF u = t THEN next ELSE IF u \in T THEN to[u] ELSE tasks[u]]
  BY <1>6, <1>7, <1>8
<1>10. cpu' = IF Runs(next) THEN <<t>> ELSE << >>
  BY <1>6
<1>11. Machine(tasks', cpu')
  BY <1>4, <1>5, <1>9, <1>10, WokenBeside
<1> QED BY <1>1, <1>3, <1>11 DEF IInv

LEMMA TimersKeep ==
  ASSUME IInv, Quiet, NEW t \in Waiters,
         Computes(t) \/ Rings(t) \/ TimesOut(t) \/ IsOvertaken(t)
  PROVE  IInv'
<1>1. CASE Computes(t) \/ Rings(t)
  <2>1. UNCHANGED <<excused, slots, bound, page>>
    BY <1>1 DEF Computes, Rings
  <2>2. Machine(tasks', cpu')
    BY <1>1, WakingKeeps DEF Computes, Rings
  <2> QED BY <2>1, <2>2 DEF IInv
<1>2. CASE TimesOut(t) \/ IsOvertaken(t)
  BY <1>2, AbandonsKeeps DEF TimesOut, IsOvertaken
<1> QED BY <1>1, <1>2

-----------------------------------------------------------------------------
(* An event starts its listeners in the first places that are free.         *)

LEMMA FiresKeeps ==
  ASSUME IInv, cpu = << >>, NEW event, Fires(event)
  PROVE  Machine(tasks', cpu')
<1> DEFINE heard == Listeners(event)
<1>1. PICK ids \in [1..Len(heard) -> Free] :
         /\ \A i \in DOMAIN ids : Free \cap 1..(ids[i] - 1) = {ids[j] : j \in 1..(i - 1)}
         /\ tasks' = [u \in Ids |-> IF \E i \in DOMAIN ids : ids[i] = u
                                    THEN StartLoose(heard[CHOOSE i \in DOMAIN ids : ids[i] = u].body)
                                    ELSE tasks[u]]
         /\ cpu' = ids
  BY DEF Fires
<1>2. Len(heard) \in Nat
  BY DEF Fires
<1> DEFINE n == Len(heard)
           body(u) == heard[CHOOSE i \in DOMAIN ids : ids[i] = u].body
<1>3. /\ n \in Nat /\ ids \in [1..n -> Free] /\ cpu' = ids
      /\ \A i \in 1..n : Free \cap 1..(ids[i] - 1) = {ids[j] : j \in 1..(i - 1)}
      /\ tasks' = [u \in Ids |-> IF \E i \in 1..n : ids[i] = u THEN StartLoose(body(u)) ELSE tasks[u]]
  BY <1>1, <1>2
<1> HIDE DEF heard, n, body
<1>4. Free \subseteq Ids /\ Ids \subseteq Nat /\ \A u \in Ids : ~Runs(tasks[u]) /\ IsTask(tasks[u])
  BY BoundsAssumption, NothingRuns DEF Free, Ids, IInv, Machine, AreTasks
<1>5. ids \in Seq(Ids) /\ Len(ids) = n
  <2>1. n \in Nat /\ ids \in [1..n -> Ids]
    BY <1>3, <1>4
  <2>2. ids \in Seq(Ids)
    BY <2>1
  <2> QED BY <2>1, <2>2
<1>6. ASSUME NEW i \in 1..n, NEW j \in 1..n, i < j PROVE ids[i] # ids[j]
  <2>1. i \in 1..(j - 1)
    BY <1>3, <1>6
  <2>2. ids[i] \in Free \cap 1..(ids[j] - 1)
    BY <1>3, <2>1
  <2>3. ids[i] \in Nat /\ ids[j] \in Nat
    BY <1>3, <1>4
  <2> QED BY <2>2, <2>3
<1>7. \A i, j \in 1..n : ids[i] = ids[j] => i = j
  <2> SUFFICES ASSUME NEW i \in 1..n, NEW j \in 1..n, ids[i] = ids[j] PROVE i = j
    OBVIOUS
  <2>1. i \in Nat /\ j \in Nat
    BY <1>3
  <2>2. i < j \/ j < i \/ i = j
    BY <2>1
  <2> QED BY <1>6, <2>2
<1>8. ASSUME NEW u \in Ids
      PROVE  IsTask(tasks'[u]) /\ (Runs(tasks'[u]) <=> \E i \in 1..n : ids[i] = u)
  <2>1. CASE \E i \in 1..n : ids[i] = u
    <3>1. tasks'[u] = StartLoose(body(u))
      BY <1>3, <2>1
    <3> QED BY <2>1, <3>1, StartIsTask
  <2>2. CASE ~\E i \in 1..n : ids[i] = u
    <3>1. tasks'[u] = tasks[u]
      BY <1>3, <2>2
    <3> QED BY <1>4, <2>2, <3>1
  <2> QED BY <2>1, <2>2
<1>9. AreTasks(tasks')
  <2>1. tasks' = [u \in Ids |-> tasks'[u]]
    BY <1>3
  <2> QED BY <1>8, <2>1 DEF AreTasks
<1>10. QueueIs(ids, Ready(tasks'))
  BY <1>5, <1>7, <1>8 DEF QueueIs, Ready
<1> QED BY <1>3, <1>9, <1>10 DEF Machine

LEMMA BrowserKeeps ==
  ASSUME IInv, Speaks \/ BrowserLeaves \/ BrowserErrs
  PROVE  IInv'
<1>1. PICK event : Fires(event)
  BY DEF Speaks, BrowserLeaves, BrowserErrs
<1>2. CanMove
  BY DEF Speaks, BrowserLeaves, BrowserErrs
<1>3. cpu = << >>
  BY <1>2 DEF CanMove, Quiet
<1>4. Machine(tasks', cpu')
  BY <1>1, <1>3, FiresKeeps
<1>5. UNCHANGED <<excused, slots>> /\ \E S : bound' = NamesBut(S)
  BY <1>1 DEF Fires
<1>7. AreNames(bound')
  BY <1>5, NamesKeep DEF IInv
<1>6. IsPage(page')
  <2>1. /\ page = [ws |-> page.ws, given |-> page.given, shut |-> page.shut, heard |-> page.heard, typed |-> page.typed]
        /\ page.ws \in {"none", "open", "left"} /\ page.typed \in 0..MaxMessages
        /\ page.ws = "left" => page.given
    BY DEF IInv, IsPage
  <2>2. CASE Speaks
    <3>1. page' = [page EXCEPT !.typed = page.typed + 1] /\ page.typed < MaxMessages
      BY <2>2 DEF Speaks
    <3>2. page.typed + 1 \in 0..MaxMessages
      BY <2>1, <3>1, BoundsAssumption
    <3> QED BY <2>1, <3>1, <3>2 DEF IsPage
  <2>3. CASE BrowserLeaves
    <3>1. page' = [page EXCEPT !.ws = "left"] /\ page.given
      BY <1>2, <2>3 DEF BrowserLeaves, CanMove
    <3> QED BY <2>1, <3>1 DEF IsPage
  <2>4. CASE BrowserErrs
    <3>1. page' = [page EXCEPT !.heard = Others("error")]
      BY <2>4 DEF BrowserErrs
    <3> QED BY <2>1, <3>1 DEF IsPage
  <2> QED BY <2>2, <2>3, <2>4
<1> QED BY <1>4, <1>5, <1>6, <1>7 DEF IInv

-----------------------------------------------------------------------------
LEMMA InitIInv == Init => IInv
<1> SUFFICES ASSUME Init PROVE IInv
  OBVIOUS
<1>1. PICK h \in DOMAIN Program :
         /\ excused = {p \in DOMAIN Excuses : h \in Excuses[p]}
         /\ tasks = [t \in Ids |-> IF t = 1 THEN Start(Program[h]) ELSE Idle]
  BY DEF Init
<1>2. 1 \in Ids
  BY BoundsAssumption DEF Ids
<1>3. AreTasks(tasks)
  BY <1>1, StartIsTask, IdleIsTask DEF AreTasks
<1>4. Ready(tasks) = {1}
  <2>1. \A t \in Ids \ {1} : ~Runs(tasks[t])
    BY <1>1, IdleIsTask DEF Runs
  <2>2. Runs(tasks[1])
    BY <1>1, <1>2, StartIsTask
  <2> QED BY <1>2, <2>1, <2>2 DEF Ready
<1>5. QueueIs(cpu, {1})
  <2>1. cpu \in Seq(Ids) /\ Len(cpu) = 1 /\ cpu[1] = 1
    BY <1>2 DEF Init
  <2> QED BY <1>2, <2>1 DEF QueueIs
<1>6. Machine(tasks, cpu)
  BY <1>3, <1>4, <1>5 DEF Machine
<1>7. AreSlots(slots) /\ AreNames(bound)
  <2>1. slots = << >> /\ bound = << >> /\ DOMAIN << >> = {}
    BY DEF Init
  <2>2. \A f : f = << >> => f = [x \in DOMAIN f |-> f[x]] /\ DOMAIN f = {}
    OBVIOUS
  <2> QED BY <2>1, <2>2 DEF AreSlots, AreNames
<1>8. IsPage(page)
  BY BoundsAssumption DEF Init, NoPage, IsPage
<1> QED BY <1>1, <1>6, <1>7, <1>8 DEF IInv

LEMMA NextIInv == IInv /\ [Next]_vars => IInv'
<1> SUFFICES ASSUME IInv, [Next]_vars PROVE IInv'
  OBVIOUS
<1>1. ASSUME NEW t \in Running,
             \/ Connects(t) \/ Locks(t) \/ Unlocks(t) \/ Closes(t) \/ Cancels(t) \/ Upgrades(t)
             \/ ForgetsLock(t) \/ ForgetsSocket(t)
             \/ Branches(t) \/ Tests(t) \/ Turns(t) \/ Jumps(t) \/ MayFail(t) \/ Resumes(t)
             \/ Calls(t) \/ CallsAndWaits(t) \/ Chains(t) \/ Settles(t) \/ Waits(t) \/ Clears(t)
             \/ Accepts(t) \/ HandsOver(t) \/ Listens(t) \/ Unlistens(t) \/ Sends(t) \/ ClosesWeb(t)
      PROVE  IInv'
  <2>1. CASE Locks(t) \/ Closes(t) \/ Cancels(t) \/ ForgetsLock(t) \/ ForgetsSocket(t)
    BY <2>1, LocksKeep
  <2>2. CASE Connects(t) \/ Unlocks(t)
    BY <2>2, ConnectsKeeps, UnlocksKeeps
  <2>3. CASE Upgrades(t) \/ Branches(t) \/ Tests(t) \/ Turns(t) \/ Jumps(t) \/ MayFail(t) \/ Resumes(t)
    BY <2>3, ControlKeeps
  <2>4. CASE Calls(t) \/ CallsAndWaits(t) \/ Chains(t) \/ Settles(t) \/ Waits(t) \/ Clears(t)
    BY <2>4, CallsKeeps, CallsAndWaitsKeeps, ChainsKeeps, SettlesKeeps, WaitsKeeps, ClearsKeeps
  <2>5. CASE Accepts(t) \/ HandsOver(t) \/ Listens(t) \/ Unlistens(t) \/ Sends(t) \/ ClosesWeb(t)
    BY <2>5, PageKeeps
  <2> QED BY <1>1, <2>1, <2>2, <2>3, <2>4, <2>5
<1>2. ASSUME NEW t \in Waiters, Joins(t) \/ Finds(t) PROVE IInv'
  BY <1>2, JoinsKeeps, FindsKeeps
<1>3. ASSUME Quiet, NEW t \in Waiters,
             \/ Succeeds(t) \/ Receives(t) \/ ReadsEnd(t) \/ Breaks(t)
             \/ Computes(t) \/ Rings(t) \/ TimesOut(t) \/ IsOvertaken(t)
      PROVE  IInv'
  BY <1>3, PeerKeeps, TimersKeep
<1>4. CASE Speaks \/ BrowserLeaves \/ BrowserErrs
  BY <1>4, BrowserKeeps
<1>5. CASE UNCHANGED vars
  BY <1>5 DEF vars, IInv
<1> QED BY <1>1, <1>2, <1>3, <1>4, <1>5 DEF Next

-----------------------------------------------------------------------------
(* The names and the handler.  How a step may change the task u from k: in  *)
(* New are the places it gives to new calls.                                *)

Follows(u, k, to) ==
  /\ to.kind = "loose" => k.kind = "loose"
  /\ 1 \notin to.wait.of
  /\ u = 1 => to.kind = "call" /\ to.state # "free" /\ (k.state # "running" => to.state = k.state)

TasksFollow(New) ==
  /\ New \subseteq Free
  /\ \A u \in Ids \ New : Follows(u, tasks[u], tasks'[u])
  /\ \A u \in New : 1 \notin tasks'[u].wait.of

NamesFollow(New) ==
  \A n \in DOMAIN bound' :
    \/ n \in DOMAIN bound /\ bound'[n] = bound[n] /\ bound[n] \notin New
    \/ /\ New = {bound'[n]} /\ tasks'[bound'[n]].kind = "call"
       /\ \A m \in DOMAIN bound' : bound'[m] = bound'[n] => m = n

(* Once the handler has answered its answer stands.                         *)
StaysAnswered == Answered => Answered' /\ tasks'[1].state = tasks[1].state

LEMMA NamesKept ==
  ASSUME IInv, Names, NEW New, TasksFollow(New), NamesFollow(New)
  PROVE  Names' /\ StaysAnswered
<1>1. 1 \in Ids /\ 1 \notin New
  BY BoundsAssumption DEF Ids, Names, TasksFollow, Free
<1>2. Follows(1, tasks[1], tasks'[1])
  BY <1>1 DEF TasksFollow
<1>3. New \subseteq Ids
  BY DEF TasksFollow, Free
<1>4. \A n, m \in DOMAIN bound' : bound'[n] = bound'[m] => n = m
  <2> SUFFICES ASSUME NEW n \in DOMAIN bound', NEW m \in DOMAIN bound', bound'[n] = bound'[m]
               PROVE  n = m
    OBVIOUS
  <2>1. CASE \A l \in DOMAIN bound' : bound'[l] = bound'[n] => l = n
    BY <2>1
  <2>2. CASE \A l \in DOMAIN bound' : bound'[l] = bound'[m] => l = m
    BY <2>2
  <2>3. CASE n \in DOMAIN bound /\ bound'[n] = bound[n] /\ m \in DOMAIN bound /\ bound'[m] = bound[m]
    BY <2>3 DEF Names
  <2> QED BY <2>1, <2>2, <2>3 DEF NamesFollow
<1>5. ASSUME NEW n \in DOMAIN bound'
      PROVE  bound'[n] # 1 /\ tasks'[bound'[n]].kind # "loose"
  <2>1. CASE n \in DOMAIN bound /\ bound'[n] = bound[n] /\ bound[n] \notin New
    <3>1. bound[n] \in Ids \ New /\ bound[n] # 1 /\ tasks[bound[n]].kind # "loose"
      BY <2>1 DEF IInv, AreNames, Names
    <3>2. Follows(bound[n], tasks[bound[n]], tasks'[bound[n]])
      BY <3>1 DEF TasksFollow
    <3> QED BY <2>1, <3>1, <3>2 DEF Follows
  <2>2. CASE New = {bound'[n]} /\ tasks'[bound'[n]].kind = "call"
    BY <1>1, <2>2
  <2> QED BY <2>1, <2>2 DEF NamesFollow
<1>6. tasks'[1].kind = "call" /\ tasks'[1].state # "free"
  BY <1>2 DEF Follows
<1>7. \A u \in Ids : 1 \notin tasks'[u].wait.of
  BY DEF TasksFollow, Follows
<1>8. Names'
  BY <1>4, <1>5, <1>6, <1>7 DEF Names
<1>9. StaysAnswered
  BY <1>2 DEF StaysAnswered, Answered, Ended, Follows
<1> QED BY <1>8, <1>9

LEMMA BoundStays == bound' = bound => NamesFollow({})
BY DEF NamesFollow

LEMMA StaysFollows ==
  ASSUME Names, NEW u \in Ids
  PROVE  Follows(u, tasks[u], tasks[u])
BY DEF Follows, Names

LEMMA IdleFollows ==
  ASSUME NEW u, u # 1, NEW k
  PROVE  Follows(u, k, Idle)
BY DEF Follows, Idle, NoWait

LEMMA EndsFollows ==
  ASSUME NEW u, NEW k, IsTask(k), k.state = "running", u = 1 => k.kind = "call",
         NEW how \in {"returned", "threw"}
  PROVE  Follows(u, k, Ends(k, how))
<1>1. CASE k.kind # "call"
  BY <1>1, IdleFollows DEF Ends
<1>2. CASE k.kind = "call"
  <2>1. Ends(k, how) = [k EXCEPT !.stack = << >>, !.wait = NoWait, !.state = how]
    BY <1>2 DEF Ends
  <2> QED BY <1>2, <2>1 DEF IsTask, Follows, NoWait
<1> QED BY <1>1, <1>2

LEMMA GoesFollows ==
  ASSUME NEW u, NEW k, IsTask(k), k.state = "running", u = 1 => k.kind = "call"
  PROVE  /\ \A stack : Follows(u, k, Goes(k, stack))
         /\ \A stack, e : Follows(u, k, Leaves(k, stack, e))
         /\ Follows(u, k, Throws(k))
<1>1. ASSUME NEW stack PROVE Follows(u, k, Goes(k, stack))
  <2> DEFINE rest == Settle(stack)
  <2>1. CASE rest = << >>
    <3>1. Goes(k, stack) = Ends(k, "returned")
      BY <2>1 DEF Goes
    <3> QED BY <3>1, EndsFollows
  <2>2. CASE rest # << >>
    <3>1. Goes(k, stack) = [k EXCEPT !.stack = rest, !.wait = NoWait]
      BY <2>2 DEF Goes
    <3> HIDE DEF rest
    <3> QED BY <3>1 DEF IsTask, Follows, NoWait
  <2> QED BY <2>1, <2>2
<1>2. ASSUME NEW stack, NEW e PROVE Follows(u, k, Leaves(k, stack, e))
  <2>1. CASE Escapes(stack, e)
    <3>1. PICK how \in {"returned", "threw"} : Leaves(k, stack, e) = Ends(k, how)
      BY <2>1 DEF Leaves
    <3> QED BY <3>1, EndsFollows
  <2>2. CASE ~Escapes(stack, e)
    <3>1. Leaves(k, stack, e) = Goes(k, Unwind(stack, e))
      BY <2>2 DEF Leaves
    <3> QED BY <1>1, <3>1
  <2> QED BY <2>1, <2>2
<1>3. Follows(u, k, Throws(k))
  BY <1>2 DEF Throws
<1> QED BY <1>1, <1>2, <1>3

(* Only t changes.                                                          *)
LEMMA OneFollows ==
  ASSUME IInv, Names, NEW t \in Ids, NEW k, Follows(t, tasks[t], k),
         tasks' = [tasks EXCEPT ![t] = k]
  PROVE  TasksFollow({})
<1>1. tasks = [u \in Ids |-> tasks[u]]
  BY DEF IInv, Machine, AreTasks
<1>2. tasks'[t] = k /\ \A u \in Ids \ {t} : tasks'[u] = tasks[u]
  BY <1>1
<1>3. ASSUME NEW u \in Ids PROVE Follows(u, tasks[u], tasks'[u])
  <2>1. CASE u = t
    BY <1>2, <2>1
  <2>2. CASE u # t
    <3>1. tasks'[u] = tasks[u]
      BY <1>2, <2>2
    <3> QED BY <3>1, StaysFollows
  <2> QED BY <2>1, <2>2
<1> QED BY <1>3 DEF TasksFollow

LEMMA StepFollows ==
  ASSUME IInv, Names, NEW t \in Running
  PROVE  /\ Continues(t) => TasksFollow({})
         /\ Fails(t) => TasksFollow({})
         /\ \A steps : GoesInto(t, steps) => TasksFollow({})
         /\ \A stack : Becomes(t, Goes(tasks[t], stack)) => TasksFollow({})
         /\ \A stack, e : Becomes(t, Leaves(tasks[t], stack, e)) => TasksFollow({})
<1>1. IsTask(tasks[t]) /\ tasks[t].state = "running" /\ t \in Ids /\ (t = 1 => tasks[t].kind = "call")
  BY RunningTask DEF Names
<1>2. ASSUME NEW stack, Becomes(t, Goes(tasks[t], stack)) PROVE TasksFollow({})
  <2>1. Follows(t, tasks[t], Goes(tasks[t], stack))
    BY <1>1, GoesFollows
  <2>2. tasks' = [tasks EXCEPT ![t] = Goes(tasks[t], stack)]
    BY <1>2 DEF Becomes
  <2> QED BY <1>1, <2>1, <2>2, OneFollows
<1>3. ASSUME NEW stack, NEW e, Becomes(t, Leaves(tasks[t], stack, e)) PROVE TasksFollow({})
  <2>1. Follows(t, tasks[t], Leaves(tasks[t], stack, e))
    BY <1>1, GoesFollows
  <2>2. tasks' = [tasks EXCEPT ![t] = Leaves(tasks[t], stack, e)]
    BY <1>3 DEF Becomes
  <2> QED BY <1>1, <2>1, <2>2, OneFollows
<1>4. Fails(t) => TasksFollow({})
  BY <1>3 DEF Fails, Throws
<1>5. Continues(t) => TasksFollow({})
  BY <1>2 DEF Continues
<1>6. ASSUME NEW steps PROVE GoesInto(t, steps) => TasksFollow({})
  BY <1>2 DEF GoesInto
<1> QED BY <1>2, <1>3, <1>4, <1>5, <1>6

(* The steps that change the task that runs, and no name.                   *)
LEMMA PlainFollow ==
  ASSUME IInv, Names, NEW t \in Running,
         \/ Locks(t) \/ Closes(t) \/ Cancels(t) \/ ForgetsLock(t) \/ ForgetsSocket(t)
         \/ Upgrades(t) \/ Branches(t) \/ Tests(t) \/ Turns(t) \/ Jumps(t) \/ MayFail(t) \/ Resumes(t)
         \/ Accepts(t) \/ HandsOver(t) \/ Listens(t) \/ Unlistens(t) \/ Sends(t) \/ ClosesWeb(t)
  PROVE  Names' /\ StaysAnswered
<1>1. bound' = bound
  BY DEF Locks, Closes, Cancels, ForgetsLock, ForgetsSocket, Upgrades, Branches, Tests, Turns,
         Jumps, MayFail, Resumes, Accepts, HandsOver, Listens, Unlistens, Sends, ClosesWeb, OnPage
<1>2. TasksFollow({})
  <2>1. CASE Locks(t) \/ Closes(t) \/ Cancels(t) \/ ForgetsLock(t) \/ ForgetsSocket(t)
    <3>1. Continues(t) \/ Fails(t)
      BY <2>1 DEF Locks, Closes, Cancels, ForgetsLock, ForgetsSocket
    <3> QED BY <3>1, StepFollows
  <2>2. CASE Upgrades(t) \/ MayFail(t) \/ Sends(t) \/ Accepts(t) \/ Listens(t) \/ Unlistens(t) \/ ClosesWeb(t)
    <3>1. Continues(t) \/ Fails(t)
      BY <2>2 DEF Upgrades, MayFail, Sends, Accepts, Listens, Unlistens, ClosesWeb
    <3> QED BY <3>1, StepFollows
  <2>3. CASE Branches(t) \/ Tests(t)
    <3>1. PICK steps : GoesInto(t, steps)
      BY <2>3 DEF Branches, Tests
    <3> QED BY <3>1, StepFollows
  <2>4. CASE Turns(t)
    BY <2>4, StepFollows DEF Turns
  <2>5. CASE Jumps(t) \/ Resumes(t) \/ HandsOver(t)
    BY <2>5, StepFollows DEF Jumps, Resumes, HandsOver
  <2> QED BY <2>1, <2>2, <2>3, <2>4, <2>5
<1> QED BY <1>1, <1>2, BoundStays, NamesKept

(* t goes on by itself beside others that change as they may.               *)
LEMMA BesideFollows ==
  ASSUME IInv, Names, NEW t \in Running, NEW stack, NEW New \in SUBSET Free,
         tasks'[t] = Goes(tasks[t], stack),
         \A u \in Ids \ ({t} \cup New) : tasks'[u] = tasks[u] \/ Follows(u, tasks[u], tasks'[u]),
         \A u \in New : 1 \notin tasks'[u].wait.of
  PROVE  TasksFollow(New)
<1>1. IsTask(tasks[t]) /\ tasks[t].state = "running" /\ t \in Ids /\ (t = 1 => tasks[t].kind = "call")
  BY RunningTask DEF Names
<1>2. Follows(t, tasks[t], tasks'[t])
  <2>1. Follows(t, tasks[t], Goes(tasks[t], stack))
    BY <1>1, GoesFollows
  <2> QED BY <2>1
<1>3. ASSUME NEW u \in Ids \ New PROVE Follows(u, tasks[u], tasks'[u])
  <2>1. CASE u = t
    BY <1>2, <2>1
  <2>2. CASE u # t /\ tasks'[u] = tasks[u]
    <3>1. Follows(u, tasks[u], tasks[u])
      BY StaysFollows
    <3> QED BY <2>2, <3>1
  <2>3. CASE u # t /\ tasks'[u] # tasks[u]
    BY <2>3
  <2> QED BY <2>1, <2>2, <2>3
<1> QED BY <1>3 DEF TasksFollow

LEMMA MovedFollows ==
  ASSUME IInv, Names, NEW u \in Ids, NEW where, tasks[u].wait.op # "none"
  PROVE  Follows(u, tasks[u], Moved(u, where))
<1> DEFINE k == tasks[u]
<1>1. IsTask(k) /\ k.wait # NoWait
  BY DEF IInv, Machine, AreTasks, NoWait
<1>2. /\ k.wait = [op |-> k.wait.op, on |-> k.wait.on, out |-> k.wait.out, of |-> k.wait.of, by |-> k.wait.by]
      /\ k = [stack |-> k.stack, wait |-> k.wait, got |-> k.got, state |-> k.state, kind |-> k.kind]
  BY <1>1 DEF IsTask, IsWait
<1>3. /\ Moved(u, where).wait.of = k.wait.of /\ Moved(u, where).kind = k.kind
      /\ Moved(u, where).state = k.state
  BY <1>2 DEF Moved
<1>4. Follows(u, k, k)
  BY StaysFollows
<1> QED BY <1>3, <1>4 DEF Follows

LEMMA ConnectsFollows ==
  ASSUME IInv, Names, NEW t \in Running, Connects(t) \/ Unlocks(t)
  PROVE  Names' /\ StaysAnswered
<1>1. bound' = bound /\ t \in Ids /\ tasks[t].wait = NoWait
  BY RunningTask DEF Connects, Unlocks
<1>2. TasksFollow({})
  <2>1. CASE Fails(t)
    BY <2>1, StepFollows
  <2>2. CASE Connects(t) /\ ~Fails(t)
    <3> DEFINE s == Step(t).on
               waits(u) == u # t /\ tasks[u].wait.op \in {"opened", "read", "write", "finish"} /\ tasks[u].wait.on = s
    <3>1. tasks' = [u \in Ids |-> IF u = t THEN Goes(tasks[t], Rest(t))
                                  ELSE IF waits(u) THEN Moved(u, "replaced") ELSE tasks[u]]
      BY <2>2 DEF Connects, Moved
    <3>2. \A u \in Ids : waits(u) => tasks[u].wait.op # "none"
      OBVIOUS
    <3> HIDE DEF waits
    <3>3. tasks'[t] = Goes(tasks[t], Rest(t))
      BY <1>1, <3>1
    <3>4. ASSUME NEW u \in Ids \ {t} PROVE tasks'[u] = tasks[u] \/ Follows(u, tasks[u], tasks'[u])
      <4>1. tasks'[u] = IF waits(u) THEN Moved(u, "replaced") ELSE tasks[u]
        BY <3>1
      <4> QED BY <3>2, <4>1, MovedFollows
    <3> QED BY <3>3, <3>4, BesideFollows
  <2>3. CASE Unlocks(t) /\ ~Fails(t)
    <3> DEFINE s     == Step(t).on
               end   == End(Step(t).op)
               reads == {u \in Ids : end = "reader" /\ tasks[u].wait.op = "read" /\ tasks[u].wait.on = s}
    <3>1. tasks' = [u \in Ids |-> IF u = t THEN Goes(tasks[t], Rest(t))
                                  ELSE IF u \in reads THEN Moved(u, "released") ELSE tasks[u]]
      BY <2>3 DEF Unlocks, Moved
    <3>2. \A u \in reads : tasks[u].wait.op # "none"
      OBVIOUS
    <3> HIDE DEF reads
    <3>3. tasks'[t] = Goes(tasks[t], Rest(t))
      BY <1>1, <3>1
    <3>4. ASSUME NEW u \in Ids \ {t} PROVE tasks'[u] = tasks[u] \/ Follows(u, tasks[u], tasks'[u])
      <4>1. tasks'[u] = IF u \in reads THEN Moved(u, "released") ELSE tasks[u]
        BY <3>1
      <4> QED BY <3>2, <4>1, MovedFollows
    <3> QED BY <3>3, <3>4, BesideFollows
  <2> QED BY <2>1, <2>2, <2>3
<1> QED BY <1>1, <1>2, BoundStays, NamesKept

(* A name stands for an async call or for nothing, never for the handler.   *)
LEMMA IdOfIsNamed ==
  ASSUME IInv, Names, NEW n
  PROVE  IdOf(n) # 1 /\ (IdOf(n) # 0 => IdOf(n) \in Ids)
BY IdOfIsId DEF IdOf, Names

(* The place of a new call is given, and the name that it is called by.     *)
LEMMA NewNames ==
  ASSUME IInv, Names, Free # {}
  PROVE  /\ bound' = NamesBut({NewId}) => NamesFollow({NewId})
         /\ \A n : bound' = With(NamesBut({NewId}), n, NewId) /\ tasks'[NewId].kind = "call"
                 => NamesFollow({NewId})
<1> DEFINE D == {m \in DOMAIN bound : bound[m] \notin {NewId}}
           b == NamesBut({NewId})
<1>1. b = [m \in D |-> bound[m]] /\ \A m \in D : m \in DOMAIN bound /\ bound[m] # NewId
  BY DEF NamesBut
<1> HIDE DEF D, b
<1>2. ASSUME bound' = b PROVE NamesFollow({NewId})
  BY <1>1, <1>2 DEF NamesFollow
<1>3. ASSUME NEW n, bound' = With(b, n, NewId), tasks'[NewId].kind = "call"
      PROVE  NamesFollow({NewId})
  <2>1. bound' = [x \in D \cup {n} |-> IF x = n THEN NewId ELSE b[x]]
    BY <1>1, <1>3 DEF With
  <2>2. /\ DOMAIN bound' = D \cup {n} /\ bound'[n] = NewId
        /\ \A x \in D : x # n => bound'[x] = bound[x]
    BY <1>1, <2>1
  <2>3. \A m \in DOMAIN bound' : bound'[m] = NewId => m = n
    BY <1>1, <2>2
  <2>4. ASSUME NEW x \in DOMAIN bound'
        PROVE  \/ x \in DOMAIN bound /\ bound'[x] = bound[x] /\ bound[x] \notin {NewId}
               \/ /\ {NewId} = {bound'[x]} /\ tasks'[bound'[x]].kind = "call"
                  /\ \A m \in DOMAIN bound' : bound'[m] = bound'[x] => m = x
    <3>1. CASE x = n
      BY <1>3, <2>2, <2>3, <3>1
    <3>2. CASE x # n
      BY <1>1, <2>2, <3>2
    <3> QED BY <3>1, <3>2
  <2> QED BY <2>4 DEF NamesFollow
<1>4. \A n : bound' = With(b, n, NewId) /\ tasks'[NewId].kind = "call" => NamesFollow({NewId})
  BY <1>3
<1> QED BY <1>2, <1>4 DEF b

LEMMA StartFollows ==
  ASSUME NEW steps
  PROVE  /\ Start(steps).kind = "call" /\ 1 \notin Start(steps).wait.of
         /\ 1 \notin StartLoose(steps).wait.of
<1> DEFINE stack == Settle(Push(steps, << >>))
<1>1. Start(steps) = [Idle EXCEPT !.stack = stack, !.state = "running"]
  BY DEF Start
<1>2. StartLoose(steps) = [Start(steps) EXCEPT !.kind = "loose"]
  BY DEF StartLoose
<1> HIDE DEF stack
<1> QED BY <1>1, <1>2 DEF Idle, NoWait

LEMMA CallsFollows ==
  ASSUME IInv, Names, NEW t \in Running, Calls(t)
  PROVE  Names' /\ StaysAnswered
<1> DEFINE n   == Step(t).name
           old == {u \in Ids : u = IdOf(n) /\ Ended(u) /\ Unwanted(u, t)}
<1>1. Free # {} /\ t \in Ids /\ tasks[t].state = "running"
  BY RunningTask DEF Calls
<1>2. NewId \in Ids /\ NewId \in Free /\ t # NewId
  BY <1>1, NewIdIsFree DEF Free
<1>3. tasks' = [u \in Ids |-> IF u = t THEN Goes(tasks[t], Rest(t))
                              ELSE IF u = NewId /\ n = "none" THEN StartLoose(Step(t).body)
                              ELSE IF u = NewId THEN Start(Step(t).body)
                              ELSE IF u \in old THEN Idle ELSE tasks[u]]
  BY DEF Calls
<1>4. bound' = IF n = "none" THEN NamesBut({NewId}) ELSE With(NamesBut({NewId}), n, NewId)
  BY DEF Calls
<1>5. 1 \notin old
  BY IdOfIsNamed
<1> HIDE DEF n, old
<1>6. tasks'[NewId] = IF n = "none" THEN StartLoose(Step(t).body) ELSE Start(Step(t).body)
  BY <1>2, <1>3
<1>7. \A u \in Ids \ {t, NewId} : tasks'[u] = IF u \in old THEN Idle ELSE tasks[u]
  BY <1>3
<1>8. tasks'[t] = Goes(tasks[t], Rest(t))
  BY <1>1, <1>3
<1>9. \A u \in Ids \ ({t} \cup {NewId}) : tasks'[u] = tasks[u] \/ Follows(u, tasks[u], tasks'[u])
  BY <1>5, <1>7, IdleFollows
<1>10. 1 \notin tasks'[NewId].wait.of
  BY <1>6, StartFollows
<1>11. TasksFollow({NewId})
  BY <1>2, <1>8, <1>9, <1>10, BesideFollows
<1>12. NamesFollow({NewId})
  <2>1. CASE n = "none"
    BY <1>1, <1>4, <2>1, NewNames
  <2>2. CASE n # "none"
    <3>1. tasks'[NewId].kind = "call"
      BY <1>6, <2>2, StartFollows
    <3> QED BY <1>1, <1>4, <2>2, <3>1, NewNames
  <2> QED BY <2>1, <2>2
<1> QED BY <1>11, <1>12, NamesKept

LEMMA CallsAndWaitsFollows ==
  ASSUME IInv, Names, NEW t \in Running, CallsAndWaits(t)
  PROVE  Names' /\ StaysAnswered
<1> DEFINE w   == Waiting(Join(NewId), {NewId}, IdOf(Step(t).by))
           new == Start(Step(t).body)
<1>1. Free # {} /\ bound' = NamesBut({NewId})
  BY DEF CallsAndWaits
<1>2. NewId \in Ids /\ tasks[NewId].state = "free"
  BY <1>1, NewIdIsFree
<1>3. t \in Ids /\ IsTask(tasks[t]) /\ tasks[t].state = "running" /\ t # NewId
  BY <1>2, RunningTask
<1>4. tasks = [u \in Ids |-> tasks[u]]
  BY DEF IInv, Machine, AreTasks
<1>5. tasks' = [tasks EXCEPT ![t].stack = Rest(t), ![t].wait = w,
                             ![t].wait.out = Step(t).out, ![NewId] = new]
  BY DEF CallsAndWaits
<1>6. tasks[t] = [stack |-> tasks[t].stack, wait |-> tasks[t].wait, got |-> tasks[t].got,
                  state |-> tasks[t].state, kind |-> tasks[t].kind]
  BY <1>3 DEF IsTask
<1>7. NewId # 1
  BY <1>2 DEF Names
<1>8. w = [op |-> Join(NewId).op, on |-> Join(NewId).on, out |-> Join(NewId).out, of |-> {NewId}, by |-> IdOf(Step(t).by)]
  BY DEF Waiting
<1> HIDE DEF new, w
<1>9. tasks'[t].wait.of = {NewId} /\ tasks'[t].state = "running" /\ tasks'[t].kind = tasks[t].kind
  BY <1>3, <1>4, <1>5, <1>6, <1>8
<1>10. Follows(t, tasks[t], tasks'[t])
  BY <1>3, <1>7, <1>9 DEF Follows, Names
<1>11. \A u \in Ids \ {t, NewId} : tasks'[u] = tasks[u]
  BY <1>4, <1>5
<1>12. tasks'[NewId] = new
  BY <1>2, <1>3, <1>4, <1>5
<1>13. 1 \notin tasks'[NewId].wait.of
  BY <1>12, StartFollows DEF new
<1>14. TasksFollow({NewId})
  <2>1. ASSUME NEW u \in Ids \ {NewId} PROVE Follows(u, tasks[u], tasks'[u])
    <3>1. CASE u = t
      BY <1>10, <3>1
    <3>2. CASE u # t
      <4>1. tasks'[u] = tasks[u] /\ Follows(u, tasks[u], tasks[u])
        BY <1>11, <3>2, StaysFollows
      <4> QED BY <4>1
    <3> QED BY <3>1, <3>2
  <2>2. {NewId} \subseteq Free
    BY <1>2 DEF Free
  <2> QED BY <1>13, <2>1, <2>2 DEF TasksFollow
<1>15. NamesFollow({NewId})
  BY <1>1, NewNames
<1> QED BY <1>14, <1>15, NamesKept

LEMMA ChainsFollows ==
  ASSUME IInv, Names, NEW t \in Running, Chains(t)
  PROVE  Names' /\ StaysAnswered
<1> DEFINE step  == Step(t)
           of    == {IdOf(step.after)} \ {0}
           wait  == Waiting(Join(step.after), of, 0)
           stack == <<Frame("try", Try(<< >>, step.bad \o <<Return>>))>> \o Push(step.body, << >>)
           kind  == IF step.name = "none" THEN "loose" ELSE "call"
           next  == [Idle EXCEPT !.stack = stack, !.wait = wait, !.state = "running", !.kind = kind]
<1>1. Free # {} /\ t \in Ids /\ tasks[t].state = "running"
  BY RunningTask DEF Chains
<1>2. NewId \in Ids /\ NewId \in Free /\ t # NewId
  BY <1>1, NewIdIsFree DEF Free
<1>3. tasks = [u \in Ids |-> tasks[u]]
  BY DEF IInv, Machine, AreTasks
<1>4. tasks' = [tasks EXCEPT ![t] = Goes(tasks[t], Rest(t)), ![NewId] = next]
  BY DEF Chains
<1>5. bound' = IF step.name = "none" THEN NamesBut({NewId}) ELSE With(NamesBut({NewId}), step.name, NewId)
  BY DEF Chains
<1>6. 1 \notin wait.of
  <2>1. 1 \notin of
    BY IdOfIsNamed
  <2>2. wait.of = of
    BY DEF Waiting
  <2> QED BY <2>1, <2>2
<1>7. next.kind = kind /\ next.wait = wait
  <2> HIDE DEF stack, wait, kind
  <2> QED BY DEF Idle
<1> HIDE DEF next, wait, stack
<1>8. tasks'[NewId] = next
  BY <1>1, <1>2, <1>3, <1>4
<1>9. tasks'[t] = Goes(tasks[t], Rest(t)) /\ \A u \in Ids \ ({t} \cup {NewId}) : tasks'[u] = tasks[u]
  BY <1>1, <1>2, <1>3, <1>4
<1>10. 1 \notin tasks'[NewId].wait.of
  BY <1>6, <1>7, <1>8
<1>11. TasksFollow({NewId})
  BY <1>2, <1>9, <1>10, BesideFollows
<1>12. NamesFollow({NewId})
  <2>1. CASE step.name = "none"
    BY <1>1, <1>5, <2>1, NewNames
  <2>2. CASE step.name # "none"
    <3>1. tasks'[NewId].kind = "call"
      BY <1>7, <1>8, <2>2
    <3> QED BY <1>1, <1>5, <2>2, <3>1, NewNames
  <2> QED BY <2>1, <2>2
<1> QED BY <1>11, <1>12, NamesKept

LEMMA SettlesFollows ==
  ASSUME IInv, Names, NEW t \in Running, Settles(t)
  PROVE  Names' /\ StaysAnswered
<1> DEFINE u    == IdOf(Step(t).name)
           done == IF Step(t).op = "resolve" THEN Goes(tasks[u], tasks[u].stack) ELSE Throws(tasks[u])
<1>1. bound' = bound /\ t \in Ids
  BY RunningTask DEF Settles
<1>2. tasks' = [v \in Ids |-> IF v = t THEN Goes(tasks[t], Rest(t))
                              ELSE IF v = u /\ tasks[u].wait.op = "signal" THEN done ELSE tasks[v]]
  BY DEF Settles
<1>3. ASSUME u \in Ids, tasks[u].wait.op = "signal"
      PROVE  Follows(u, tasks[u], done)
  <2>1. IsTask(tasks[u]) /\ tasks[u].wait # NoWait
    BY <1>3 DEF IInv, Machine, AreTasks, NoWait
  <2>2. tasks[u].state = "running"
    BY <2>1 DEF IsTask
  <2>3. u # 1
    BY IdOfIsNamed
  <2> HIDE DEF u
  <2> QED BY <2>1, <2>2, <2>3, GoesFollows
<1> HIDE DEF done
<1>4. \A v \in Ids \ {t} : tasks'[v] = tasks[v] \/ (v = u /\ tasks[u].wait.op = "signal" /\ tasks'[v] = done)
  BY <1>2
<1>5. tasks'[t] = Goes(tasks[t], Rest(t))
  BY <1>1, <1>2
<1> HIDE DEF u
<1>6. \A v \in Ids \ {t} : tasks'[v] = tasks[v] \/ Follows(v, tasks[v], tasks'[v])
  BY <1>3, <1>4
<1>7. TasksFollow({})
  BY <1>5, <1>6, BesideFollows
<1> QED BY <1>1, <1>7, BoundStays, NamesKept

LEMMA WaitsFollows ==
  ASSUME IInv, Names, NEW t \in Running, Waits(t)
  PROVE  Names' /\ StaysAnswered
<1> DEFINE step == Step(t)
           of == CASE step.op = "join" -> {IdOf(step.on)}
                   [] step.op \in {"joinAll", "joinSettled"} -> {IdOf(n) : n \in step.names}
                   [] OTHER -> {}
           wait == Waiting(step, of, IdOf(step.by))
           k == [tasks[t] EXCEPT !.stack = Rest(t), !.wait = wait]
<1>1. bound' = bound
  BY DEF Waits
<1>2. Fails(t) \/ Continues(t) \/ Becomes(t, k)
  BY DEF Waits
<1>3. ASSUME Becomes(t, k) PROVE TasksFollow({})
  <2>1. IsTask(tasks[t]) /\ tasks[t].state = "running" /\ t \in Ids
    BY RunningTask
  <2>2. 1 \notin of
    BY IdOfIsNamed
  <2>3. wait.of = of
    BY DEF Waiting
  <2> HIDE DEF of, wait
  <2>4. k.wait = wait /\ k.state = "running" /\ k.kind = tasks[t].kind
    BY <2>1 DEF IsTask
  <2> HIDE DEF k
  <2>5. Follows(t, tasks[t], k)
    BY <2>1, <2>2, <2>3, <2>4 DEF Follows, Names
  <2>6. tasks' = [tasks EXCEPT ![t] = k]
    BY <1>3 DEF Becomes
  <2> QED BY <2>1, <2>5, <2>6, OneFollows
<1> HIDE DEF k
<1>4. TasksFollow({})
  BY <1>2, <1>3, StepFollows
<1> QED BY <1>1, <1>4, BoundStays, NamesKept

LEMMA ClearsFollows ==
  ASSUME IInv, Names, NEW t \in Running, Clears(t)
  PROVE  Names' /\ StaysAnswered
<1> DEFINE n == Step(t).name
           T == {u \in Ids : u = IdOf(n) /\ tasks[u].wait.op = "sleep"}
<1>1. t \in Ids
  BY RunningTask
<1>2. tasks' = [u \in Ids |-> IF u = t THEN Goes(tasks[t], Rest(t)) ELSE IF u \in T THEN Idle ELSE tasks[u]]
  BY DEF Clears
<1>3. 1 \notin T
  BY IdOfIsNamed
<1> HIDE DEF T
<1>4. tasks'[t] = Goes(tasks[t], Rest(t))
  BY <1>1, <1>2
<1>5. \A u \in Ids \ {t} : tasks'[u] = IF u \in T THEN Idle ELSE tasks[u]
  BY <1>2
<1>6. \A u \in Ids \ {t} : tasks'[u] = tasks[u] \/ Follows(u, tasks[u], tasks'[u])
  BY <1>3, <1>5, IdleFollows
<1>7. TasksFollow({})
  BY <1>4, <1>6, BesideFollows
<1>8. bound' = bound \/ bound' = [m \in DOMAIN bound \ {n} |-> bound[m]]
  BY DEF Clears
<1> HIDE DEF n
<1>9. NamesFollow({})
  BY <1>8 DEF NamesFollow
<1> QED BY <1>7, <1>9, NamesKept

(* t goes on with what it has waited for.                                   *)
LEMMA WokenFollows ==
  ASSUME IInv, Names, NEW t \in Waiters, NEW got \in {"data", "end", "null"},
         NEW task, task = [tasks[t] EXCEPT !.got = got]
  PROVE  Follows(t, tasks[t], Goes(task, task.stack)) /\ Follows(t, tasks[t], Throws(task))
<1>1. IsTask(tasks[t]) /\ tasks[t].state = "running" /\ (t = 1 => tasks[t].kind = "call")
  BY WaitingTask DEF Names
<1>2. IsTask(task) /\ task.state = "running"
  BY <1>1, GotIsTask
<1>3. task.kind = tasks[t].kind /\ task.state = tasks[t].state
  BY <1>1 DEF IsTask
<1>4. t = 1 => task.kind = "call"
  BY <1>1, <1>3
<1>5. Follows(t, task, Goes(task, task.stack)) /\ Follows(t, task, Throws(task))
  BY <1>2, <1>4, GoesFollows
<1> QED BY <1>3, <1>5 DEF Follows

LEMMA WakesFollow ==
  ASSUME IInv, Names, NEW t \in Waiters,
         Delivers(t) \/ Rejects(t) \/ \E got \in {"data", "end", "null"} : Wakes(t, Gets(t, got))
  PROVE  TasksFollow({})
<1>1. IsTask(tasks[t]) /\ tasks[t].state = "running" /\ t \in Ids /\ (t = 1 => tasks[t].kind = "call")
  BY WaitingTask DEF Names
<1>2. tasks[t].got \in {"data", "end", "null"}
  BY <1>1 DEF IsTask
<1>3. PICK k : Follows(t, tasks[t], k) /\ tasks' = [tasks EXCEPT ![t] = k]
  <2>1. ASSUME NEW got \in {"data", "end", "null"} PROVE Follows(t, tasks[t], Gets(t, got))
    <3> DEFINE task == [tasks[t] EXCEPT !.got = got]
    <3>1. Gets(t, got) = Goes(task, task.stack) /\ task = [tasks[t] EXCEPT !.got = got]
      BY DEF Gets
    <3> HIDE DEF task
    <3> QED BY <3>1, WokenFollows
  <2>2. CASE Delivers(t)
    BY <1>2, <2>1, <2>2 DEF Delivers, Wakes
  <2>3. CASE Rejects(t)
    <3>1. Follows(t, tasks[t], Throws(tasks[t]))
      BY <1>1, GoesFollows
    <3> QED BY <2>3, <3>1 DEF Rejects, Wakes
  <2>4. CASE \E got \in {"data", "end", "null"} : Wakes(t, Gets(t, got))
    BY <2>1, <2>4 DEF Wakes
  <2> QED BY <2>2, <2>3, <2>4
<1> QED BY <1>1, <1>3, OneFollows

LEMMA JoinsFollows ==
  ASSUME IInv, Names, NEW t \in Waiters, Joins(t)
  PROVE  Names' /\ StaysAnswered
<1> DEFINE wait  == tasks[t].wait
           bad   == wait.op # "joinSettled" /\ \E u \in wait.of : tasks[u].state = "threw"
           got   == IF wait.op = "join" /\ wait.of # {} THEN tasks[First(wait.of)].got ELSE tasks[t].got
           task  == [tasks[t] EXCEPT !.got = got]
           next  == IF bad THEN Throws(task) ELSE Goes(task, task.stack)
           named == {bound[n] : n \in DOMAIN bound}
           over(u) == u \in wait.of \ named /\ Ended(u) /\ Unwanted(u, t)
<1>1. bound' = bound /\ t \in Ids /\ wait.of \in SUBSET Ids
  BY WaitingTask DEF Joins
<1>2. got \in {"data", "end", "null"}
  <2>1. \A u \in Ids : tasks[u].got \in {"data", "end", "null"}
    BY DEF IInv, Machine, AreTasks, IsTask
  <2>2. wait.of # {} => First(wait.of) \in Ids
    BY <1>1, FirstIsIn
  <2> HIDE DEF wait
  <2> QED BY <1>1, <2>1, <2>2
<1>3. Follows(t, tasks[t], next)
  <2>1. task = [tasks[t] EXCEPT !.got = got]
    OBVIOUS
  <2> HIDE DEF got, task, bad
  <2>2. Follows(t, tasks[t], Goes(task, task.stack)) /\ Follows(t, tasks[t], Throws(task))
    BY <1>2, <2>1, WokenFollows
  <2> QED BY <2>2
<1>4. tasks' = [u \in Ids |-> IF u = t THEN next ELSE IF over(u) THEN Idle ELSE tasks[u]]
  BY DEF Joins
<1>5. ~over(1)
  BY <1>1 DEF Names
<1> HIDE DEF next, over
<1>6. ASSUME NEW u \in Ids PROVE Follows(u, tasks[u], tasks'[u])
  <2>1. tasks'[u] = IF u = t THEN next ELSE IF over(u) THEN Idle ELSE tasks[u]
    BY <1>4
  <2>2. CASE u = t
    BY <1>3, <2>1, <2>2
  <2>3. CASE u # t /\ over(u)
    BY <1>5, <2>1, <2>3, IdleFollows
  <2>4. CASE u # t /\ ~over(u)
    BY <2>1, <2>4, StaysFollows
  <2> QED BY <2>2, <2>3, <2>4
<1>7. TasksFollow({})
  BY <1>6 DEF TasksFollow
<1> QED BY <1>1, <1>7, BoundStays, NamesKept

LEMMA AbandonsFollows ==
  ASSUME IInv, Names, NEW t \in Waiters, NEW out, Abandons(t, out)
  PROVE  Names' /\ StaysAnswered
<1> DEFINE wait == tasks[t].wait
           got  == IF out = "end" THEN "end" ELSE "null"
           next == IF out = "throw" THEN Throws(tasks[t]) ELSE Gets(t, got)
<1>1. bound' = bound /\ t \in Ids /\ wait.of \in SUBSET Ids
  BY WaitingTask DEF Abandons
<1>2. Follows(t, tasks[t], next)
  <2>1. IsTask(tasks[t]) /\ tasks[t].state = "running" /\ (t = 1 => tasks[t].kind = "call")
    BY WaitingTask DEF Names
  <2>2. Follows(t, tasks[t], Throws(tasks[t]))
    BY <2>1, GoesFollows
  <2>3. Follows(t, tasks[t], Gets(t, got))
    <3> DEFINE task == [tasks[t] EXCEPT !.got = got]
    <3>1. Gets(t, got) = Goes(task, task.stack) /\ task = [tasks[t] EXCEPT !.got = got]
      BY DEF Gets
    <3>2. got \in {"data", "end", "null"}
      OBVIOUS
    <3> HIDE DEF task, got
    <3> QED BY <3>1, <3>2, WokenFollows
  <2> QED BY <2>2, <2>3
<1>3. tasks' = [u \in Ids |-> IF u = t THEN next
                              ELSE IF u \in wait.of THEN [tasks[u] EXCEPT !.kind = "stray"] ELSE tasks[u]]
  BY DEF Abandons
<1>4. 1 \notin wait.of
  BY <1>1 DEF Names
<1> HIDE DEF next, wait
<1>5. ASSUME NEW u \in Ids PROVE Follows(u, tasks[u], tasks'[u])
  <2>1. tasks'[u] = IF u = t THEN next ELSE IF u \in wait.of THEN [tasks[u] EXCEPT !.kind = "stray"] ELSE tasks[u]
    BY <1>3
  <2>2. CASE u = t
    BY <1>2, <2>1, <2>2
  <2>3. CASE u # t /\ u \in wait.of
    <3>1. tasks'[u] = [tasks[u] EXCEPT !.kind = "stray"] /\ u # 1
      BY <1>4, <2>1, <2>3
    <3>2. IsTask(tasks[u]) /\ Follows(u, tasks[u], tasks[u])
      BY StaysFollows DEF IInv, Machine, AreTasks
    <3>3. tasks'[u].kind = "stray" /\ tasks'[u].wait = tasks[u].wait
      BY <3>1, <3>2 DEF IsTask
    <3> QED BY <3>1, <3>2, <3>3 DEF Follows
  <2>4. CASE u # t /\ u \notin wait.of
    BY <2>1, <2>4, StaysFollows
  <2> QED BY <2>2, <2>3, <2>4
<1>6. TasksFollow({})
  BY <1>5 DEF TasksFollow
<1> QED BY <1>1, <1>6, BoundStays, NamesKept

LEMMA WaitersFollow ==
  ASSUME IInv, Names, NEW t \in Waiters,
         \/ Joins(t) \/ Finds(t)
         \/ Succeeds(t) \/ Receives(t) \/ ReadsEnd(t) \/ Breaks(t)
         \/ Computes(t) \/ Rings(t) \/ TimesOut(t) \/ IsOvertaken(t)
  PROVE  Names' /\ StaysAnswered
<1>1. CASE Joins(t)
  BY <1>1, JoinsFollows
<1>2. CASE TimesOut(t) \/ IsOvertaken(t)
  <2>1. PICK out : Abandons(t, out)
    BY <1>2 DEF TimesOut, IsOvertaken
  <2> QED BY <2>1, AbandonsFollows
<1>3. CASE \/ Finds(t) \/ Succeeds(t) \/ Receives(t) \/ ReadsEnd(t) \/ Breaks(t)
           \/ Computes(t) \/ Rings(t)
  <2>1. bound' = bound
    BY <1>3 DEF Finds, Succeeds, Receives, ReadsEnd, Breaks, Computes, Rings, OnPeer
  <2>2. Delivers(t) \/ Rejects(t) \/ \E got \in {"data", "end", "null"} : Wakes(t, Gets(t, got))
    BY <1>3 DEF Finds, Succeeds, Receives, ReadsEnd, Breaks, Computes, Rings
  <2>3. TasksFollow({})
    BY <2>2, WakesFollow
  <2> QED BY <2>1, <2>3, BoundStays, NamesKept
<1> QED BY <1>1, <1>2, <1>3

LEMMA BrowserFollows ==
  ASSUME IInv, Names, Speaks \/ BrowserLeaves \/ BrowserErrs
  PROVE  Names' /\ StaysAnswered
<1>1. PICK event : Fires(event)
  BY DEF Speaks, BrowserLeaves, BrowserErrs
<1> DEFINE heard == Listeners(event)
<1>2. PICK ids \in [1..Len(heard) -> Free] :
         /\ tasks' = [u \in Ids |-> IF \E i \in DOMAIN ids : ids[i] = u
                                    THEN StartLoose(heard[CHOOSE i \in DOMAIN ids : ids[i] = u].body)
                                    ELSE tasks[u]]
         /\ bound' = NamesBut({ids[i] : i \in DOMAIN ids})
  BY <1>1 DEF Fires
<1> DEFINE New == {ids[i] : i \in DOMAIN ids}
           body(u) == heard[CHOOSE i \in DOMAIN ids : ids[i] = u].body
<1>3. New \subseteq Free
  BY <1>2
<1>4. \A u : u \in New <=> \E i \in DOMAIN ids : ids[i] = u
  OBVIOUS
<1> HIDE DEF heard, body
<1>5. tasks' = [u \in Ids |-> IF \E i \in DOMAIN ids : ids[i] = u THEN StartLoose(body(u)) ELSE tasks[u]]
  BY <1>2 DEF body
<1>6. bound' = NamesBut(New)
  BY <1>2
<1> HIDE DEF New
<1>7. TasksFollow(New)
  <2>1. ASSUME NEW u \in Ids \ New PROVE Follows(u, tasks[u], tasks'[u])
    <3>1. tasks'[u] = tasks[u]
      BY <1>4, <1>5
    <3>2. Follows(u, tasks[u], tasks[u])
      BY StaysFollows
    <3> QED BY <3>1, <3>2
  <2>2. ASSUME NEW u \in New PROVE 1 \notin tasks'[u].wait.of
    <3>1. u \in Ids
      BY <1>3 DEF Free
    <3>2. tasks'[u] = StartLoose(body(u))
      BY <1>4, <1>5, <3>1
    <3> QED BY <3>2, StartFollows
  <2> QED BY <1>3, <2>1, <2>2 DEF TasksFollow
<1>8. NamesFollow(New)
  BY <1>6 DEF NamesBut, NamesFollow
<1> QED BY <1>7, <1>8, NamesKept

LEMMA InitNames == Init => Names
<1> SUFFICES ASSUME Init PROVE Names
  OBVIOUS
<1>1. PICK h \in DOMAIN Program : tasks = [t \in Ids |-> IF t = 1 THEN Start(Program[h]) ELSE Idle]
  BY DEF Init
<1>2. 1 \in Ids
  BY BoundsAssumption DEF Ids
<1>3. tasks[1] = Start(Program[h]) /\ \A t \in Ids \ {1} : tasks[t] = Idle
  BY <1>1, <1>2
<1>4. tasks[1].kind = "call" /\ 1 \notin tasks[1].wait.of
  BY <1>3, StartFollows
<1>5. tasks[1].state # "free"
  BY <1>3, StartIsTask DEF Runs
<1>6. \A t \in Ids : 1 \notin tasks[t].wait.of
  BY <1>3, <1>4 DEF Idle, NoWait
<1>7. DOMAIN bound = {}
  BY DEF Init
<1> QED BY <1>4, <1>5, <1>6, <1>7 DEF Names

LEMMA NextNames == IInv /\ Names /\ [Next]_vars => Names' /\ StaysAnswered
<1> SUFFICES ASSUME IInv, Names, [Next]_vars PROVE Names' /\ StaysAnswered
  OBVIOUS
<1>1. ASSUME NEW t \in Running,
             \/ Connects(t) \/ Locks(t) \/ Unlocks(t) \/ Closes(t) \/ Cancels(t) \/ Upgrades(t)
             \/ ForgetsLock(t) \/ ForgetsSocket(t)
             \/ Branches(t) \/ Tests(t) \/ Turns(t) \/ Jumps(t) \/ MayFail(t) \/ Resumes(t)
             \/ Calls(t) \/ CallsAndWaits(t) \/ Chains(t) \/ Settles(t) \/ Waits(t) \/ Clears(t)
             \/ Accepts(t) \/ HandsOver(t) \/ Listens(t) \/ Unlistens(t) \/ Sends(t) \/ ClosesWeb(t)
      PROVE  Names' /\ StaysAnswered
  <2>1. CASE Connects(t) \/ Unlocks(t)
    BY <2>1, ConnectsFollows
  <2>2. CASE Calls(t) \/ CallsAndWaits(t) \/ Chains(t) \/ Settles(t) \/ Waits(t) \/ Clears(t)
    BY <2>2, CallsFollows, CallsAndWaitsFollows, ChainsFollows, SettlesFollows, WaitsFollows, ClearsFollows
  <2>3. CASE \/ Locks(t) \/ Closes(t) \/ Cancels(t) \/ ForgetsLock(t) \/ ForgetsSocket(t)
             \/ Upgrades(t) \/ Branches(t) \/ Tests(t) \/ Turns(t) \/ Jumps(t) \/ MayFail(t) \/ Resumes(t)
             \/ Accepts(t) \/ HandsOver(t) \/ Listens(t) \/ Unlistens(t) \/ Sends(t) \/ ClosesWeb(t)
    BY <2>3, PlainFollow
  <2> QED BY <1>1, <2>1, <2>2, <2>3
<1>2. ASSUME NEW t \in Waiters,
             \/ Joins(t) \/ Finds(t)
             \/ Succeeds(t) \/ Receives(t) \/ ReadsEnd(t) \/ Breaks(t)
             \/ Computes(t) \/ Rings(t) \/ TimesOut(t) \/ IsOvertaken(t)
      PROVE  Names' /\ StaysAnswered
  BY <1>2, WaitersFollow
<1>3. CASE Speaks \/ BrowserLeaves \/ BrowserErrs
  BY <1>3, BrowserFollows
<1>4. CASE UNCHANGED vars
  <2>1. bound' = bound /\ tasks' = tasks
    BY <1>4 DEF vars
  <2>2. TasksFollow({})
    BY <2>1, StaysFollows DEF TasksFollow
  <2> QED BY <2>1, <2>2, BoundStays, NamesKept
<1> QED BY <1>1, <1>2, <1>3, <1>4 DEF Next

LEMMA WellFormed == Spec => [](IInv /\ Names)
BY InitIInv, NextIInv, InitNames, NextNames, PTL DEF Spec

-----------------------------------------------------------------------------
(* The sockets are remembered: one that is live does not vanish behind      *)
(* another one, or behind a variable that is cleared.                       *)

Remembers(slot, to) ==
  /\ slot.dropped => to.dropped
  /\ Live(slot) => to.dropped \/ to.sock \in {slot.sock, "open", "ended", "failed", "closed"}

StaysRemembered == \A s \in DOMAIN slots : s \in DOMAIN slots' /\ Remembers(slots[s], slots'[s])

LEMMA SlotRemembered ==
  ASSUME NEW slot, IsSlot(slot)
  PROVE  /\ Remembers(slot, slot)
         /\ \A end \in {"reader", "writer"} : \A lock : Remembers(slot, [slot EXCEPT ![end] = lock])
         /\ \A end \in {"reader", "writer"} : \A lock, lost :
              Remembers(slot, [slot EXCEPT ![end] = lock, !.lost = lost])
         /\ \A lost : Remembers(slot, [slot EXCEPT !.lost = lost])
         /\ Remembers(slot, [slot EXCEPT !.sock = "closed", !.lost = FALSE])
         /\ Remembers(slot, [slot EXCEPT !.dropped = @ \/ Live(slot), !.sock = "forgotten", !.lost = FALSE])
         /\ Remembers(slot, [NewSocket EXCEPT !.dropped = slot.dropped \/ Live(slot)])
         /\ Remembers(slot, Opened_(slot))
         /\ \A how \in {"ended", "failed"} : Remembers(slot, Shut(slot, how))
<1>1. /\ slot = [sock |-> slot.sock, reader |-> slot.reader, writer |-> slot.writer,
                 lost |-> slot.lost, dropped |-> slot.dropped]
      /\ slot.dropped \in BOOLEAN
  BY DEF IsSlot, SlotType
<1>2. ASSUME NEW to, to.dropped = slot.dropped,
             to.sock \in {slot.sock, "open", "ended", "failed", "closed"}
      PROVE  Remembers(slot, to)
  BY <1>2 DEF Remembers
<1>3. ASSUME NEW to, to.dropped = (slot.dropped \/ Live(slot))
      PROVE  Remembers(slot, to)
  BY <1>3 DEF Remembers
<1>4. ASSUME NEW end \in {"reader", "writer"}, NEW lock, NEW lost
      PROVE  /\ Remembers(slot, [slot EXCEPT ![end] = lock])
             /\ Remembers(slot, [slot EXCEPT ![end] = lock, !.lost = lost])
             /\ Remembers(slot, [slot EXCEPT !.lost = lost])
  <2>1. /\ [slot EXCEPT ![end] = lock].dropped = slot.dropped
        /\ [slot EXCEPT ![end] = lock].sock = slot.sock
    BY <1>1
  <2>2. /\ [slot EXCEPT ![end] = lock, !.lost = lost].dropped = slot.dropped
        /\ [slot EXCEPT ![end] = lock, !.lost = lost].sock = slot.sock
    BY <1>1
  <2>3. /\ [slot EXCEPT !.lost = lost].dropped = slot.dropped
        /\ [slot EXCEPT !.lost = lost].sock = slot.sock
    BY <1>1
  <2> QED BY <1>2, <2>1, <2>2, <2>3
<1>5. ASSUME NEW how \in {"ended", "failed", "closed"}
      PROVE  Remembers(slot, [slot EXCEPT !.sock = how, !.lost = FALSE])
  <2>1. /\ [slot EXCEPT !.sock = how, !.lost = FALSE].dropped = slot.dropped
        /\ [slot EXCEPT !.sock = how, !.lost = FALSE].sock = how
    BY <1>1
  <2> QED BY <1>2, <2>1
<1>6. Remembers(slot, [slot EXCEPT !.dropped = @ \/ Live(slot), !.sock = "forgotten", !.lost = FALSE])
  <2>1. [slot EXCEPT !.dropped = @ \/ Live(slot), !.sock = "forgotten", !.lost = FALSE].dropped
          = (slot.dropped \/ Live(slot))
    BY <1>1
  <2> QED BY <1>3, <2>1
<1>7. Remembers(slot, [NewSocket EXCEPT !.dropped = slot.dropped \/ Live(slot)])
  <2>1. [NewSocket EXCEPT !.dropped = slot.dropped \/ Live(slot)].dropped = (slot.dropped \/ Live(slot))
    BY DEF NewSocket
  <2> QED BY <1>3, <2>1
<1>8. Remembers(slot, slot)
  BY <1>2
<1>9. Remembers(slot, Opened_(slot))
  <2>1. CASE slot.sock = "opening"
    <3>1. Opened_(slot).dropped = slot.dropped /\ Opened_(slot).sock = "open"
      BY <1>1, <2>1 DEF Opened_
    <3> QED BY <1>2, <3>1
  <2>2. CASE slot.sock # "opening"
    BY <1>8, <2>2 DEF Opened_
  <2> QED BY <2>1, <2>2
<1>10. \A how \in {"ended", "failed"} : Remembers(slot, Shut(slot, how))
  BY <1>5, <1>8 DEF Shut
<1> QED BY <1>4, <1>5, <1>6, <1>7, <1>8, <1>9, <1>10

LEMMA SetsRemembers ==
  ASSUME AreSlots(slots), NEW s, NEW slot, Known(s) => Remembers(slots[s], slot), Sets(s, slot)
  PROVE  StaysRemembered
<1>1. slots' = [r \in DOMAIN slots \cup {s} |-> IF r = s THEN slot ELSE slots[r]]
  BY DEF Sets, With
<1>2. ASSUME NEW r \in DOMAIN slots PROVE r \in DOMAIN slots' /\ Remembers(slots[r], slots'[r])
  <2>1. CASE r = s
    <3>1. r \in DOMAIN slots' /\ slots'[r] = slot
      BY <1>1, <2>1
    <3> QED BY <2>1, <3>1 DEF Known
  <2>2. CASE r # s
    <3>1. r \in DOMAIN slots' /\ slots'[r] = slots[r]
      BY <1>1, <2>2
    <3>2. Remembers(slots[r], slots[r])
      BY SlotRemembered DEF AreSlots
    <3> QED BY <3>1, <3>2
  <2> QED BY <2>1, <2>2
<1> QED BY <1>2 DEF StaysRemembered

LEMMA SameRemembered == IInv /\ slots' = slots => StaysRemembered
<1> SUFFICES ASSUME IInv, slots' = slots, NEW s \in DOMAIN slots PROVE Remembers(slots[s], slots[s])
  BY DEF StaysRemembered
<1> QED BY SlotRemembered DEF IInv, AreSlots

LEMMA RunningRemembers ==
  ASSUME IInv, NEW t \in Running,
         \/ Connects(t) \/ Locks(t) \/ Unlocks(t) \/ Closes(t) \/ Cancels(t)
         \/ ForgetsLock(t) \/ ForgetsSocket(t)
  PROVE  StaysRemembered
<1> DEFINE s   == Step(t).on
           end == End(Step(t).op)
<1>1. end \in {"reader", "writer"} /\ AreSlots(slots)
  BY DEF End, IInv
<1>2. UNCHANGED slots \/ \E slot : Sets(s, slot) /\ (Known(s) => Remembers(slots[s], slot))
  <2> SUFFICES ASSUME ~UNCHANGED slots
               PROVE  \E slot : Sets(s, slot) /\ (Known(s) => Remembers(slots[s], slot))
    OBVIOUS
  <2>1. CASE Connects(t)
    <3> DEFINE dropped == Known(s) /\ (slots[s].dropped \/ Live(slots[s]))
    <3>1. Sets(s, [NewSocket EXCEPT !.dropped = dropped])
      BY <2>1 DEF Connects
    <3>2. ASSUME Known(s) PROVE Remembers(slots[s], [NewSocket EXCEPT !.dropped = dropped])
      <4>1. IsSlot(slots[s])
        BY <3>2, KnownIsSlot
      <4>2. Remembers(slots[s], [NewSocket EXCEPT !.dropped = slots[s].dropped \/ Live(slots[s])])
        BY <4>1, SlotRemembered
      <4>3. dropped = (slots[s].dropped \/ Live(slots[s]))
        BY <3>2
      <4> HIDE DEF dropped
      <4> QED BY <4>2, <4>3
    <3> QED BY <3>1, <3>2
  <2>2. CASE Locks(t)
    <3>1. Known(s) /\ Sets(s, [slots[s] EXCEPT ![end] = "held"])
      BY <2>2 DEF Locks, Has
    <3>2. Remembers(slots[s], [slots[s] EXCEPT ![end] = "held"])
      BY <1>1, <3>1, KnownIsSlot, SlotRemembered
    <3> QED BY <3>1, <3>2
  <2>3. CASE Unlocks(t)
    <3>1. Known(s) /\ Sets(s, [slots[s] EXCEPT ![end] = "freed", !.lost = @ /\ end = "writer"])
      BY <2>3 DEF Unlocks, Has
    <3>2. Remembers(slots[s], [slots[s] EXCEPT ![end] = "freed", !.lost = @ /\ end = "writer"])
      <4>1. IsSlot(slots[s])
        BY <3>1, KnownIsSlot
      <4>2. slots[s] \in SlotType /\ \A lost : Remembers(slots[s], [slots[s] EXCEPT ![end] = "freed", !.lost = lost])
        BY <1>1, <4>1, SlotRemembered DEF IsSlot
      <4>3. [slots[s] EXCEPT ![end] = "freed", !.lost = @ /\ end = "writer"]
              = [slots[s] EXCEPT ![end] = "freed", !.lost = slots[s].lost /\ end = "writer"]
        BY <1>1, <4>2 DEF SlotType
      <4> QED BY <4>2, <4>3
    <3> QED BY <3>1, <3>2
  <2>4. CASE Closes(t)
    <3>1. Known(s) /\ Sets(s, [slots[s] EXCEPT !.sock = "closed", !.lost = FALSE])
      BY <2>4 DEF Closes, Has
    <3>2. Remembers(slots[s], [slots[s] EXCEPT !.sock = "closed", !.lost = FALSE])
      BY <3>1, KnownIsSlot, SlotRemembered
    <3> QED BY <3>1, <3>2
  <2>5. CASE Cancels(t)
    <3>1. Known(s) /\ Sets(s, [slots[s] EXCEPT !.lost = FALSE])
      BY <2>5 DEF Cancels
    <3>2. Remembers(slots[s], [slots[s] EXCEPT !.lost = FALSE])
      BY <3>1, KnownIsSlot, SlotRemembered
    <3> QED BY <3>1, <3>2
  <2>6. CASE ForgetsLock(t)
    <3>1. Known(s) /\ Sets(s, [slots[s] EXCEPT ![end] = "none"])
      BY <2>6 DEF ForgetsLock
    <3>2. Remembers(slots[s], [slots[s] EXCEPT ![end] = "none"])
      BY <1>1, <3>1, KnownIsSlot, SlotRemembered
    <3> QED BY <3>1, <3>2
  <2>7. CASE ForgetsSocket(t)
    <3>1. Known(s) /\ Sets(s, [slots[s] EXCEPT !.dropped = @ \/ Live(slots[s]), !.sock = "forgotten", !.lost = FALSE])
      BY <2>7 DEF ForgetsSocket
    <3>2. Remembers(slots[s], [slots[s] EXCEPT !.dropped = @ \/ Live(slots[s]), !.sock = "forgotten", !.lost = FALSE])
      BY <3>1, KnownIsSlot, SlotRemembered
    <3> QED BY <3>1, <3>2
  <2> QED BY <2>1, <2>2, <2>3, <2>4, <2>5, <2>6, <2>7
<1> QED BY <1>1, <1>2, SetsRemembers, SameRemembered

LEMMA PeerRemembers ==
  ASSUME IInv, Quiet, NEW t \in Waiters,
         Succeeds(t) \/ Receives(t) \/ ReadsEnd(t) \/ Breaks(t)
  PROVE  StaysRemembered
<1> DEFINE s == tasks[t].wait.on
<1>1. t \in Ids /\ AreSlots(slots)
  BY WaitingTask DEF IInv
<1>2. WaitsFor(t, {"opened", "read", "write", "finish"})
  BY DEF Succeeds, Receives, ReadsEnd, Breaks, OnPeer, WaitsFor
<1>3. IsSlot(slots[s])
  BY <1>1, <1>2, QuietKnows, KnownIsSlot
<1>4. PICK slot : Sets(s, slot) /\ Remembers(slots[s], slot)
  <2>1. CASE Succeeds(t) \/ Receives(t)
    BY <1>3, <2>1, SlotRemembered DEF Succeeds, Receives, On
  <2>2. CASE ReadsEnd(t)
    BY <1>3, <2>2, SlotRemembered DEF ReadsEnd, On
  <2>3. CASE Breaks(t)
    BY <1>3, <2>3, SlotRemembered DEF Breaks, On
  <2> QED BY <2>1, <2>2, <2>3
<1> QED BY <1>1, <1>4, SetsRemembers

LEMMA TimersRemember ==
  ASSUME IInv, Quiet, NEW t \in Waiters,
         Computes(t) \/ Rings(t) \/ TimesOut(t) \/ IsOvertaken(t)
  PROVE  StaysRemembered
<1> DEFINE wait == tasks[t].wait
<1>1. t \in Ids /\ AreSlots(slots)
  BY WaitingTask DEF IInv
<1>2. \/ UNCHANGED slots
      \/ wait.op = "read" /\ Sets(wait.on, [slots[wait.on] EXCEPT !.lost = Live(slots[wait.on])])
  BY DEF Computes, Rings, TimesOut, IsOvertaken, Abandons, On
<1>3. ASSUME wait.op = "read", Sets(wait.on, [slots[wait.on] EXCEPT !.lost = Live(slots[wait.on])])
      PROVE  StaysRemembered
  <2>1. IsSlot(slots[wait.on])
    BY <1>1, <1>3, QuietKnows, KnownIsSlot DEF WaitsFor
  <2>2. Remembers(slots[wait.on], [slots[wait.on] EXCEPT !.lost = Live(slots[wait.on])])
    BY <2>1, SlotRemembered
  <2> QED BY <1>1, <1>3, <2>2, SetsRemembers
<1> QED BY <1>2, <1>3, SameRemembered

LEMMA NextRemembers == IInv /\ [Next]_vars => StaysRemembered
<1> SUFFICES ASSUME IInv, [Next]_vars PROVE StaysRemembered
  OBVIOUS
<1>1. ASSUME NEW t \in Running,
             \/ Connects(t) \/ Locks(t) \/ Unlocks(t) \/ Closes(t) \/ Cancels(t)
             \/ ForgetsLock(t) \/ ForgetsSocket(t)
      PROVE  StaysRemembered
  BY <1>1, RunningRemembers
<1>2. ASSUME NEW t \in Running,
             \/ Upgrades(t)
             \/ Branches(t) \/ Tests(t) \/ Turns(t) \/ Jumps(t) \/ MayFail(t) \/ Resumes(t)
             \/ Calls(t) \/ CallsAndWaits(t) \/ Chains(t) \/ Settles(t) \/ Waits(t) \/ Clears(t)
             \/ Accepts(t) \/ HandsOver(t) \/ Listens(t) \/ Unlistens(t) \/ Sends(t) \/ ClosesWeb(t)
      PROVE  StaysRemembered
  <2>1. slots' = slots
    BY <1>2 DEF Upgrades, Branches, Tests, Turns, Jumps, MayFail, Resumes, Calls, CallsAndWaits, Chains,
                Settles, Waits, Clears, Accepts, HandsOver, Listens, Unlistens, Sends, ClosesWeb, OnPage
  <2> QED BY <2>1, SameRemembered
<1>3. ASSUME NEW t \in Waiters, Joins(t) \/ Finds(t) PROVE StaysRemembered
  <2>1. slots' = slots
    BY <1>3 DEF Joins, Finds
  <2> QED BY <2>1, SameRemembered
<1>4. ASSUME Quiet, NEW t \in Waiters,
             \/ Succeeds(t) \/ Receives(t) \/ ReadsEnd(t) \/ Breaks(t)
             \/ Computes(t) \/ Rings(t) \/ TimesOut(t) \/ IsOvertaken(t)
      PROVE  StaysRemembered
  BY <1>4, PeerRemembers, TimersRemember
<1>5. CASE Speaks \/ BrowserLeaves \/ BrowserErrs \/ UNCHANGED vars
  <2>1. slots' = slots
    BY <1>5 DEF Speaks, BrowserLeaves, BrowserErrs, Fires, vars
  <2> QED BY <2>1, SameRemembered
<1> QED BY <1>1, <1>2, <1>3, <1>4, <1>5 DEF Next

-----------------------------------------------------------------------------
(* Whatever steps a handler is made of, the runtime that runs it is well    *)
(* formed: every task that could go on is queued for it once, and nothing   *)
(* else is; an ended call waits for nothing; a name stands for the call it  *)
(* was given to and for no other, and never for the handler; a read is      *)
(* outstanding only on a socket that is live.                               *)
THEOREM TypeCorrect == Spec => []TypeOK
BY WellFormed, IInvTypeOK, PTL

(* A handler answers once: whatever is left of it when it has answered (a   *)
(* call that lost its race, a listener, a timer), nothing of it changes the *)
(* answer or runs in its place.                                             *)
THEOREM AnsweredForGood == Spec => [][StaysAnswered]_vars
BY WellFormed, NextNames, PTL DEF Spec

(* No leak is overlooked, whatever the handler does with its variables: a   *)
(* socket that is live stays live, or is closed, ended or failed, unless it *)
(* is counted as dropped, and a dropped one is counted to the end.  So that *)
(* SocketsClosed looks at every socket that was ever opened.                *)
THEOREM LeaksRemembered == Spec => [][StaysRemembered]_vars
BY InitIInv, NextIInv, NextRemembers, PTL DEF Spec
=============================================================================
