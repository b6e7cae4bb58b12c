--------------------------- MODULE HandlerRuntime ---------------------------
(* How the Workers runtime runs one request handler of src/src/worker.     *)
(*                                                                         *)
(* A task is an async call: the handler itself is task 1, an async call     *)
(* that is raced or not awaited is another.  A task runs until it waits or  *)
(* ends, and a task that is called runs before its caller goes on.  When    *)
(* no task can run, the peer, the network, a timer or the browser moves.    *)
(* The timers that are left when the handler answers are cleared            *)
(* (withRequestTimeoutCleanup, timers.ts), but not those of a session: the  *)
(* requests that ask for a WebSocket go round it (index.ts).                *)
EXTENDS HandlerSteps, Naturals, FiniteSets

CONSTANTS Program,   \* the handlers: a function from their names to their steps
          Excuses,   \* a function from the names of properties to the handlers
                     \* that are known not to have them
          MaxTasks,  \* how many async calls are followed at once
          MaxStrays, \* how many of them may have lost their race
          MaxMessages  \* how many messages the browser sends in a session

ASSUME BoundsAssumption == MaxTasks \in Nat \ {0} /\ MaxMessages \in Nat

VARIABLES excused,   \* the properties the running handler is excused from
          tasks,     \* its async calls
          cpu,       \* the tasks that can run; the first one runs
          bound,     \* the task a name stands for
          slots,     \* the sockets it has opened, by the name of their variable
          page       \* the WebSocket of its session, if it has one

vars == <<excused, tasks, cpu, bound, slots, page>>

Ids == 1..MaxTasks
First(S) == CHOOSE i \in S : \A j \in S : i <= j
With(f, k, v) == [x \in DOMAIN f \cup {k} |-> IF x = k THEN v ELSE f[x]]

-----------------------------------------------------------------------------
(* The stack of a task: from the top, what is left to do of each construct  *)
(* that is under way.                                                       *)

Frame(kind, of)    == [is |-> kind, of |-> of]
Push(steps, stack) == IF steps = << >> THEN stack ELSE <<Frame("code", steps)>> \o stack

(* What ends a construct: its last step, or a throw, a return, a break or a *)
(* continue.                                                                *)
Ending(kind, label) == [kind |-> kind, label |-> label]
Normal == Ending("normal", "none")
Thrown == Ending("throw", "none")

Catches(frame, e) == frame.is = "try" /\ frame.of.catches /\ e.kind = "throw"
Cleans(frame)     == frame.is \in {"try", "catch"} /\ frame.of.fin # << >>

Stops(frame, e) ==
  \/ Catches(frame, e)
  \/ Cleans(frame)
  \/ frame.is = "call" /\ e.kind = "return"
  \/ frame.is = "switch" /\ e.kind = "break" /\ e.label = "none"
  \/ frame.is = "loop" /\ e.kind \in {"break", "continue"} /\ e.label \in {"none", frame.of.label}

Escapes(stack, e) == \A i \in DOMAIN stack : ~Stops(stack[i], e)

(* The stack once e has left the frames from the top down to the first one  *)
(* that stops it.                                                           *)
Unwind(stack, e) ==
  LET i     == First({j \in DOMAIN stack : Stops(stack[j], e)})
      frame == stack[i]
      below == SubSeq(stack, i + 1, Len(stack))
  IN  IF Catches(frame, e)
      THEN Push(frame.of.catch, IF Cleans(frame) THEN <<Frame("catch", frame.of)>> \o below ELSE below)
      ELSE IF Cleans(frame) THEN Push(frame.of.fin, <<Frame("after", e)>> \o below)
      ELSE IF e.kind = "continue" THEN SubSeq(stack, i, Len(stack))
      ELSE below

(* One step towards the stack with what is to happen next on its top: a     *)
(* construct is entered, a finished one is left, a finally clause begins.   *)
Settled(stack) ==
  \/ stack = << >>
  \/ LET frame == Head(stack) IN
     \/ frame.is = "code" /\ Head(frame.of).op \notin {"loop", "try", "call", "switch"}
     \/ frame.is = "loop"
     \/ frame.is = "after" /\ frame.of # Normal

SettleOnce(stack) ==
  IF Settled(stack) THEN stack
  ELSE LET frame == Head(stack)
           step  == Head(frame.of)
           into  == <<Frame(step.op, step)>> \o Push(Tail(frame.of), Tail(stack))
       IN  CASE frame.is = "code" /\ step.op = "loop" -> into
             [] frame.is = "code" /\ step.op # "loop" -> Push(step.body, into)
             [] Cleans(frame) -> Push(frame.of.fin, <<Frame("after", Normal)>> \o Tail(stack))
             [] OTHER -> Tail(stack)

(* The stack with what is to happen next on its top: a step that acts, the  *)
(* turn of a loop, or what a finally clause has put off.  Deepest bounds    *)
(* the constructs that are entered and left on the way; there is nothing to *)
(* choose, and TLC stops with an error, where it is too small.              *)
Deepest == 40
Settle(stack) ==
  LET after[n \in 0..Deepest] == IF n = 0 THEN stack ELSE SettleOnce(after[n - 1])
  IN  after[CHOOSE n \in 0..Deepest : Settled(after[n])]

-----------------------------------------------------------------------------
(* Tasks.  "got" is what the last read gave.  A task is a "call" of another *)
(* one, "stray" once the race it ran in is lost, or "loose" when nobody has *)
(* its promise: an event listener, an async function called and forgotten.  *)

NoWait == [op |-> "none", of |-> {}]
Idle   == [stack |-> << >>, wait |-> NoWait, got |-> "data", state |-> "free", kind |-> "call"]
Start(steps) == [Idle EXCEPT !.stack = Settle(Push(steps, << >>)), !.state = "running"]
StartLoose(steps) == [Start(steps) EXCEPT !.kind = "loose"]

Free     == {t \in Ids : tasks[t].state = "free"}
NewId    == First(Free)
Ended(t) == tasks[t].state \in {"returned", "threw"}
Answered == Ended(1)

Ends(task, how) ==
  IF task.kind # "call" THEN Idle ELSE [task EXCEPT !.stack = << >>, !.wait = NoWait, !.state = how]

(* A task that goes on with a stack, and one whose top ends with e.         *)
Goes(task, stack) ==
  LET rest == Settle(stack) IN
  IF rest = << >> THEN Ends(task, "returned") ELSE [task EXCEPT !.stack = rest, !.wait = NoWait]
Leaves(task, stack, e) ==
  IF Escapes(stack, e) THEN Ends(task, IF e.kind = "throw" THEN "threw" ELSE "returned")
  ELSE Goes(task, Unwind(stack, e))
Throws(task) == Leaves(task, task.stack, Thrown)

Runs(task) == task.state = "running" /\ task.wait = NoWait

Top(t)    == Head(tasks[t].stack)
Step(t)   == Head(Top(t).of)
Rest(t)   == Push(Tail(Top(t).of), Tail(tasks[t].stack))
At(t, ops) == Top(t).is = "code" /\ Step(t).op \in ops

(* t becomes "task"; it keeps the processor unless it waits or has ended.   *)
Becomes(t, task) ==
  /\ tasks' = [tasks EXCEPT ![t] = task]
  /\ cpu' = IF Runs(task) THEN cpu ELSE Tail(cpu)

Continues(t)       == Becomes(t, Goes(tasks[t], Rest(t)))
GoesInto(t, steps) == Becomes(t, Goes(tasks[t], Push(steps, Rest(t))))
Fails(t)           == Becomes(t, Throws(tasks[t]))

-----------------------------------------------------------------------------
(* Sockets.  A reader or a writer is "none" until it is obtained, "held",   *)
(* and "freed" once its lock is released.  A read that lost its race is     *)
(* still outstanding ("lost"): nobody sees the chunk it takes.              *)

NewSocket == [sock |-> "opening", reader |-> "none", writer |-> "none", lost |-> FALSE, dropped |-> FALSE]

Live(slot)   == slot.sock \in {"opening", "open"}

(* Bug: the read that was outstanding stays so on a socket that has ended.  *)
Shut_KeepsRead(slot, how) == IF Live(slot) THEN [slot EXCEPT !.sock = how] ELSE slot

Shut(slot, how) == IF Live(slot) THEN [slot EXCEPT !.sock = how, !.lost = FALSE] ELSE slot

Known(s)     == s \in DOMAIN slots
Has(s, what) == Known(s) /\ slots[s][what] \notin {"none", "forgotten"}
Sets(s, slot) == slots' = With(slots, s, slot)

End(op) == IF op \in {"getReader", "freeReader", "forgetReader", "read"} THEN "reader" ELSE "writer"

(* A socket that replaces another in its variable: what was waited for on   *)
(* the old one is over, and the old one is "dropped" unless it was shut.    *)
Connects(t) ==
  /\ At(t, {"connect"})
  /\ UNCHANGED <<excused, bound, page>>
  /\ LET s == Step(t).on
         dropped == Known(s) /\ (slots[s].dropped \/ Live(slots[s]))
         waits(u) == u # t /\ tasks[u].wait.op \in {"opened", "read", "write", "finish"} /\ tasks[u].wait.on = s
     IN  \/ /\ Sets(s, [NewSocket EXCEPT !.dropped = dropped])
            /\ tasks' = [u \in Ids |-> IF u = t THEN Goes(tasks[t], Rest(t))
                                       ELSE IF waits(u) THEN [tasks[u] EXCEPT !.wait.on = "replaced"]
                                       ELSE tasks[u]]
            /\ cpu' = IF Runs(tasks'[t]) THEN cpu ELSE Tail(cpu)
         \/ Fails(t) /\ UNCHANGED slots

Locks(t) ==
  /\ At(t, {"getReader", "getWriter"})
  /\ UNCHANGED <<excused, bound, page>>
  /\ LET s   == Step(t).on
         end == End(Step(t).op)
     IN  IF Has(s, "sock") /\ slots[s][end] # "held"
         THEN Sets(s, [slots[s] EXCEPT ![end] = "held"]) /\ Continues(t)
         ELSE Fails(t) /\ UNCHANGED slots

(* While a read is outstanding, releaseLock() throws, or the read rejects.  *)
Unlocks(t) ==
  /\ At(t, {"freeReader", "freeWriter"})
  /\ UNCHANGED <<excused, bound, page>>
  /\ LET s     == Step(t).on
         end   == End(Step(t).op)
         reads == {u \in Ids : end = "reader" /\ tasks[u].wait.op = "read" /\ tasks[u].wait.on = s}
     IN  \/ /\ Has(s, end)
            /\ Sets(s, [slots[s] EXCEPT ![end] = "freed", !.lost = @ /\ end = "writer"])
            /\ tasks' = [u \in Ids |-> IF u = t THEN Goes(tasks[t], Rest(t))
                                       ELSE IF u \in reads THEN [tasks[u] EXCEPT !.wait.on = "released"]
                                       ELSE tasks[u]]
            /\ cpu' = IF Runs(tasks'[t]) THEN cpu ELSE Tail(cpu)
         \/ /\ Has(s, end) => end = "reader" /\ (slots[s].lost \/ reads # {})
            /\ Fails(t) /\ UNCHANGED slots

Closes(t) ==
  /\ At(t, {"close"})
  /\ UNCHANGED <<excused, bound, page>>
  /\ LET s == Step(t).on IN
     \/ /\ Has(s, "sock")
        /\ Sets(s, [slots[s] EXCEPT !.sock = "closed", !.lost = FALSE])
        /\ Continues(t)
     \/ /\ Has(s, "sock") => slots[s].sock = "failed"
        /\ Fails(t) /\ UNCHANGED slots

Cancels(t) ==
  /\ At(t, {"cancel"})
  /\ UNCHANGED <<excused, bound, page>>
  /\ LET s == Step(t).on IN
     IF Known(s) /\ slots[s].reader # "freed"
     THEN Sets(s, [slots[s] EXCEPT !.lost = FALSE]) /\ Continues(t)
     ELSE Fails(t) /\ UNCHANGED slots

Upgrades(t) ==
  /\ At(t, {"startTls"})
  /\ UNCHANGED <<excused, bound, slots, page>>
  /\ IF Has(Step(t).on, "sock") /\ "held" \notin {slots[Step(t).on].reader, slots[Step(t).on].writer}
     THEN Continues(t) ELSE Fails(t)

ForgetsLock(t) ==
  /\ At(t, {"forgetReader", "forgetWriter"})
  /\ UNCHANGED <<excused, bound, page>>
  /\ LET s == Step(t).on IN
     IF Known(s) THEN Sets(s, [slots[s] EXCEPT ![End(Step(t).op)] = "none"]) ELSE UNCHANGED slots
  /\ Continues(t)

ForgetsSocket(t) ==
  /\ At(t, {"forgetSocket"})
  /\ UNCHANGED <<excused, bound, page>>
  /\ LET s == Step(t).on IN
     IF Known(s)
     THEN Sets(s, [slots[s] EXCEPT !.dropped = @ \/ Live(slots[s]), !.sock = "forgotten", !.lost = FALSE])
     ELSE UNCHANGED slots
  /\ Continues(t)

-----------------------------------------------------------------------------
(* Control.                                                                 *)

Branches(t) ==
  /\ At(t, {"either"})
  /\ UNCHANGED <<excused, bound, slots, page>>
  /\ \E way \in {Step(t).a, Step(t).b} : GoesInto(t, way)

Tests(t) ==
  /\ At(t, {"if"})
  /\ UNCHANGED <<excused, bound, slots, page>>
  /\ LET test  == Step(t).test
         holds == CASE "got" \in DOMAIN test -> tasks[t].got \in test.got
                    [] "web" \in DOMAIN test -> page.ws = test.web /\ (page.shut => test.web = "left")
                    [] OTHER -> Has(test.on, test.has) = test.is
     IN  GoesInto(t, IF holds THEN Step(t).a ELSE Step(t).b)

Turns(t) ==
  /\ Top(t).is = "loop"
  /\ UNCHANGED <<excused, bound, slots, page>>
  /\ \/ Becomes(t, Goes(tasks[t], Push(Top(t).of.body, tasks[t].stack)))
     \/ Top(t).of.ends /\ Becomes(t, Goes(tasks[t], Tail(tasks[t].stack)))

Jumps(t) ==
  /\ At(t, {"throw", "return", "break", "continue"})
  /\ UNCHANGED <<excused, bound, slots, page>>
  /\ Becomes(t, Leaves(tasks[t], tasks[t].stack, Ending(Step(t).op, Step(t).label)))

MayFail(t) ==
  /\ At(t, {"mayThrow"})
  /\ UNCHANGED <<excused, bound, slots, page>>
  /\ Continues(t) \/ Fails(t)

(* The end of a finally clause that a throw or a return has entered.        *)
Resumes(t) ==
  /\ Top(t).is = "after"
  /\ UNCHANGED <<excused, bound, slots, page>>
  /\ Becomes(t, Leaves(tasks[t], Tail(tasks[t].stack), Top(t).of))

-----------------------------------------------------------------------------
(* Async calls, and what a task waits for: "of" are the tasks it waits for, *)
(* "by" is the task raced against the call, 0 when there is none.           *)

Waiting(step, of, by) == [op |-> step.op, on |-> step.on, out |-> step.out, of |-> of, by |-> by]
IdOf(n) == IF n \in DOMAIN bound THEN bound[n] ELSE 0

(* The names that are left when the tasks of S are taken for new calls.     *)
NamesBut(S) == [n \in {m \in DOMAIN bound : bound[m] \notin S} |-> bound[n]]

(* Nobody but t waits for the task u.                                       *)
Unwanted(u, t) == \A v \in Ids \ {t} : u \notin tasks[v].wait.of

(* An async function is called: it runs up to its first wait.               *)
Calls(t) ==
  /\ At(t, {"task"}) /\ Free # {}
  /\ UNCHANGED <<excused, slots, page>>
  /\ LET n   == Step(t).name
         old == {u \in Ids : u = IdOf(n) /\ Ended(u) /\ Unwanted(u, t)}
     IN  /\ bound' = IF n = "none" THEN NamesBut({NewId}) ELSE With(NamesBut({NewId}), n, NewId)
         /\ tasks' = [u \in Ids |-> IF u = t THEN Goes(tasks[t], Rest(t))
                                    ELSE IF u = NewId /\ n = "none" THEN StartLoose(Step(t).body)
                                    ELSE IF u = NewId THEN Start(Step(t).body)
                                    ELSE IF u \in old THEN Idle ELSE tasks[u]]
  /\ cpu' = <<NewId>> \o (IF Runs(tasks'[t]) THEN cpu ELSE Tail(cpu))

CallsAndWaits(t) ==
  /\ At(t, {"raceTask"}) /\ Free # {}
  /\ UNCHANGED <<excused, slots, page>>
  /\ bound' = NamesBut({NewId})
  /\ tasks' = [tasks EXCEPT ![t].stack = Rest(t),
                            ![t].wait = Waiting(Join(NewId), {NewId}, IdOf(Step(t).by)),
                            ![t].wait.out = Step(t).out,
                            ![NewId] = Start(Step(t).body)]
  /\ cpu' = <<NewId>> \o Tail(cpu)

(* promise.then(...): a task that waits for the one before it.              *)
Chains(t) ==
  /\ At(t, {"then"}) /\ Free # {}
  /\ UNCHANGED <<excused, slots, page>>
  /\ LET step == Step(t)
         of   == {IdOf(step.after)} \ {0}
         next == [Idle EXCEPT !.stack = <<Frame("try", Try(<< >>, step.bad \o <<Return>>))>> \o Push(step.body, << >>),
                              !.wait  = Waiting(Join(step.after), of, 0),
                              !.state = "running",
                              !.kind  = IF step.name = "none" THEN "loose" ELSE "call"]
     IN  /\ bound' = IF step.name = "none" THEN NamesBut({NewId})
                     ELSE With(NamesBut({NewId}), step.name, NewId)
         /\ tasks' = [tasks EXCEPT ![t] = Goes(tasks[t], Rest(t)), ![NewId] = next]
  /\ cpu' = IF Runs(tasks'[t]) THEN cpu ELSE Tail(cpu)

(* resolve() or reject(): only the first one counts.                        *)
Settles(t) ==
  /\ At(t, {"resolve", "reject"})
  /\ UNCHANGED <<excused, slots, bound, page>>
  /\ LET u    == IdOf(Step(t).name)
         done == IF Step(t).op = "resolve" THEN Goes(tasks[u], tasks[u].stack) ELSE Throws(tasks[u])
     IN  /\ tasks' = [v \in Ids |-> IF v = t THEN Goes(tasks[t], Rest(t))
                                    ELSE IF v = u /\ tasks[u].wait.op = "signal" THEN done ELSE tasks[v]]
         /\ cpu' = (IF Runs(tasks'[t]) THEN cpu ELSE Tail(cpu))
                     \o (IF u \in Ids \ {t} /\ tasks[u].wait.op = "signal" /\ Runs(done) THEN <<u>> ELSE << >>)

(* A call on a reader or a writer that is not held is refused at once, and  *)
(* the opening of a socket that is open is over at once.                    *)
Waits(t) ==
  /\ At(t, {"opened", "read", "write", "finish", "other", "sleep", "signal", "join", "joinAll", "joinSettled"})
  /\ UNCHANGED <<excused, slots, bound, page>>
  /\ LET step    == Step(t)
         of      == CASE step.op = "join" -> {IdOf(step.on)}
                      [] step.op \in {"joinAll", "joinSettled"} -> {IdOf(n) : n \in step.names}
                      [] OTHER -> {}
         refused == \/ step.op = "opened" /\ ~Has(step.on, "sock")
                    \/ step.op \in {"read", "write", "finish"} /\ (Known(step.on) => slots[step.on][End(step.op)] # "held")
         over    == \/ step.op = "opened" /\ Known(step.on) /\ slots[step.on].sock \in {"open", "ended"}
                    \/ 0 \in of
     IN  IF refused THEN Fails(t)
         ELSE IF over THEN Continues(t)
         ELSE Becomes(t, [tasks[t] EXCEPT !.stack = Rest(t), !.wait = Waiting(step, of, IdOf(step.by))])

(* clearTimeout: a timer's callback that has not run never runs.            *)
Clears(t) ==
  /\ At(t, {"clearTimer"})
  /\ UNCHANGED <<excused, slots, page>>
  /\ LET n == Step(t).name
         timer == {u \in Ids : u = IdOf(n) /\ tasks[u].wait.op = "sleep"}
     IN  /\ bound' = IF timer = {} THEN bound ELSE [m \in DOMAIN bound \ {n} |-> bound[m]]
         /\ tasks' = [u \in Ids |-> IF u = t THEN Goes(tasks[t], Rest(t))
                                    ELSE IF u \in timer THEN Idle ELSE tasks[u]]
  /\ cpu' = IF Runs(tasks'[t]) THEN cpu ELSE Tail(cpu)

-----------------------------------------------------------------------------
(* The WebSocket.  The handler has "given" its other end to the browser     *)
(* once it has answered with it; "shut" is the handler's own close().       *)

NoPage == [ws |-> "none", given |-> FALSE, shut |-> FALSE, heard |-> << >>, typed |-> 0]
Session == page.ws # "none"

OnPage(t, op) == At(t, {op}) /\ UNCHANGED <<excused, slots, bound>>
Accepts(t)    == OnPage(t, "accept") /\ page' = [page EXCEPT !.ws = "open"] /\ Continues(t)
ClosesWeb(t)  == OnPage(t, "closeWeb") /\ page' = [page EXCEPT !.shut = TRUE] /\ Continues(t)
Listens(t)    == OnPage(t, "listen") /\ page' = [page EXCEPT !.heard = Append(@, Step(t).heard)] /\ Continues(t)
Unlistens(t)  == /\ OnPage(t, "unlisten")
                 /\ page' = [page EXCEPT !.heard = SelectSeq(@, LAMBDA l : l.name # Step(t).name)]
                 /\ Continues(t)
HandsOver(t)  == /\ OnPage(t, "handOver")
                 /\ page' = [page EXCEPT !.given = TRUE]
                 /\ Becomes(t, Leaves(tasks[t], tasks[t].stack, Ending("return", "none")))

(* send() throws after close(), and may throw once the browser has left.    *)
Sends(t) ==
  /\ OnPage(t, "send") /\ UNCHANGED page
  /\ \/ ~page.shut /\ Continues(t)
     \/ (page.shut \/ page.ws = "left") /\ Fails(t)

-----------------------------------------------------------------------------
(* What has been waited for happens.                                        *)

Wakes(t, task) ==
  /\ tasks' = [tasks EXCEPT ![t] = task]
  /\ cpu' = IF task.state = "running" THEN <<t>> ELSE << >>
Gets(t, got) == LET task == [tasks[t] EXCEPT !.got = got] IN Goes(task, task.stack)
Delivers(t)  == Wakes(t, Gets(t, tasks[t].got))
Rejects(t)   == Wakes(t, Throws(tasks[t]))

WaitsFor(t, ops) == tasks[t].wait.op \in ops
On(t)   == slots[tasks[t].wait.on]

(* What is over by what the handler itself has done: the end of a task, or  *)
(* the close of a socket.                                                   *)
Joinable(t) ==
  LET of == tasks[t].wait.of IN
  \/ WaitsFor(t, {"join", "joinAll", "joinSettled"}) /\ \A u \in of : Ended(u)
  \/ WaitsFor(t, {"joinAll"}) /\ \E u \in of : tasks[u].state = "threw"
Dead(t) == /\ WaitsFor(t, {"opened", "read", "write", "finish"})
           /\ Known(tasks[t].wait.on) => On(t).sock \in {"closed", "ended", "failed"}
Quiet   == cpu = << >> /\ \A t \in Ids : ~Joinable(t) /\ ~Dead(t)

Joins(t) ==
  /\ Joinable(t)
  /\ UNCHANGED <<excused, slots, bound, page>>
  /\ LET wait  == tasks[t].wait
         bad   == wait.op # "joinSettled" /\ \E u \in wait.of : tasks[u].state = "threw"
         got   == IF wait.op = "join" /\ wait.of # {} THEN tasks[First(wait.of)].got ELSE tasks[t].got
         task  == [tasks[t] EXCEPT !.got = got]
         next  == IF bad THEN Throws(task) ELSE Goes(task, task.stack)
         named == {bound[n] : n \in DOMAIN bound}
     IN  /\ tasks' = [u \in Ids |-> IF u = t THEN next
                                    ELSE IF u \in wait.of \ named /\ Ended(u) /\ Unwanted(u, t) THEN Idle
                                    ELSE tasks[u]]
         /\ cpu' = IF Runs(next) THEN <<t>> ELSE << >>

Finds(t) ==
  /\ Dead(t)
  /\ UNCHANGED <<excused, slots, bound, page>>
  /\ \/ Rejects(t)
     \/ WaitsFor(t, {"read"}) /\ tasks[t].wait.on # "released" /\ Wakes(t, Gets(t, "end"))

-----------------------------------------------------------------------------
(* The peer, the network and the timers.  In a session, data and messages   *)
(* come only while MaxTasks leaves room for what they may start.            *)

HasRoom   == Cardinality(Free) >= 2
Active  == ~Answered \/ Session

OnPeer(t, ops) ==
  /\ WaitsFor(t, ops)
  /\ UNCHANGED <<excused, bound, page>>
Opened_(slot) == IF slot.sock = "opening" THEN [slot EXCEPT !.sock = "open"] ELSE slot

Succeeds(t) ==
  /\ OnPeer(t, {"opened", "write", "finish"})
  /\ Sets(tasks[t].wait.on, Opened_(On(t)))
  /\ Delivers(t)

Receives(t) ==
  /\ OnPeer(t, {"read"}) /\ (Session => HasRoom)
  /\ Sets(tasks[t].wait.on, Opened_(On(t)))
  /\ Wakes(t, Gets(t, "data"))

ReadsEnd(t) ==
  /\ OnPeer(t, {"read"})
  /\ Sets(tasks[t].wait.on, Shut(On(t), "ended"))
  /\ Wakes(t, Gets(t, "end"))

Breaks(t) ==
  /\ OnPeer(t, {"opened", "read", "write", "finish"})
  /\ Sets(tasks[t].wait.on, Shut(On(t), "failed"))
  /\ Rejects(t)

Computes(t) ==
  /\ WaitsFor(t, {"other"})
  /\ UNCHANGED <<excused, bound, slots, page>>
  /\ Delivers(t) \/ Rejects(t)

Rings(t) ==
  /\ WaitsFor(t, {"sleep"}) /\ Active
  /\ UNCHANGED <<excused, bound, slots, page>>
  /\ Delivers(t)

(* The call t waits for has lost its race: its read stays outstanding, its  *)
(* task goes on by itself.                                                  *)
Abandons(t, out) ==
  LET wait == tasks[t].wait
      next == IF out = "throw" THEN Throws(tasks[t]) ELSE Gets(t, IF out = "end" THEN "end" ELSE "null")
  IN
  /\ wait.of # {} => Cardinality({u \in Ids : tasks[u].kind = "stray"}) < MaxStrays
  /\ UNCHANGED <<excused, bound, page>>
  /\ IF wait.op = "read" THEN Sets(wait.on, [On(t) EXCEPT !.lost = Live(On(t))]) ELSE UNCHANGED slots
  /\ tasks' = [u \in Ids |-> IF u = t THEN next
                             ELSE IF u \in wait.of THEN [tasks[u] EXCEPT !.kind = "stray"]
                             ELSE tasks[u]]
  /\ cpu' = IF Runs(next) THEN <<t>> ELSE << >>

TimesOut(t) ==
  /\ Active /\ tasks[t].wait.out # "none"
  /\ Abandons(t, tasks[t].wait.out)

IsOvertaken(t) ==
  /\ tasks[t].wait.by # 0 /\ Ended(tasks[t].wait.by)
  /\ Abandons(t, IF tasks[tasks[t].wait.by].state = "threw" THEN "throw" ELSE "null")

-----------------------------------------------------------------------------
(* The browser.                                                             *)

CanMove == Quiet /\ Answered /\ page.ws = "open" /\ page.given

Listeners(event) == SelectSeq(page.heard, LAMBDA l : l.event = event)
Others(event)    == SelectSeq(page.heard, LAMBDA l : l.event # event)

(* An event runs its listeners, in the order they were added.               *)
Fires(event) ==
  LET heard == Listeners(event)
  IN  /\ Len(heard) \in 0..Cardinality(Free)
      /\ \E ids \in [1..Len(heard) -> Free] :
           /\ \A i \in DOMAIN ids : Free \cap 1..(ids[i] - 1) = {ids[j] : j \in 1..(i - 1)}
           /\ tasks' = [u \in Ids |-> IF \E i \in DOMAIN ids : ids[i] = u
                                      THEN StartLoose(heard[CHOOSE i \in DOMAIN ids : ids[i] = u].body)
                                      ELSE tasks[u]]
           /\ cpu' = ids
           /\ bound' = NamesBut({ids[i] : i \in DOMAIN ids})
      /\ UNCHANGED <<excused, slots>>

Speaks ==
  /\ CanMove /\ page.typed < MaxMessages /\ HasRoom
  /\ page' = [page EXCEPT !.typed = @ + 1]
  /\ Fires("message")

(* With the excuse "BrowserStays", only once the handler listens for it or  *)
(* has closed the WebSocket itself.                                         *)
BrowserLeaves ==
  /\ CanMove
  /\ "BrowserStays" \in excused => page.shut \/ \E i \in DOMAIN page.heard : page.heard[i].event = "close"
  /\ page' = [page EXCEPT !.ws = "left"]
  /\ Fires("close")

(* An error of the WebSocket is told once, before it closes.                *)
BrowserErrs ==
  /\ CanMove /\ \E i \in DOMAIN page.heard : page.heard[i].event = "error"
  /\ page' = [page EXCEPT !.heard = Others("error")]
  /\ Fires("error")

-----------------------------------------------------------------------------
Init ==
  /\ \E h \in DOMAIN Program :
       /\ excused = {p \in DOMAIN Excuses : h \in Excuses[p]}
       /\ tasks = [t \in Ids |-> IF t = 1 THEN Start(Program[h]) ELSE Idle]
  /\ cpu = <<1>>
  /\ bound = << >>
  /\ slots = << >>
  /\ page = NoPage

Running == IF cpu = << >> THEN {} ELSE {Head(cpu)}
Waiters == {t \in Ids : cpu = << >> /\ tasks[t].wait # NoWait}

Next ==
  \/ \E t \in Running :
       \/ Connects(t) \/ Locks(t) \/ Unlocks(t) \/ Closes(t) \/ Cancels(t) \/ Upgrades(t)
       \/ ForgetsLock(t) \/ ForgetsSocket(t)
       \/ Branches(t) \/ Tests(t) \/ Turns(t) \/ Jumps(t) \/ MayFail(t) \/ Resumes(t)
       \/ Calls(t) \/ CallsAndWaits(t) \/ Chains(t) \/ Settles(t) \/ Waits(t) \/ Clears(t)
       \/ Accepts(t) \/ HandsOver(t) \/ Listens(t) \/ Unlistens(t) \/ Sends(t) \/ ClosesWeb(t)
  \/ \E t \in Waiters : Joins(t) \/ Finds(t)
  \/ Quiet /\ \E t \in Waiters :
       \/ Succeeds(t) \/ Receives(t) \/ ReadsEnd(t) \/ Breaks(t)
       \/ Computes(t) \/ Rings(t) \/ TimesOut(t) \/ IsOvertaken(t)
  \/ Speaks \/ BrowserLeaves \/ BrowserErrs

Spec == Init /\ [][Next]_vars

-----------------------------------------------------------------------------
(* Properties.  "excused" holds the names of those that the running handler *)
(* is known not to have.                                                    *)

SlotType == [sock: {"opening", "open", "ended", "failed", "closed", "forgotten"},
             reader: {"none", "held", "freed"}, writer: {"none", "held", "freed"},
             lost: BOOLEAN, dropped: BOOLEAN]

(* The state is well formed, whatever the handler does: a task that is      *)
(* free, or that has ended, waits for nothing and has nothing left to do;   *)
(* a task that could run is queued for it once, and no other is; a name     *)
(* stands for one async call, which no other name stands for and which is   *)
(* neither the handler nor a forgotten one; nobody waits for the handler; a *)
(* read is outstanding only on a socket that is live; a browser that has    *)
(* left was there.                                                          *)
TypeOK ==
  /\ excused \subseteq DOMAIN Excuses
  /\ \A t \in Ids :
       /\ tasks[t].state \in {"free", "running", "returned", "threw"}
       /\ tasks[t].state # "running" => tasks[t].stack = << >> /\ tasks[t].wait = NoWait
       /\ tasks[t].got \in {"data", "end", "null"} /\ tasks[t].kind \in {"call", "stray", "loose"}
       /\ tasks[t].wait.of \subseteq Ids \ {1}
       /\ Runs(tasks[t]) <=> \E i \in DOMAIN cpu : cpu[i] = t
  /\ \A i \in DOMAIN cpu : cpu[i] \in Ids /\ \A j \in DOMAIN cpu : cpu[i] = cpu[j] => i = j
  /\ \A n \in DOMAIN bound : /\ bound[n] \in Ids \ {1} /\ tasks[bound[n]].kind # "loose"
                             /\ \A m \in DOMAIN bound : bound[m] = bound[n] => m = n
  /\ \A s \in DOMAIN slots : slots[s] \in SlotType /\ (slots[s].lost => Live(slots[s]))
  /\ page.ws \in {"none", "open", "left"} /\ page.typed \in 0..MaxMessages
  /\ page.ws = "left" => page.given

(* What t waits for: the peer; or something that comes without the peer: a  *)
(* timer, a call that is not the peer's, a write that a connected socket    *)
(* takes, the task that it is raced against.                                *)
WaitsForPeer(t) == WaitsFor(t, {"opened", "read", "write", "finish"})
GoesOnAlone(t) ==
  LET wait == tasks[t].wait IN
  \/ wait.op = "other"
  \/ wait.op \in {"write", "finish"} /\ Known(wait.on) /\ On(t).sock # "opening"
  \/ Active /\ (wait.op = "sleep" \/ (wait # NoWait /\ wait.out # "none"))
  \/ wait # NoWait /\ wait.by # 0 /\ Ended(wait.by)

(* The browser of a session has left, or never had its end of the           *)
(* WebSocket; a handler without a session has no such browser.              *)
Over == Session => page.ws = "left" \/ (Answered /\ ~page.given)

(* Nothing more will come of the handler by itself.  Before the answer the  *)
(* handler still waits for its peer (PeerWaitsTimed says for how long).     *)
(* After it, a call that only the peer could move counts as finished:       *)
(* nobody waits for it, the timers of a handler that has answered are       *)
(* cleared, and the peer may be silent.                                     *)
PeerAwaited == ~Answered /\ \E t \in Ids : WaitsForPeer(t)
Done == Quiet /\ Over /\ ~PeerAwaited /\ \A t \in Ids : ~GoesOnAlone(t)

(* Once nothing more comes of a handler by itself, whatever the peer and    *)
(* the browser did and whichever call failed or timed out, every socket it  *)
(* opened is closed, or was shut by the peer: none is left open by an early *)
(* return, by a throw between connect() and the try that closes it, by a    *)
(* retry that overwrites the variable, by a browser that leaves before      *)
(* anyone listens for it, or by a call that lost its race against the timer *)
(* of the handler and whose close() comes after a read from a silent peer   *)
(* (rdp.ts:486).                                                            *)
SocketsClosed ==
  Done /\ "SocketsClosed" \notin excused =>
    \A s \in DOMAIN slots : ~Live(slots[s]) /\ ~slots[s].dropped

(* A read raced against a timer is still outstanding when the timer wins,   *)
(* and takes the next chunk.  Nothing that a handler or a session still     *)
(* needs is read behind such a read, nor beside another task that reads the *)
(* same socket (one that lost its race, or the command of another message): *)
(* the chunk would go to the wrong one.                                     *)
OwnRead(t)  == WaitsFor(t, {"read"}) /\ tasks[t].kind # "stray" /\ Active
Rivals(t)   == {u \in Ids \ {t} : WaitsFor(u, {"read"}) /\ tasks[u].wait.on = tasks[t].wait.on}
ReadsInOrder ==
  "ReadsInOrder" \notin excused =>
    \A t \in Ids : OwnRead(t) /\ Known(tasks[t].wait.on) => ~On(t).lost /\ Rivals(t) = {}

(* Until a handler has answered, and once the browser of its session has    *)
(* left, a peer that never sends, never accepts and never closes cannot     *)
(* hold it: some task that is left can go on without the peer.              *)
PeerWaitsTimed ==
  Quiet /\ "PeerWaitsTimed" \notin excused /\ (~Answered \/ (Session /\ Over /\ \E t \in Ids : WaitsForPeer(t)))
    => \E t \in Ids : GoesOnAlone(t)

(* No reader or writer is asked for while another holds the stream, no TLS  *)
(* upgrade starts while one is held, and no task that is still waited for   *)
(* reads or writes once the lock was released: the call would throw a       *)
(* TypeError in the middle of the protocol.                                 *)
Refused(t) ==
  LET slot == slots[Step(t).on] IN
  \/ At(t, {"getReader", "getWriter"}) /\ slot[End(Step(t).op)] = "held"
  \/ At(t, {"startTls"}) /\ "held" \in {slot.reader, slot.writer}
  \/ At(t, {"read", "write", "finish"}) /\ slot[End(Step(t).op)] = "freed" /\ tasks[t].kind # "stray"
OnSocket(t) == At(t, {"getReader", "getWriter", "startTls", "read", "write", "finish"})
LocksRespected ==
  "LocksRespected" \notin excused =>
    \A t \in Running : OnSocket(t) /\ Has(Step(t).on, "sock") => ~Refused(t)

=============================================================================
