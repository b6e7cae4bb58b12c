---------------------------- MODULE HandlerSteps ----------------------------
(* The steps a request handler of src/src/worker is made of, as seen from   *)
(* the sockets it opens: what it calls on a socket, a reader or a writer,   *)
(* where it waits, and where it branches, loops, catches and returns.  A    *)
(* handler, and a helper that handlers share, is a sequence of such steps.  *)
(*                                                                         *)
(* A socket is named by the variable that holds it; its reader and writer   *)
(* are named by their socket.                                              *)
EXTENDS Sequences

-----------------------------------------------------------------------------
(* Calls that return at once.                                              *)

Connect(s)    == [op |-> "connect", on |-> s]       \* s = connect(...)
GetReader(s)  == [op |-> "getReader", on |-> s]     \* s.readable.getReader()
GetWriter(s)  == [op |-> "getWriter", on |-> s]     \* s.writable.getWriter()
FreeReader(s) == [op |-> "freeReader", on |-> s]    \* reader.releaseLock()
FreeWriter(s) == [op |-> "freeWriter", on |-> s]    \* writer.releaseLock()
Close(s)      == [op |-> "close", on |-> s]         \* s.close()
Cancel(s)     == [op |-> "cancel", on |-> s]        \* reader.cancel()
StartTls(s)   == [op |-> "startTls", on |-> s]      \* s = s.startTls()
ForgetSocket(s) == [op |-> "forgetSocket", on |-> s]  \* the variable = null
ForgetReader(s) == [op |-> "forgetReader", on |-> s]
ForgetWriter(s) == [op |-> "forgetWriter", on |-> s]
ClearTimer(n) == [op |-> "clearTimer", name |-> n]  \* clearTimeout

(* The WebSocket of a session ("the page" is the browser's end of it).  A   *)
(* listener is an event, the name it is removed by, and what it does.       *)

Accept    == [op |-> "accept"]                      \* ws.accept()
HandOver  == [op |-> "handOver"]                    \* return new Response(null, {status: 101, webSocket})
Send      == [op |-> "send"]                        \* ws.send(...)
CloseWeb  == [op |-> "closeWeb"]                    \* ws.close(...)
Listen(e, n, body) == [op |-> "listen", heard |-> [event |-> e, name |-> n, body |-> body]]
Unlisten(n) == [op |-> "unlisten", name |-> n]      \* ws.removeEventListener
Resolve(n)  == [op |-> "resolve", name |-> n]       \* settles the promise that task n waits with (Signal)
Reject(n)   == [op |-> "reject", name |-> n]

-----------------------------------------------------------------------------
(* Calls that are awaited.  "out" is what a timer raced against the call    *)
(* makes of it: "none" when there is no timer, "throw" when it rejects,     *)
(* "null" or "end" when it resolves, with null or with {done: true}; "by"   *)
(* names the task, if any, that is raced against the call.                  *)

Awaited(kind, s) == [op |-> kind, on |-> s, out |-> "none", by |-> "none"]

Opened(s) == Awaited("opened", s)                   \* await s.opened
Read(s)   == Awaited("read", s)                     \* await reader.read()
Write(s)  == Awaited("write", s)                    \* await writer.write(...)
Finish(s) == Awaited("finish", s)                   \* await writer.close()
Await     == Awaited("other", "none")               \* fetch, request.json(), crypto, ...
Sleep     == Awaited("sleep", "none")               \* await a setTimeout
Signal    == Awaited("signal", "none")              \* await new Promise((resolve, reject) => ...)
Join(n)   == Awaited("join", n)                     \* await the promise of task n
JoinAll(ns)     == [op |-> "joinAll", names |-> ns, on |-> "none", out |-> "none", by |-> "none"]
JoinSettled(ns) == [JoinAll(ns) EXCEPT !.op = "joinSettled"]   \* await Promise.all(...), Promise.allSettled(...)

Race(step, out) == [step EXCEPT !.out = out]        \* Promise.race([step, timer])
Beside(step, n) == [step EXCEPT !.by = n]           \* Promise.race([step, task n])

(* n = an async function called and not awaited.                           *)
Task(n, body) == [op |-> "task", name |-> n, body |-> body]

(* An async function called and forgotten.                                 *)
Loose(body) == Task("none", body)

(* n = (the promise of task m).then(body, bad).                             *)
ThenElse(n, m, body, bad) == [op |-> "then", name |-> n, after |-> m, body |-> body, bad |-> bad]

(* An async call raced against a timer or against task n.                  *)
RaceTask(body, out) == [op |-> "raceTask", body |-> body, out |-> out, by |-> "none"]
BesideTask(body, n) == [op |-> "raceTask", body |-> body, out |-> "none", by |-> n]

-----------------------------------------------------------------------------
(* Control.  Choices that depend on data are left open.                    *)

MayThrow == [op |-> "mayThrow"]
Jump(kind, l) == [op |-> kind, label |-> l]
Throw    == Jump("throw", "none")
Return   == Jump("return", "none")
Break    == Jump("break", "none")
Continue == Jump("continue", "none")
BreakFrom(l)    == Jump("break", l)
ContinueFrom(l) == Jump("continue", l)

Either(a, b) == [op |-> "either", a |-> a, b |-> b]
Maybe(a)     == Either(a, << >>)
MayReturn    == Maybe(<< Return >>)
MayBreak     == Maybe(<< Break >>)
MayContinue  == Maybe(<< Continue >>)

(* Tests of a variable (null or not) and of the outcome of the last read:   *)
(* "data", "end" ({done: true}) or "null".                                  *)
HasSocket(s) == [on |-> s, has |-> "sock", is |-> TRUE]
HasReader(s) == [on |-> s, has |-> "reader", is |-> TRUE]
HasWriter(s) == [on |-> s, has |-> "writer", is |-> TRUE]
NoSocket(s)  == [on |-> s, has |-> "sock", is |-> FALSE]
NoReader(s)  == [on |-> s, has |-> "reader", is |-> FALSE]
NoWriter(s)  == [on |-> s, has |-> "writer", is |-> FALSE]
GotData      == [got |-> {"data"}]
GotNothing   == [got |-> {"end", "null"}]
GotEnd       == [got |-> {"end"}]
GotMore      == [got |-> {"data", "null"}]
GotNull      == [got |-> {"null"}]
GotSome      == [got |-> {"data", "end"}]

WebOpen      == [web |-> "open"]                    \* ws.readyState === OPEN
WebLeft      == [web |-> "left"]                    \* the close listener has run

If(test, a, b) == [op |-> "if", test |-> test, a |-> a, b |-> b]
When(test, a)  == If(test, a, << >>)

LoopAs(l, body)    == [op |-> "loop", body |-> body, ends |-> TRUE, label |-> l]
ForeverAs(l, body) == [op |-> "loop", body |-> body, ends |-> FALSE, label |-> l]
Loop(body)    == LoopAs("none", body)               \* a loop that tests before each turn
Forever(body) == ForeverAs("none", body)            \* while (true)
Switch(body)  == [op |-> "switch", body |-> body]   \* a break leaves it

TryCatchFinally(body, catch, fin) ==
  [op |-> "try", body |-> body, catches |-> TRUE, catch |-> catch, fin |-> fin]
Try(body, catch)      == TryCatchFinally(body, catch, << >>)
Quietly(body)         == Try(body, << >>)           \* try { ... } catch {}
TryFinally(body, fin) ==
  [op |-> "try", body |-> body, catches |-> FALSE, catch |-> << >>, fin |-> fin]

(* A call whose failure goes unnoticed: it is in a try with an empty catch, *)
(* or the promise of a close() is not awaited.                             *)
CloseQuietly(s)      == Quietly(<< Close(s) >>)
FreeReaderQuietly(s) == Quietly(<< FreeReader(s) >>)
FreeWriterQuietly(s) == Quietly(<< FreeWriter(s) >>)
FinishQuietly(s)     == Quietly(<< Finish(s) >>)

(* A call of a function: its return ends here.                             *)
Call(body) == [op |-> "call", body |-> body]

=============================================================================
