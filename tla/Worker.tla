------------------------------- MODULE Worker -------------------------------
(***************************************************************************)
(* What concurrent requests to the Worker share: the KV namespace, which   *)
(* has get and put and nothing atomic in between.  Three read-modify-write *)
(* sequences run on it:                                                    *)
(*                                                                         *)
(*   rate     the per-target counter of the current minute                 *)
(*            (maybeBlockByTargetRateLimit in router-guards.ts);           *)
(*   usage    the per-protocol counter (trackUsage in usage-tracker.ts),   *)
(*            which ctx.waitUntil lets run beside the handler and after    *)
(*            the response;                                                *)
(*   checked  the checklist, one document that POST /api/checklist reads,  *)
(*            amends and writes back (index.ts).                           *)
(*                                                                         *)
(* Every request goes through the router of index.ts up to its handler,    *)
(* which is one step here.  There is one target and one protocol: their    *)
(* keys are independent of those of others.  get answers the value of some *)
(* moment of the call, put takes effect at some moment of the call, and    *)
(* either may reject, a put then without effect.                           *)
(***************************************************************************)
EXTENDS Naturals

CONSTANTS
  Requests,    \* all requests that arrive, each once
  Items,       \* the items of the checklist
  Limit,       \* TARGET_RATE_LIMIT
  Minutes      \* bound: the clock's buckets are 0 .. Minutes

ASSUME LimitAssumption == Limit \in Nat \ {0} /\ Minutes \in Nat

(***************************************************************************)
(* probe     a POST or a WebSocket upgrade of /api/{protocol} that names a *)
(*           host, or a short URL;                                         *)
(* link      a plain GET of the same path, which is refused, but only      *)
(*           after it was counted;                                         *)
(* hostless  a POST /api/{protocol} without host;                          *)
(* check, uncheck   a POST /api/checklist.                                 *)
(***************************************************************************)
Kinds == {"probe", "link", "hostless", "check", "uncheck"}

VARIABLES
  at,          \* request -> what it waits for, or how it ended
  kind, item,  \* request -> what it asks
  bucket,      \* request -> the minute of its rate key
  count,       \* request -> the counter maybeBlockByTargetRateLimit read
  seen,        \* request -> the checklist it read
  tracker,     \* request -> state of its trackUsage call
  trackCount,  \* request -> the counter trackUsage read
  clock,       \* the current minute
  rate,        \* KV: minute -> target_rate:{host}:{minute}, 0 if absent
  usage,       \* KV: usage:{protocol}
  checked,     \* KV: the items that are true in "state"
  passed,      \* history: minute -> requests the limiter let pass
  tracked,     \* history: trackUsage calls that have written
  overlapped   \* history: minutes in which two limiter calls overlapped

requestVars == <<at, kind, item, bucket, count, seen, tracker, trackCount>>
kv == <<rate, usage, checked>>
history == <<passed, tracked, overlapped>>
vars == <<requestVars, clock, kv, history>>

Buckets == 0 .. Minutes

Init ==
  /\ at = [r \in Requests |-> "new"]
  /\ kind \in [Requests -> Kinds] /\ item \in [Requests -> Items]
  /\ bucket = [r \in Requests |-> 0]
  /\ count = [r \in Requests |-> 0]
  /\ seen = [r \in Requests |-> {}]
  /\ tracker = [r \in Requests |-> "none"]
  /\ trackCount = [r \in Requests |-> 0]
  /\ clock = 0
  /\ rate = [b \in Buckets |-> 0] /\ usage = 0 /\ checked = {}
  /\ passed = [b \in Buckets |-> 0] /\ tracked = 0 /\ overlapped = {}

(* The requests inside maybeBlockByTargetRateLimit with the key of b.      *)
Limiting(b) == {r \in Requests : at[r] \in {"getRate", "putRate"} /\ bucket[r] = b}

-----------------------------------------------------------------------------
(* The router                                                              *)

(* Origin, body size, Cloudflare and private-host guards, or a checklist   *)
(* body without its fields: answered before anything shared is touched.    *)
Refuse(r) ==
  /\ at[r] = "new"
  /\ at' = [at EXCEPT ![r] = "refused"]
  /\ UNCHANGED <<kind, item, bucket, count, seen, tracker, trackCount, clock,
                 kv, history>>

(* The guards let the request through.  One with a host goes to the        *)
(* limiter, whose key is that of the minute the call begins in.            *)
AtLimiter(r) ==
  /\ at[r] = "new" /\ kind[r] \in {"probe", "link"}
  /\ at' = [at EXCEPT ![r] = "getRate"]
  /\ bucket' = [bucket EXCEPT ![r] = clock]
  /\ overlapped' = IF Limiting(clock) = {} THEN overlapped ELSE overlapped \cup {clock}
  /\ UNCHANGED <<kind, item, count, seen, tracker, trackCount, clock, kv,
                 passed, tracked>>

(* Past the limiter: a GET is answered 405; the use of a protocol is       *)
(* tracked without being awaited; then the handler runs.                   *)
Routed(r) ==
  /\ at' = [at EXCEPT ![r] =
              CASE kind[r] = "link" -> "405"
                [] kind[r] \in {"check", "uncheck"} -> "getState"
                [] OTHER -> "handling"]
  /\ IF kind[r] \in {"probe", "hostless"}
       THEN tracker' = [tracker EXCEPT ![r] = "get"]
       ELSE UNCHANGED tracker

NoHost(r) ==
  /\ at[r] = "new" /\ kind[r] \in {"hostless", "check", "uncheck"}
  /\ Routed(r)
  /\ UNCHANGED <<kind, item, bucket, count, seen, trackCount, clock, kv,
                 history>>

(* The protocol handler answers.                                           *)
Respond(r) ==
  /\ at[r] = "handling"
  /\ at' = [at EXCEPT ![r] = "200"]
  /\ UNCHANGED <<kind, item, bucket, count, seen, tracker, trackCount, clock,
                 kv, history>>

-----------------------------------------------------------------------------
(* maybeBlockByTargetRateLimit                                             *)

(* Bug: the check is made on the counter this request is about to write.   *)
LimitReached_Early(n) == n + 1 >= Limit
(* Bug: one request more than the limit.                                   *)
LimitReached_Late(n) == n > Limit
LimitReached(n) == n >= Limit

RateRead(r) ==
  /\ at[r] = "getRate"
  /\ IF LimitReached(rate[bucket[r]])
       THEN /\ at' = [at EXCEPT ![r] = "429"]
            /\ UNCHANGED count
       ELSE /\ at' = [at EXCEPT ![r] = "putRate"]
            /\ count' = [count EXCEPT ![r] = rate[bucket[r]]]
  /\ UNCHANGED <<kind, item, bucket, seen, tracker, trackCount, clock, kv,
                 history>>

RatePut(r) ==
  /\ at[r] = "putRate"
  /\ rate' = [rate EXCEPT ![bucket[r]] = count[r] + 1]
  /\ passed' = [passed EXCEPT ![bucket[r]] = passed[bucket[r]] + 1]
  /\ Routed(r)
  /\ UNCHANGED <<kind, item, bucket, count, seen, trackCount, clock, usage,
                 checked, tracked, overlapped>>

(* Nothing catches a KV error of the limiter or of the checklist.          *)
KvFails(r) ==
  /\ at[r] \in {"getRate", "putRate", "getState", "putState"}
  /\ at' = [at EXCEPT ![r] = "threw"]
  /\ UNCHANGED <<kind, item, bucket, count, seen, tracker, trackCount, clock,
                 kv, history>>

-----------------------------------------------------------------------------
(* trackUsage                                                              *)

TrackRead(r) ==
  /\ tracker[r] = "get"
  /\ tracker' = [tracker EXCEPT ![r] = "put"]
  /\ trackCount' = [trackCount EXCEPT ![r] = usage]
  /\ UNCHANGED <<at, kind, item, bucket, count, seen, clock, kv, history>>

TrackPut(r) ==
  /\ tracker[r] = "put"
  /\ tracker' = [tracker EXCEPT ![r] = "done"]
  /\ usage' = trackCount[r] + 1
  /\ tracked' = tracked + 1
  /\ UNCHANGED <<at, kind, item, bucket, count, seen, trackCount, clock, rate,
                 checked, passed, overlapped>>

(* Its errors are caught and dropped.                                      *)
TrackFails(r) ==
  /\ tracker[r] \in {"get", "put"}
  /\ tracker' = [tracker EXCEPT ![r] = "done"]
  /\ UNCHANGED <<at, kind, item, bucket, count, seen, trackCount, clock, kv,
                 history>>

-----------------------------------------------------------------------------
(* POST /api/checklist                                                     *)

(* Bug: the append-only check is missing.                                  *)
Forbidden_Never(r, doc) == FALSE
(* "Append-only: once an item is checked, it cannot be unchecked."         *)
Forbidden(r, doc) == kind[r] = "uncheck" /\ item[r] \in doc

Amended(r, doc) ==
  IF kind[r] = "check" THEN doc \cup {item[r]} ELSE doc \ {item[r]}

StateRead(r) ==
  /\ at[r] = "getState"
  /\ IF Forbidden(r, checked)
       THEN /\ at' = [at EXCEPT ![r] = "403"]
            /\ UNCHANGED seen
       ELSE /\ at' = [at EXCEPT ![r] = "putState"]
            /\ seen' = [seen EXCEPT ![r] = checked]
  /\ UNCHANGED <<kind, item, bucket, count, tracker, trackCount, clock, kv,
                 history>>

StatePut(r) ==
  /\ at[r] = "putState"
  /\ at' = [at EXCEPT ![r] = "200"]
  /\ checked' = Amended(r, seen[r])
  /\ UNCHANGED <<kind, item, bucket, count, seen, tracker, trackCount, clock,
                 rate, usage, history>>

-----------------------------------------------------------------------------
Tick ==
  /\ clock < Minutes
  /\ clock' = clock + 1
  /\ UNCHANGED <<requestVars, kv, history>>

Router(r) == Refuse(r) \/ AtLimiter(r) \/ NoHost(r) \/ Respond(r)

Limiter(r) == RateRead(r) \/ RatePut(r)

Tracking(r) == TrackRead(r) \/ TrackPut(r) \/ TrackFails(r)

Checklist(r) == StateRead(r) \/ StatePut(r)

Next ==
  \/ \E r \in Requests :
       Router(r) \/ Limiter(r) \/ Tracking(r) \/ Checklist(r) \/ KvFails(r)
  \/ Tick

Spec == Init /\ [][Next]_vars

-----------------------------------------------------------------------------
(* Properties                                                              *)

(* Type invariant.                                                         *)
TypeOK ==
  /\ at \in [Requests -> {"new", "refused", "getRate", "putRate", "429", "405",
                          "threw", "handling", "getState", "putState", "403",
                          "200"}]
  /\ kind \in [Requests -> Kinds] /\ item \in [Requests -> Items]
  /\ bucket \in [Requests -> Buckets]
  /\ count \in [Requests -> 0 .. Limit - 1]
  /\ seen \in [Requests -> SUBSET Items]
  /\ tracker \in [Requests -> {"none", "get", "put", "done"}]
  /\ trackCount \in [Requests -> Nat]
  /\ clock \in Buckets
  /\ rate \in [Buckets -> 0 .. Limit] /\ usage \in Nat
  /\ checked \in SUBSET Items
  /\ passed \in [Buckets -> Nat] /\ tracked \in Nat
  /\ overlapped \in SUBSET Buckets

(* Nobody is answered 429 before Limit requests of that minute have been   *)
(* let through: lost updates make the counter lag, nothing makes it lead.  *)
RefusedJustly ==
  \A r \in Requests : at[r] = "429" => passed[bucket[r]] >= Limit

(* And the limit is exact as long as no two calls of the limiter overlap,  *)
(* failed KV calls and the turn of the minute included ("there is a small  *)
(* race window between read and write").                                   *)
LimitedInTurn ==
  \A b \in Buckets : b \notin overlapped => passed[b] <= Limit

(* The usage counter never exceeds the requests that were counted in it,   *)
(* however their trackUsage calls overlap.                                 *)
UsageNotInflated == usage <= tracked

(* A checked item is lost only to a writer that had read the checklist     *)
(* before the item was checked, never to one that knew of it.              *)
LostOnlyToStaleWriter ==
  [][\A i \in checked \ checked' :
       \E r \in Requests :
         at[r] = "putState" /\ at'[r] = "200" /\ i \notin seen[r]]_vars

=============================================================================
