---------------------------- MODULE WorkerProofs ----------------------------
(***************************************************************************)
(* The invariants of the KV counters and of the checklist, for any number  *)
(* of requests, items and minutes and any limit.                           *)
(*                                                                         *)
(* A counter may lag behind what was let through, since a slow put writes  *)
(* an old value; the invariant that carries the proof is that nothing a    *)
(* request has read or written is ahead of it.  In a minute without        *)
(* overlapping calls the counter is exact, because the value a request is  *)
(* about to write is still the one in the store.                           *)
(***************************************************************************)
EXTENDS Worker, TLAPS

(* What a call has read, and what is stored, never leads what was passed.  *)
Lagging ==
  /\ \A b \in Buckets : rate[b] <= passed[b]
  /\ \A r \in Requests : at[r] = "putRate" => count[r] <= passed[bucket[r]]
  /\ \A r \in Requests : tracker[r] = "put" => trackCount[r] <= tracked
  /\ usage <= tracked

(* Where no calls overlapped there is at most one, and it is up to date.   *)
InTurn ==
  \A b \in Buckets : b \notin overlapped =>
    /\ rate[b] = passed[b]
    /\ \A r, s \in Limiting(b) : r = s
    /\ \A r \in Limiting(b) : at[r] = "putRate" => count[r] = rate[b]

(* A document about to be written still has every item it was read with.   *)
Amending ==
  \A r \in Requests :
    /\ at[r] \in {"getState", "putState"} => kind[r] \in {"check", "uncheck"}
    /\ at[r] = "putState" /\ kind[r] = "uncheck" => item[r] \notin seen[r]

IInv == TypeOK /\ Lagging /\ RefusedJustly /\ InTurn /\ Amending

-----------------------------------------------------------------------------
LEMMA InitIInv == Init => IInv
BY LimitAssumption DEF Init, IInv, TypeOK, Lagging, RefusedJustly, InTurn,
   Amending, Limiting, Buckets, Kinds

(* Every step keeps the types; the limiter's check keeps counter and count within the limit. *)
LEMMA TypeStep == TypeOK /\ [Next]_vars => TypeOK'
<1> SUFFICES ASSUME TypeOK, [Next]_vars PROVE TypeOK'
  OBVIOUS
<1> USE LimitAssumption
<1> USE DEF TypeOK, Buckets, Kinds
<1>1. ASSUME NEW r \in Requests, Refuse(r) PROVE TypeOK'
  BY <1>1 DEF Refuse, kv, history
<1>2. ASSUME NEW r \in Requests, AtLimiter(r) PROVE TypeOK'
  BY <1>2 DEF AtLimiter, kv, history, Limiting
<1>3. ASSUME NEW r \in Requests, NoHost(r) PROVE TypeOK'
  BY <1>3 DEF NoHost, Routed, kv, history
<1>4. ASSUME NEW r \in Requests, Respond(r) PROVE TypeOK'
  BY <1>4 DEF Respond, kv, history
<1>5. ASSUME NEW r \in Requests, RateRead(r) PROVE TypeOK'
  <2>1. rate[bucket[r]] \in 0 .. Limit /\ bucket[r] \in Buckets
    OBVIOUS
  <2>2. count' \in [Requests -> 0 .. Limit - 1]
    <3>1. CASE LimitReached(rate[bucket[r]])
      BY <1>5, <3>1 DEF RateRead
    <3>2. CASE ~LimitReached(rate[bucket[r]])
      <4>1. rate[bucket[r]] \in 0 .. Limit - 1
        BY <2>1, <3>2 DEF LimitReached
      <4>2. count' = [count EXCEPT ![r] = rate[bucket[r]]]
        BY <1>5, <3>2 DEF RateRead
      <4>. QED  BY <4>1, <4>2
    <3>. QED  BY <3>1, <3>2
  <2>3. at' \in [Requests -> {"new", "refused", "getRate", "putRate", "429",
                  "405", "threw", "handling", "getState", "putState", "403", "200"}]
    BY <1>5 DEF RateRead
  <2>. QED
    BY <1>5, <2>2, <2>3 DEF RateRead, kv, history
<1>6. ASSUME NEW r \in Requests, RatePut(r) PROVE TypeOK'
  <2>1. count[r] + 1 \in 0 .. Limit /\ bucket[r] \in Buckets
    OBVIOUS
  <2>2. rate' \in [Buckets -> 0 .. Limit]
    BY <1>6, <2>1 DEF RatePut
  <2>3. passed[bucket[r]] + 1 \in Nat
    BY <2>1
  <2>4. passed' \in [Buckets -> Nat]
    BY <1>6, <2>3 DEF RatePut
  <2>5. /\ at' \in [Requests -> {"new", "refused", "getRate", "putRate", "429",
                  "405", "threw", "handling", "getState", "putState", "403", "200"}]
        /\ tracker' \in [Requests -> {"none", "get", "put", "done"}]
    BY <1>6 DEF RatePut, Routed
  <2>. QED
    BY <1>6, <2>2, <2>4, <2>5 DEF RatePut
<1>7. ASSUME NEW r \in Requests, TrackRead(r) PROVE TypeOK'
  BY <1>7 DEF TrackRead, kv, history
<1>8. ASSUME NEW r \in Requests, TrackPut(r) PROVE TypeOK'
  <2>1. trackCount[r] + 1 \in Nat /\ tracked + 1 \in Nat
    OBVIOUS
  <2>. QED
    BY <1>8, <2>1 DEF TrackPut
<1>9. ASSUME NEW r \in Requests, TrackFails(r) PROVE TypeOK'
  BY <1>9 DEF TrackFails, kv, history
<1>10. ASSUME NEW r \in Requests, StateRead(r) PROVE TypeOK'
  <2>1. seen' \in [Requests -> SUBSET Items]
    BY <1>10 DEF StateRead
  <2>2. at' \in [Requests -> {"new", "refused", "getRate", "putRate", "429",
                  "405", "threw", "handling", "getState", "putState", "403", "200"}]
    BY <1>10 DEF StateRead
  <2>. QED
    BY <1>10, <2>1, <2>2 DEF StateRead, kv, history
<1>11. ASSUME NEW r \in Requests, StatePut(r) PROVE TypeOK'
  BY <1>11 DEF StatePut, Amended, kv, history
<1>12. ASSUME NEW r \in Requests, KvFails(r) PROVE TypeOK'
  BY <1>12 DEF KvFails, kv, history
<1>13. CASE Tick
  BY <1>13 DEF Tick, requestVars, kv, history
<1>14. CASE UNCHANGED vars
  BY <1>14 DEF vars, requestVars, kv, history
<1>15. QED
  BY <1>1, <1>2, <1>3, <1>4, <1>5, <1>6, <1>7, <1>8, <1>9, <1>10, <1>11, <1>12, <1>13, <1>14
  DEF Next, Router, Limiter, Tracking, Checklist

(* No step lets a counter, or a value read from it, lead.                  *)
LEMMA LaggingStep == TypeOK /\ Lagging /\ [Next]_vars => Lagging'
<1> SUFFICES ASSUME TypeOK /\ Lagging, [Next]_vars PROVE Lagging'
  OBVIOUS
<1> USE LimitAssumption
<1> USE DEF TypeOK, Lagging, Buckets, Kinds
<1>1. ASSUME NEW r \in Requests, Refuse(r) PROVE Lagging'
  BY <1>1 DEF Refuse, kv, history
<1>2. ASSUME NEW r \in Requests, AtLimiter(r) PROVE Lagging'
  BY <1>2 DEF AtLimiter, kv, history, Limiting
<1>3. ASSUME NEW r \in Requests, NoHost(r) PROVE Lagging'
  BY <1>3 DEF NoHost, Routed, kv, history
<1>4. ASSUME NEW r \in Requests, Respond(r) PROVE Lagging'
  BY <1>4 DEF Respond, kv, history
<1>5. ASSUME NEW r \in Requests, RateRead(r) PROVE Lagging'
  BY <1>5 DEF RateRead, LimitReached, kv, history
<1>6. ASSUME NEW r \in Requests, RatePut(r) PROVE Lagging'
  BY <1>6 DEF RatePut, Routed, kv, history
<1>7. ASSUME NEW r \in Requests, TrackRead(r) PROVE Lagging'
  BY <1>7 DEF TrackRead, kv, history
<1>8. ASSUME NEW r \in Requests, TrackPut(r) PROVE Lagging'
  BY <1>8 DEF TrackPut, kv, history
<1>9. ASSUME NEW r \in Requests, TrackFails(r) PROVE Lagging'
  BY <1>9 DEF TrackFails, kv, history
<1>10. ASSUME NEW r \in Requests, StateRead(r) PROVE Lagging'
  BY <1>10 DEF StateRead, Forbidden, kv, history
<1>11. ASSUME NEW r \in Requests, StatePut(r) PROVE Lagging'
  BY <1>11 DEF StatePut, Amended, kv, history
<1>12. ASSUME NEW r \in Requests, KvFails(r) PROVE Lagging'
  BY <1>12 DEF KvFails, kv, history
<1>13. CASE Tick
  BY <1>13 DEF Tick, requestVars, kv, history
<1>14. CASE UNCHANGED vars
  BY <1>14 DEF vars, requestVars, kv, history
<1>15. QED
  BY <1>1, <1>2, <1>3, <1>4, <1>5, <1>6, <1>7, <1>8, <1>9, <1>10, <1>11, <1>12, <1>13, <1>14
  DEF Next, Router, Limiter, Tracking, Checklist

(* A request is refused on a counter that lags, and passed only grows.     *)
LEMMA RefusedStep == TypeOK /\ Lagging /\ RefusedJustly /\ [Next]_vars => RefusedJustly'
<1> SUFFICES ASSUME TypeOK /\ Lagging /\ RefusedJustly, [Next]_vars PROVE RefusedJustly'
  OBVIOUS
<1> USE LimitAssumption
<1> USE DEF TypeOK, Lagging, RefusedJustly, Buckets, Kinds
<1>1. ASSUME NEW r \in Requests, Refuse(r) PROVE RefusedJustly'
  BY <1>1 DEF Refuse, kv, history
<1>2. ASSUME NEW r \in Requests, AtLimiter(r) PROVE RefusedJustly'
  BY <1>2 DEF AtLimiter, kv, history, Limiting
<1>3. ASSUME NEW r \in Requests, NoHost(r) PROVE RefusedJustly'
  BY <1>3 DEF NoHost, Routed, kv, history
<1>4. ASSUME NEW r \in Requests, Respond(r) PROVE RefusedJustly'
  BY <1>4 DEF Respond, kv, history
<1>5. ASSUME NEW r \in Requests, RateRead(r) PROVE RefusedJustly'
  BY <1>5 DEF RateRead, LimitReached, kv, history
<1>6. ASSUME NEW r \in Requests, RatePut(r) PROVE RefusedJustly'
  BY <1>6 DEF RatePut, Routed, kv, history
<1>7. ASSUME NEW r \in Requests, TrackRead(r) PROVE RefusedJustly'
  BY <1>7 DEF TrackRead, kv, history
<1>8. ASSUME NEW r \in Requests, TrackPut(r) PROVE RefusedJustly'
  BY <1>8 DEF TrackPut, kv, history
<1>9. ASSUME NEW r \in Requests, TrackFails(r) PROVE RefusedJustly'
  BY <1>9 DEF TrackFails, kv, history
<1>10. ASSUME NEW r \in Requests, StateRead(r) PROVE RefusedJustly'
  BY <1>10 DEF StateRead, Forbidden, kv, history
<1>11. ASSUME NEW r \in Requests, StatePut(r) PROVE RefusedJustly'
  BY <1>11 DEF StatePut, Amended, kv, history
<1>12. ASSUME NEW r \in Requests, KvFails(r) PROVE RefusedJustly'
  BY <1>12 DEF KvFails, kv, history
<1>13. CASE Tick
  BY <1>13 DEF Tick, requestVars, kv, history
<1>14. CASE UNCHANGED vars
  BY <1>14 DEF vars, requestVars, kv, history
<1>15. QED
  BY <1>1, <1>2, <1>3, <1>4, <1>5, <1>6, <1>7, <1>8, <1>9, <1>10, <1>11, <1>12, <1>13, <1>14
  DEF Next, Router, Limiter, Tracking, Checklist

(* In a minute without overlap a put writes the successor of what is stored. *)
LEMMA InTurnStep == TypeOK /\ InTurn /\ [Next]_vars => InTurn'
<1> SUFFICES ASSUME TypeOK /\ InTurn, [Next]_vars PROVE InTurn'
  OBVIOUS
<1> USE LimitAssumption
<1> USE DEF TypeOK, InTurn, Buckets, Kinds, Limiting
<1>1. ASSUME NEW r \in Requests, Refuse(r) PROVE InTurn'
  BY <1>1 DEF Refuse, kv, history
<1>2. ASSUME NEW r \in Requests, AtLimiter(r) PROVE InTurn'
  <2>1. /\ at' = [at EXCEPT ![r] = "getRate"]
        /\ bucket' = [bucket EXCEPT ![r] = clock]
        /\ UNCHANGED <<rate, passed, count>>
        /\ overlapped' = IF Limiting(clock) = {} THEN overlapped
                         ELSE overlapped \cup {clock}
    BY <1>2 DEF AtLimiter, kv
  <2>2. \A b \in Buckets : Limiting(b)' \subseteq
          IF b = clock THEN Limiting(b) \cup {r} ELSE Limiting(b)
    BY <1>2, <2>1 DEF AtLimiter
  <2>3. ASSUME NEW b \in Buckets, b \notin overlapped'
        PROVE  /\ rate'[b] = passed'[b]
               /\ \A p, q \in Limiting(b)' : p = q
               /\ \A p \in Limiting(b)' : at'[p] = "putRate" => count'[p] = rate'[b]
    <3>1. b \notin overlapped /\ (b = clock => Limiting(b) = {})
      BY <2>1, <2>3
    <3>2. rate[b] = passed[b] /\ \A p, q \in Limiting(b) : p = q
      BY <3>1
    <3>3. \A p \in Limiting(b) : at[p] = "putRate" => count[p] = rate[b]
      BY <3>1
    <3>4. \A p \in Limiting(b)' :
            \/ p \in Limiting(b) /\ p # r
            \/ p = r /\ Limiting(b) = {}
      BY <1>2, <2>1, <2>2, <3>1 DEF AtLimiter
    <3>. HIDE DEF Limiting
    <3>5. \A p, q \in Limiting(b)' : p = q
      BY <3>2, <3>4
    <3>6. \A p \in Limiting(b)' : at'[p] = "putRate" => count'[p] = rate'[b]
      <4>1. \A p \in Limiting(b)' : p \in Requests
        BY DEF Limiting
      <4>. QED  BY <2>1, <3>3, <3>4, <4>1
    <3>. QED  BY <2>1, <3>2, <3>5, <3>6
  <2>. QED  BY <2>3
<1>3. ASSUME NEW r \in Requests, NoHost(r) PROVE InTurn'
  BY <1>3 DEF NoHost, Routed, kv, history
<1>4. ASSUME NEW r \in Requests, Respond(r) PROVE InTurn'
  BY <1>4 DEF Respond, kv, history
<1>5. ASSUME NEW r \in Requests, RateRead(r) PROVE InTurn'
  <2>1. /\ at[r] = "getRate" /\ UNCHANGED <<rate, passed, bucket, overlapped>>
        /\ \/ at' = [at EXCEPT ![r] = "429"] /\ UNCHANGED count
           \/ /\ at' = [at EXCEPT ![r] = "putRate"]
              /\ count' = [count EXCEPT ![r] = rate[bucket[r]]]
    BY <1>5 DEF RateRead, kv, history
  <2>2. \A b \in Buckets : Limiting(b)' \subseteq Limiting(b)
    BY <2>1
  <2>3. ASSUME NEW b \in Buckets, b \notin overlapped, NEW p \in Limiting(b)',
               at'[p] = "putRate"
        PROVE  count'[p] = rate'[b]
    <3>1. p \in Limiting(b) /\ p \in Requests /\ bucket[p] = b
      BY <2>1, <2>2
    <3>2. CASE p = r
      BY <2>1, <2>3, <3>1, <3>2
    <3>3. CASE p # r
      BY <2>1, <2>3, <3>1, <3>3
    <3>. QED  BY <3>2, <3>3
  <2>. QED  BY <2>1, <2>2, <2>3
<1>6. ASSUME NEW r \in Requests, RatePut(r) PROVE InTurn'
  BY <1>6 DEF RatePut, Routed, kv, history
<1>7. ASSUME NEW r \in Requests, TrackRead(r) PROVE InTurn'
  BY <1>7 DEF TrackRead, kv, history
<1>8. ASSUME NEW r \in Requests, TrackPut(r) PROVE InTurn'
  BY <1>8 DEF TrackPut, kv, history
<1>9. ASSUME NEW r \in Requests, TrackFails(r) PROVE InTurn'
  BY <1>9 DEF TrackFails, kv, history
<1>10. ASSUME NEW r \in Requests, StateRead(r) PROVE InTurn'
  <2>1. /\ at[r] = "getState" /\ UNCHANGED <<rate, passed, bucket, count, overlapped>>
        /\ \/ at' = [at EXCEPT ![r] = "403"]
           \/ at' = [at EXCEPT ![r] = "putState"]
    BY <1>10 DEF StateRead, kv, history
  <2>2. \A b \in Buckets : Limiting(b)' = Limiting(b)
    BY <2>1
  <2>3. \A b \in Buckets : \A p \in Limiting(b) :
          p \in Requests /\ at'[p] = at[p] /\ count'[p] = count[p]
    BY <2>1
  <2>4. \A b \in Buckets : rate'[b] = rate[b] /\ passed'[b] = passed[b]
    BY <2>1
  <2>. HIDE DEF Limiting
  <2>. QED  BY <2>1, <2>2, <2>3, <2>4
<1>11. ASSUME NEW r \in Requests, StatePut(r) PROVE InTurn'
  BY <1>11 DEF StatePut, Amended, kv, history
<1>12. ASSUME NEW r \in Requests, KvFails(r) PROVE InTurn'
  BY <1>12 DEF KvFails, kv, history
<1>13. CASE Tick
  BY <1>13 DEF Tick, requestVars, kv, history
<1>14. CASE UNCHANGED vars
  BY <1>14 DEF vars, requestVars, kv, history
<1>15. QED
  BY <1>1, <1>2, <1>3, <1>4, <1>5, <1>6, <1>7, <1>8, <1>9, <1>10, <1>11, <1>12, <1>13, <1>14
  DEF Next, Router, Limiter, Tracking, Checklist

(* The append-only check is made on the document that is amended.          *)
LEMMA AmendingStep == TypeOK /\ Amending /\ [Next]_vars => Amending'
<1> SUFFICES ASSUME TypeOK /\ Amending, [Next]_vars PROVE Amending'
  OBVIOUS
<1> USE LimitAssumption
<1> USE DEF TypeOK, Amending, Buckets, Kinds
<1>1. ASSUME NEW r \in Requests, Refuse(r) PROVE Amending'
  BY <1>1 DEF Refuse, kv, history
<1>2. ASSUME NEW r \in Requests, AtLimiter(r) PROVE Amending'
  BY <1>2 DEF AtLimiter, kv, history, Limiting
<1>3. ASSUME NEW r \in Requests, NoHost(r) PROVE Amending'
  BY <1>3 DEF NoHost, Routed, kv, history
<1>4. ASSUME NEW r \in Requests, Respond(r) PROVE Amending'
  BY <1>4 DEF Respond, kv, history
<1>5. ASSUME NEW r \in Requests, RateRead(r) PROVE Amending'
  BY <1>5 DEF RateRead, LimitReached, kv, history
<1>6. ASSUME NEW r \in Requests, RatePut(r) PROVE Amending'
  BY <1>6 DEF RatePut, Routed, kv, history
<1>7. ASSUME NEW r \in Requests, TrackRead(r) PROVE Amending'
  BY <1>7 DEF TrackRead, kv, history
<1>8. ASSUME NEW r \in Requests, TrackPut(r) PROVE Amending'
  BY <1>8 DEF TrackPut, kv, history
<1>9. ASSUME NEW r \in Requests, TrackFails(r) PROVE Amending'
  BY <1>9 DEF TrackFails, kv, history
<1>10. ASSUME NEW r \in Requests, StateRead(r) PROVE Amending'
  BY <1>10 DEF StateRead, Forbidden, kv, history
<1>11. ASSUME NEW r \in Requests, StatePut(r) PROVE Amending'
  BY <1>11 DEF StatePut, Amended, kv, history
<1>12. ASSUME NEW r \in Requests, KvFails(r) PROVE Amending'
  BY <1>12 DEF KvFails, kv, history
<1>13. CASE Tick
  BY <1>13 DEF Tick, requestVars, kv, history
<1>14. CASE UNCHANGED vars
  BY <1>14 DEF vars, requestVars, kv, history
<1>15. QED
  BY <1>1, <1>2, <1>3, <1>4, <1>5, <1>6, <1>7, <1>8, <1>9, <1>10, <1>11, <1>12, <1>13, <1>14
  DEF Next, Router, Limiter, Tracking, Checklist

-----------------------------------------------------------------------------
LEMMA Invariance == Spec => []IInv
<1>1. IInv /\ [Next]_vars => IInv'
  BY TypeStep, LaggingStep, RefusedStep, InTurnStep, AmendingStep DEF IInv
<1>. QED
  BY InitIInv, <1>1, PTL DEF Spec

(* Every variable of the Worker keeps its type; the stored counter never   *)
(* exceeds the limit.                                                      *)
THEOREM TypeCorrect == Spec => []TypeOK
BY Invariance, PTL DEF IInv

(* A request answered 429 found the limit really reached, however the      *)
(* calls of maybeBlockByTargetRateLimit overlap or fail.                   *)
THEOREM RefusalsAreJust == Spec => []RefusedJustly
BY Invariance, PTL DEF IInv

(* trackUsage may lose requests but never counts one that was not made.    *)
THEOREM UsageIsNotInflated == Spec => []UsageNotInflated
<1>1. IInv => UsageNotInflated
  BY DEF IInv, Lagging, UsageNotInflated
<1>. QED
  BY Invariance, <1>1, PTL

(* In a minute in which no two calls of the limiter overlap it lets at     *)
(* most TARGET_RATE_LIMIT requests pass.                                   *)
THEOREM LimitIsExactInTurn == Spec => []LimitedInTurn
<1>1. IInv => LimitedInTurn
  <2> SUFFICES ASSUME IInv, NEW b \in Buckets, b \notin overlapped
               PROVE  passed[b] <= Limit
    BY DEF LimitedInTurn
  <2>1. passed[b] = rate[b]
    BY DEF IInv, InTurn
  <2>2. rate[b] \in 0 .. Limit
    BY DEF IInv, TypeOK
  <2>. QED  BY <2>1, <2>2, LimitAssumption
<1>. QED
  BY Invariance, <1>1, PTL

(* POST /api/checklist unchecks an item only in a document that was read   *)
(* before the item was checked.                                            *)
THEOREM ItemsLostOnlyToStaleWriters == Spec => LostOnlyToStaleWriter
<1> DEFINE Excused(i) == \E r \in Requests :
                           at[r] = "putState" /\ at'[r] = "200" /\ i \notin seen[r]
           Step == \A i \in checked \ checked' : Excused(i)
<1>1. TypeOK /\ Amending /\ [Next]_vars => [Step]_vars
  <2> SUFFICES ASSUME TypeOK, Amending, [Next]_vars PROVE Step
    OBVIOUS
  <2>1. ASSUME NEW r \in Requests, StatePut(r) PROVE Step
    <3>1. /\ at[r] = "putState" /\ at'[r] = "200"
          /\ checked' = Amended(r, seen[r])
      BY <2>1 DEF StatePut, TypeOK
    <3>2. seen[r] \subseteq checked'
      BY <3>1 DEF Amended, Amending, TypeOK, Kinds
    <3>. QED  BY <3>1, <3>2
  <2>2. CASE UNCHANGED checked
    BY <2>2
  <2>. QED
    BY <2>1, <2>2
    DEF Next, Router, Refuse, AtLimiter, NoHost, Respond, Limiter, RateRead,
        RatePut, Tracking, TrackRead, TrackPut, TrackFails, Checklist,
        StateRead, KvFails, Tick, vars, kv
<1>2. IInv => TypeOK /\ Amending
  BY DEF IInv
<1>. QED
  BY Invariance, <1>1, <1>2, PTL DEF Spec, LostOnlyToStaleWriter
=============================================================================
