----------------------------- MODULE GatewayProofs ----------------------------
(***************************************************************************)
(* Proofs about Gateway, for every number of organisations, workers and    *)
(* requests, and all times to live.                                        *)
(***************************************************************************)
EXTENDS Gateway, FiniteSetTheorems, TLAPS

USE DEF Stages, Results, Kinds, Steps

(* Each step belongs to the kinds that take it, in an organisation; what   *)
(* is to be stored is an answer of its kind.                               *)
StepOK(q) ==
    /\ q.kind # "admin" => q.org \in Orgs /\ q.pc # "idle"
    /\ q.pc \in {"membership", "lookup", "store", "answered"} => q.kind \in {"summary", "won"}
    /\ q.pc = "permission" => q.kind = "won"
    /\ q.pc = "store" => q.data \in IF q.kind = "won" THEN Results ELSE Stages

StepsOK == \A w \in Workers : StepOK(req[w])

(* What is stored is an answer of its kind.                                *)
EntriesOK ==
    \A o \in Orgs : /\ reply[o] # NoEntry => reply[o].data \in Results
                    /\ cache[o] # NoEntry => cache[o].data \in Stages

TypeInv == TypeOK /\ StepsOK /\ EntriesOK

-------------------------------------------------------------------------------
LEMMA IdleType == Idle \in Request /\ StepOK(Idle)
BY DEF Idle, Request, StepOK

LEMMA InitTypeInv == Init => TypeInv
<1> SUFFICES ASSUME Init PROVE TypeInv
  OBVIOUS
<1>1. TypeOK
  BY IdleType DEF Init, TypeOK
<1>2. StepsOK /\ EntriesOK
  BY IdleType DEF Init, StepsOK, EntriesOK
<1>3. QED BY <1>1, <1>2 DEF TypeInv

(* A request moves on.                                                     *)
LEMMA Moved ==
    ASSUME TypeInv, NEW w \in Workers, NEW q, Becomes(w, q)
    PROVE  /\ req'[w] = q
           /\ \A v \in Workers \ {w} : req'[v] = req[v]
           /\ q \in Request => req' \in [Workers -> Request]
           /\ StepOK(q) => StepsOK'
BY DEF Becomes, TypeInv, TypeOK, StepsOK

LEMMA Finished ==
    ASSUME TypeInv, NEW w \in Workers, Finish(w)
    PROVE  /\ req' \in [Workers -> Request] /\ StepsOK'
           /\ req'[w] = Idle
           /\ \A v \in Workers \ {w} : req'[v] = req[v]
           /\ context' \in [Workers -> Orgs \cup {Null}]
           /\ \A v \in Workers \ {w} : context'[v] = context[v]
<1>1. context' = [context EXCEPT ![w] = Null] /\ Becomes(w, Idle)
  BY DEF Finish
<1>2. QED BY <1>1, Moved, IdleType DEF TypeInv, TypeOK

LEMMA RowsType ==
    ASSUME TypeInv, NEW w \in Workers
    PROVE  Rows(w) \subseteq Orgs \cup {Null}
BY DEF Rows, TypeInv, TypeOK

(* The requests that the steps make of a request.                          *)
LEMMA Arrived ==
    ASSUME TypeInv, NEW w \in Workers, NEW kind \in Kinds, NEW o \in Orgs, Arrive(w, kind, o)
    PROVE  /\ req' \in [Workers -> Request] /\ StepsOK'
           /\ \A v \in Workers \ {w} : req'[v] = req[v]
           /\ req'[w].kind = kind /\ req'[w].used = {} /\ req'[w].arrived = now
           /\ req'[w].pc = IF kind \in {"summary", "won"} THEN "membership" ELSE "work"
           /\ kind # "admin" => req'[w].org = o
<1> DEFINE pc == IF kind \in {"summary", "won"} THEN "membership" ELSE "work"
           org == IF kind = "admin" THEN Null ELSE o
           q == [Idle EXCEPT !.pc = pc, !.kind = kind, !.arrived = now, !.org = org]
<1>1. pc \in Steps /\ org \in Orgs \cup {Null} /\ now \in Nat
  BY DEF TypeInv, TypeOK
<1>2. /\ q \in Request /\ q.pc = pc /\ q.kind = kind /\ q.org = org /\ q.used = {}
      /\ q.arrived = now
  <2> HIDE DEF pc, org
  <2> QED BY <1>1 DEF Idle, Request
<1>3. StepOK(q)
  <2>1. /\ pc # "idle" /\ pc \notin {"lookup", "store", "answered", "permission"}
        /\ pc = "membership" => kind \in {"summary", "won"}
        /\ kind # "admin" => org \in Orgs
    OBVIOUS
  <2> HIDE DEF pc, org, q
  <2> QED BY <1>2, <2>1 DEF StepOK
<1>4. (kind # "admin" => org = o) /\ Becomes(w, q)
  BY DEF Arrive
<1> HIDE DEF q
<1>5. /\ req'[w] = q /\ req' \in [Workers -> Request] /\ StepsOK'
      /\ \A v \in Workers \ {w} : req'[v] = req[v]
  BY <1>2, <1>3, <1>4, Moved
<1>6. QED BY <1>2, <1>4, <1>5

LEMMA Advanced ==
    ASSUME TypeInv, NEW w \in Workers, NEW pc \in Steps, NEW rows \in SUBSET (Orgs \cup {Null}),
           NEW data \in Stages \cup Results \cup {Null}, Advance(w, pc, rows, data),
           req[w].kind \in {"summary", "won"}, pc # "idle",
           pc = "permission" => req[w].kind = "won",
           pc = "store" => data \in IF req[w].kind = "won" THEN Results ELSE Stages
    PROVE  /\ req' \in [Workers -> Request] /\ StepsOK'
           /\ \A v \in Workers \ {w} : req'[v] = req[v]
           /\ req'[w].pc = pc /\ req'[w].used = req[w].used \cup rows /\ req'[w].data = data
           /\ req'[w].kind = req[w].kind /\ req'[w].org = req[w].org
           /\ req'[w].arrived = req[w].arrived
<1>1. PICK q : /\ q = [req[w] EXCEPT !.pc = pc, !.used = @ \cup rows, !.data = data]
               /\ Becomes(w, q)
  BY Zenon DEF Advance
<1>2. req[w] \in Request /\ req[w].org \in Orgs
  BY DEF TypeInv, TypeOK, StepsOK, StepOK
<1> HIDE DEF Stages, Results, Kinds, Steps
<1>3. /\ q \in Request /\ q.pc = pc /\ q.used = req[w].used \cup rows /\ q.data = data
      /\ q.kind = req[w].kind /\ q.org = req[w].org /\ q.arrived = req[w].arrived
  <2> DEFINE r == req[w]
  <2>1. r \in Request /\ q = [r EXCEPT !.pc = pc, !.used = @ \cup rows, !.data = data]
    BY <1>1, <1>2, Zenon
  <2> HIDE DEF r
  <2>2. /\ q \in Request /\ q.pc = pc /\ q.used = r.used \cup rows /\ q.data = data
        /\ q.kind = r.kind /\ q.org = r.org /\ q.arrived = r.arrived
    BY <2>1 DEF Request
  <2>3. QED BY <2>2, Zenon DEF r
<1>4. StepOK(q)
  BY <1>2, <1>3 DEF StepOK
<1>5. QED BY <1>1, <1>3, <1>4, Moved

LEMMA Went ==
    ASSUME TypeInv, NEW w \in Workers, NEW pc \in Steps, Goto(w, pc),
           req[w].kind \in {"summary", "won"}, pc \notin {"idle", "store"},
           pc = "permission" => req[w].kind = "won"
    PROVE  /\ req' \in [Workers -> Request] /\ StepsOK'
           /\ \A v \in Workers \ {w} : req'[v] = req[v]
           /\ req'[w].pc = pc /\ req'[w].used = req[w].used /\ req'[w].data = req[w].data
           /\ req'[w].kind = req[w].kind /\ req'[w].org = req[w].org
           /\ req'[w].arrived = req[w].arrived
<1>1. Advance(w, pc, {}, req[w].data)
  BY DEF Goto
<1>2. req[w].data \in Stages \cup Results \cup {Null}
  BY DEF TypeInv, TypeOK, Request
<1>3. /\ req' \in [Workers -> Request] /\ StepsOK'
      /\ \A v \in Workers \ {w} : req'[v] = req[v]
      /\ req'[w].pc = pc /\ req'[w].used = req[w].used \cup {} /\ req'[w].data = req[w].data
      /\ req'[w].kind = req[w].kind /\ req'[w].org = req[w].org
      /\ req'[w].arrived = req[w].arrived
  <2> {} \in SUBSET (Orgs \cup {Null}) /\ (pc = "store" => FALSE)
    OBVIOUS
  <2> HIDE DEF Stages, Results, Kinds, Steps
  <2> QED BY <1>1, <1>2, Advanced
<1>4. QED BY <1>3

(* The entry a worker keeps.                                               *)
LEMMA KeptType ==
    ASSUME TypeInv, NEW w \in Workers, req[w].pc = "store"
    PROVE  /\ Kept(w) \in Entry /\ Kept(w).data = req[w].data /\ Kept(w).of = req[w].used
           /\ Kept(w).until = now + TimeToLive(w)
<1>1. TimeToLive(w) \in Nat /\ now + TimeToLive(w) \in Nat
  BY TTLAssumption DEF TimeToLive, TypeInv, TypeOK
<1>2. req[w].data \in Stages \cup Results /\ req[w].used \in SUBSET (Orgs \cup {Null})
  BY DEF TypeInv, TypeOK, StepsOK, StepOK, Request
<1>3. QED BY <1>1, <1>2 DEF Kept, Entry

LEMMA FoundType ==
    ASSUME TypeInv, NEW w \in Workers, req[w].pc = "lookup", Found(w) # NoEntry
    PROVE  /\ Found(w) \in Entry /\ Found(w).data \in Stages \cup Results
           /\ req[w].kind = "won" => Found(w).data \in Results
           /\ Found(w).of \in SUBSET (Orgs \cup {Null})
<1>1. req[w].org \in Orgs
  BY DEF TypeInv, StepsOK, StepOK
<1>2. Found(w) \in Entry
  BY <1>1 DEF Found, TypeInv, TypeOK
<1>3. req[w].kind = "won" => Found(w).data \in Results
  BY <1>1 DEF Found, TypeInv, EntriesOK
<1>4. QED BY <1>2, <1>3 DEF Entry

LEMMA TypeStep == TypeInv /\ [Next]_vars => TypeInv'
<1> SUFFICES ASSUME TypeInv, [Next]_vars PROVE TypeInv'
  OBVIOUS
<1> USE DEF TypeInv
<1>1. ASSUME NEW w \in Workers, NEW kind \in Kinds, NEW o \in Orgs, Arrive(w, kind, o)
      PROVE  TypeInv'
  <2>2. req' \in [Workers -> Request] /\ StepsOK'
    BY <1>1, Arrived
  <2>3. /\ context' \in [Workers -> Orgs \cup {Null}]
        /\ unscoped' \in [Workers -> BOOLEAN] /\ begun' \in Nat
        /\ UNCHANGED <<seat, stage, redis, now, history>>
    BY <1>1 DEF Arrive, SetContext, TypeOK
  <2>4. QED BY <2>2, <2>3 DEF TypeOK, EntriesOK, redis, history
<1>2. ASSUME NEW w \in Workers, CheckMembership(w) PROVE TypeInv'
  <2>1. UNCHANGED <<unscoped, seat, stage, redis, now, begun, history>>
    BY <1>2 DEF CheckMembership
  <2>2. req' \in [Workers -> Request] /\ StepsOK' /\ context' \in [Workers -> Orgs \cup {Null}]
    <3>1. CASE req[w].org \in seat
      <4>1. /\ Goto(w, IF req[w].kind = "won" THEN "permission" ELSE "lookup")
            /\ SetContext(w, req[w].org) /\ req[w].pc = "membership"
        BY <1>2, <3>1 DEF CheckMembership, At
      <4>2. req[w].kind \in {"summary", "won"}
        BY <4>1 DEF StepsOK, StepOK
      <4>3. req' \in [Workers -> Request] /\ StepsOK'
        BY <4>1, <4>2, Went
      <4>4. context' \in [Workers -> Orgs \cup {Null}]
        BY <3>1, <4>1 DEF SetContext, TypeOK
      <4>5. QED BY <4>3, <4>4
    <3>2. CASE req[w].org \notin seat
      BY <1>2, <3>2, Finished DEF CheckMembership
    <3>3. QED BY <3>1, <3>2
  <2>3. QED BY <2>1, <2>2 DEF TypeOK, EntriesOK, redis, history
<1>3. ASSUME NEW w \in Workers, CheckPermission(w) PROVE TypeInv'
  <2>1. UNCHANGED <<unscoped, seat, stage, redis, now, begun, history>>
    BY <1>3 DEF CheckPermission
  <2>2. req' \in [Workers -> Request] /\ StepsOK' /\ context' \in [Workers -> Orgs \cup {Null}]
    <3>1. CASE Rows(w) \cap seat # {}
      <4>1. Advance(w, "lookup", Rows(w), req[w].data) /\ UNCHANGED context
        BY <1>3, <3>1 DEF CheckPermission
      <4>2. req[w].kind = "won" /\ req[w].data \in Stages \cup Results \cup {Null}
        BY <1>3 DEF CheckPermission, At, TypeOK, StepsOK, StepOK, Request
      <4>3. QED BY <4>1, <4>2, RowsType, Advanced DEF TypeOK
    <3>2. CASE ~(Rows(w) \cap seat # {})
      BY <1>3, <3>2, Finished DEF CheckPermission
    <3>3. QED BY <3>1, <3>2
  <2>3. QED BY <2>1, <2>2 DEF TypeOK, EntriesOK, redis, history
<1>4. ASSUME NEW w \in Workers, LookUp(w) PROVE TypeInv'
  <2>1. /\ req[w].pc = "lookup" /\ req[w].kind \in {"summary", "won"} /\ req[w].org \in Orgs
        /\ UNCHANGED <<process, seat, stage, redis, now, begun, left>>
    BY <1>4 DEF LookUp, At, StepsOK, StepOK
  <2>2. CASE Live(Found(w))
    <3>1. /\ Advance(w, "answered", Found(w).of, Found(w).data) /\ UNCHANGED excused
          /\ answers' = IF req[w].kind = "won"
                        THEN [answers EXCEPT ![req[w].org] = @ \cup {Found(w).data}] ELSE answers
      BY <1>4, <2>2 DEF LookUp
    <3>2. /\ Found(w).data \in Stages \cup Results /\ Found(w).of \in SUBSET (Orgs \cup {Null})
          /\ req[w].kind = "won" => Found(w).data \in Results
      BY <2>1, <2>2, FoundType DEF Live
    <3>3. req' \in [Workers -> Request] /\ StepsOK'
      BY <2>1, <3>1, <3>2, Advanced
    <3>4. answers' \in [Orgs -> SUBSET Results]
      BY <2>1, <3>1, <3>2 DEF TypeOK
    <3>5. QED BY <2>1, <3>1, <3>3, <3>4 DEF TypeOK, EntriesOK, process, redis
  <2>3. CASE ~Live(Found(w))
    <3>1. Goto(w, "work") /\ UNCHANGED answers
      BY <1>4, <2>3 DEF LookUp
    <3>2. excused' \subseteq Orgs
      BY <1>4, <2>1, <2>3 DEF LookUp, TypeOK
    <3>3. req' \in [Workers -> Request] /\ StepsOK'
      BY <2>1, <3>1, Went
    <3>4. QED BY <2>1, <3>1, <3>2, <3>3 DEF TypeOK, EntriesOK, process, redis
  <2>4. QED BY <2>2, <2>3
<1>5. ASSUME NEW w \in Workers, Compute(w) PROVE TypeInv'
  <2>1. PICK o \in Orgs : Advance(w, "store", Rows(w), stage[o])
    BY <1>5 DEF Compute
  <2>2. /\ req[w].kind = "summary"
        /\ UNCHANGED <<process, seat, stage, redis, now, begun, history>>
    BY <1>5 DEF Compute
  <2>3. stage[o] \in Stages
    BY DEF TypeOK
  <2>4. req' \in [Workers -> Request] /\ StepsOK'
    BY <2>1, <2>2, <2>3, RowsType, Advanced
  <2>5. QED BY <2>2, <2>4 DEF TypeOK, EntriesOK, process, redis, history
<1>6. ASSUME NEW w \in Workers, Transition(w) PROVE TypeInv'
  <2> DEFINE result(o) == IF stage[o] = "won" THEN "refused" ELSE "ok"
  <2>1. PICK o \in Orgs :
          /\ IF result(o) = "ok" THEN MoveTo(o, "won") ELSE UNCHANGED <<stage, left>>
          /\ Advance(w, "store", Rows(w), result(o))
    BY <1>6 DEF Transition
  <2>2. /\ req[w].kind = "won"
        /\ UNCHANGED <<process, seat, redis, now, begun, answers, excused>>
    BY <1>6 DEF Transition
  <2>3. req' \in [Workers -> Request] /\ StepsOK'
    BY <2>1, <2>2, RowsType, Advanced
  <2>4. stage' \in [Orgs -> Stages] /\ left' \in [Orgs -> [Stages -> Nat \cup {Null}]]
    <3>1. CASE result(o) = "ok"
      <4>1. stage' = [stage EXCEPT ![o] = "won"] /\ left' = [left EXCEPT ![o][stage[o]] = now]
        BY <2>1, <3>1 DEF MoveTo
      <4>2. stage[o] \in Stages /\ now \in Nat
        BY DEF TypeOK
      <4>3. QED BY <4>1, <4>2 DEF TypeOK
    <3>2. CASE result(o) # "ok"
      BY <2>1, <3>2 DEF TypeOK
    <3>3. QED BY <3>1, <3>2
  <2>5. QED BY <2>2, <2>3, <2>4 DEF TypeOK, EntriesOK, process, redis
<1>7. ASSUME NEW w \in Workers, Store(w) PROVE TypeInv'
  <2>1. /\ req[w].pc = "store" /\ Goto(w, "answered")
        /\ UNCHANGED <<process, seat, stage, now, begun, left, excused>>
    BY <1>7 DEF Store, At
  <2>2. /\ req[w].kind \in {"summary", "won"} /\ req[w].org \in Orgs
        /\ req[w].data \in IF req[w].kind = "won" THEN Results ELSE Stages
    BY <2>1 DEF StepsOK, StepOK
  <2>3. Kept(w) \in Entry /\ Kept(w).data = req[w].data
    BY <2>1, KeptType
  <2>6. req' \in [Workers -> Request] /\ StepsOK'
    BY <2>1, <2>2, Went
  <2>7. /\ cache' \in [Orgs -> Entry \cup {NoEntry}] /\ reply' \in [Orgs -> Entry \cup {NoEntry}]
        /\ answers' \in [Orgs -> SUBSET Results] /\ EntriesOK'
    <3>1. CASE req[w].kind = "won"
      <4>1. /\ reply' = [reply EXCEPT ![req[w].org] = Kept(w)]
            /\ answers' = [answers EXCEPT ![req[w].org] = @ \cup {req[w].data}]
            /\ UNCHANGED cache
        BY <1>7, <3>1 DEF Store
      <4>2. QED BY <2>2, <2>3, <3>1, <4>1 DEF TypeOK, EntriesOK
    <3>2. CASE req[w].kind = "summary"
      <4>1. cache' = [cache EXCEPT ![req[w].org] = Kept(w)] /\ UNCHANGED <<reply, answers>>
        BY <1>7, <3>2 DEF Store
      <4>2. QED BY <2>2, <2>3, <3>2, <4>1 DEF TypeOK, EntriesOK
    <3>3. QED BY <2>2, <3>1, <3>2
  <2>8. QED BY <2>1, <2>6, <2>7 DEF TypeOK, process
<1>8. ASSUME NEW w \in Workers, Finalize(w) \/ FailAccept(w) PROVE TypeInv'
  <2>1. Finish(w) /\ UNCHANGED <<unscoped, seat, stage, redis, now, begun, history>>
    BY <1>8 DEF Finalize, FailAccept
  <2>2. QED BY <2>1, Finished DEF TypeOK, EntriesOK, redis, history
<1>9. ASSUME NEW w \in Workers, Join(w) PROVE TypeInv'
  <2>1. /\ Finish(w) /\ seat' \subseteq Orgs
        /\ UNCHANGED <<unscoped, stage, redis, now, begun, history>>
    BY <1>9 DEF Join, TypeOK
  <2>2. QED BY <2>1, Finished DEF TypeOK, EntriesOK, redis, history
<1>10. ASSUME NEW w \in Workers, LeaveAdmin(w) PROVE TypeInv'
  <2>1. /\ Becomes(w, Idle) /\ unscoped' \in [Workers -> BOOLEAN]
        /\ UNCHANGED <<context, seat, stage, redis, now, begun, history>>
    BY <1>10 DEF LeaveAdmin, TypeOK
  <2>2. QED BY <2>1, Moved, IdleType DEF TypeOK, EntriesOK, redis, history
<1>11. ASSUME NEW w \in Workers, Fail(w) PROVE TypeInv'
  <2>1. /\ Becomes(w, Idle) /\ excused' = excused \cup Unstored(w)
        /\ UNCHANGED <<process, seat, stage, redis, now, begun, left, answers>>
    BY <1>11 DEF Fail
  <2>2. excused' \subseteq Orgs
    BY <2>1 DEF Unstored, TypeOK, StepsOK, StepOK
  <2>3. QED BY <2>1, <2>2, Moved, IdleType DEF TypeOK, EntriesOK, process, redis
<1>12. ASSUME NEW w \in Workers, Kill(w) PROVE TypeInv'
  <2>1. /\ Finish(w) /\ unscoped' \in [Workers -> BOOLEAN]
        /\ excused' = excused \cup Unstored(w)
        /\ UNCHANGED <<seat, stage, redis, now, begun, left, answers>>
    BY <1>12 DEF Kill, TypeOK
  <2>2. excused' \subseteq Orgs
    BY <2>1 DEF Unstored, TypeOK, StepsOK, StepOK
  <2>3. QED BY <2>1, <2>2, Finished DEF TypeOK, EntriesOK, redis
<1>13. CASE Others
  <2>1. /\ seat' \subseteq Orgs
        /\ UNCHANGED <<process, req, redis, now, begun, answers, excused>>
    BY <1>13 DEF Others, TypeOK
  <2>2. stage' \in [Orgs -> Stages] /\ left' \in [Orgs -> [Stages -> Nat \cup {Null}]]
    <3>1. PICK o \in Orgs : UNCHANGED <<stage, left>> \/ MoveTo(o, "won")
      BY <1>13 DEF Others
    <3>2. stage[o] \in Stages /\ now \in Nat
      BY DEF TypeOK
    <3>3. QED BY <3>1, <3>2 DEF MoveTo, TypeOK
  <2>3. QED BY <2>1, <2>2 DEF TypeOK, StepsOK, EntriesOK, process, redis
<1>14. CASE Tick
  BY <1>14 DEF Tick, TypeOK, StepsOK, EntriesOK, process, redis, history
<1>15. CASE UNCHANGED vars
  BY <1>15 DEF vars, TypeOK, StepsOK, EntriesOK
<1>16. QED
  BY <1>1, <1>2, <1>3, <1>4, <1>5, <1>6, <1>7, <1>8, <1>9, <1>10, <1>11, <1>12,
     <1>13, <1>14, <1>15 DEF Next

-------------------------------------------------------------------------------
(* The request of a worker stays in its organisation: the mode is left     *)
(* with the page of the administrators, and past the check of the          *)
(* membership the context is that of the request.                          *)
WorkerIsolated(w) ==
    /\ unscoped[w] => req[w].kind = "admin" /\ req[w].pc = "work"
    /\ req[w].kind # "admin" /\ req[w].pc # "membership" => context[w] = req[w].org
    /\ req[w].kind # "admin" => req[w].used \subseteq {req[w].org}

RedisIsolated == \A o \in Orgs : cache[o].of \subseteq {o} /\ reply[o].of \subseteq {o}

IsolationInv == TypeInv /\ (\A w \in Workers : WorkerIsolated(w)) /\ RedisIsolated

LEMMA InitIsolation == Init => IsolationInv
<1> SUFFICES ASSUME Init PROVE IsolationInv
  OBVIOUS
<1>1. \A w \in Workers : req[w] = Idle /\ unscoped[w] = FALSE
  BY DEF Init
<1>2. \A w \in Workers : WorkerIsolated(w)
  BY <1>1 DEF WorkerIsolated, Idle
<1>3. RedisIsolated
  BY DEF Init, RedisIsolated, NoEntry
<1>4. QED BY InitTypeInv, <1>2, <1>3 DEF IsolationInv

LEMMA OwnRows ==
    ASSUME IsolationInv, NEW w \in Workers, req[w].kind # "admin", req[w].pc # "membership"
    PROVE  Rows(w) = {req[w].org} /\ req[w].org \in Orgs
BY DEF IsolationInv, WorkerIsolated, Rows, TypeInv, StepsOK, StepOK

(* The request of one worker has moved, and nothing was written to Redis.  *)
LEMMA OneWorker ==
    ASSUME IsolationInv, NEW w \in Workers, WorkerIsolated(w)',
           \A v \in Workers \ {w} :
               req'[v] = req[v] /\ context'[v] = context[v] /\ unscoped'[v] = unscoped[v]
    PROVE  \A v \in Workers : WorkerIsolated(v)'
BY DEF IsolationInv, WorkerIsolated

LEMMA IdleIsolated ==
    ASSUME NEW w \in Workers, req'[w] = Idle, unscoped'[w] = FALSE
    PROVE  WorkerIsolated(w)'
BY DEF WorkerIsolated, Idle

LEMMA ScopedUnlessAdmin ==
    ASSUME IsolationInv, NEW w \in Workers, req[w].kind # "admin" \/ req[w].pc # "work"
    PROVE  unscoped[w] = FALSE
BY DEF IsolationInv, WorkerIsolated, TypeInv, TypeOK

LEMMA IsolationStep == IsolationInv /\ [Next]_vars => IsolationInv'
<1> SUFFICES ASSUME IsolationInv, [Next]_vars PROVE IsolationInv'
  OBVIOUS
<1>0. TypeInv /\ TypeInv'
  BY TypeStep DEF IsolationInv
<1> SUFFICES (\A w \in Workers : WorkerIsolated(w)') /\ RedisIsolated'
  BY <1>0 DEF IsolationInv
<1>1. ASSUME NEW w \in Workers, NEW kind \in Kinds, NEW o \in Orgs, Arrive(w, kind, o)
      PROVE  (\A v \in Workers : WorkerIsolated(v)') /\ RedisIsolated'
  <2>2. /\ \A v \in Workers \ {w} : req'[v] = req[v]
        /\ req'[w].kind = kind /\ req'[w].used = {}
        /\ req'[w].pc = IF kind \in {"summary", "won"} THEN "membership" ELSE "work"
        /\ kind # "admin" => req'[w].org = o
    BY <1>0, <1>1, Arrived
  <2>3. req[w].pc = "idle"
    BY <1>1 DEF Arrive, Busy
  <2>4. unscoped[w] = FALSE
    BY <2>3, ScopedUnlessAdmin
  <2>5. /\ unscoped' = IF kind = "admin" THEN [unscoped EXCEPT ![w] = TRUE] ELSE unscoped
        /\ IF kind = "accept" THEN context' = [context EXCEPT ![w] = o] ELSE UNCHANGED context
        /\ UNCHANGED redis
    BY <1>1 DEF Arrive, SetContext
  <2>6. WorkerIsolated(w)'
    BY <1>0, <2>2, <2>4, <2>5 DEF WorkerIsolated, TypeInv, TypeOK
  <2>7. \A v \in Workers \ {w} : context'[v] = context[v] /\ unscoped'[v] = unscoped[v]
    BY <1>0, <2>5 DEF TypeInv, TypeOK
  <2>8. QED BY <2>2, <2>5, <2>6, <2>7, OneWorker DEF IsolationInv, RedisIsolated, redis
<1>2. ASSUME NEW w \in Workers,
             CheckMembership(w) \/ CheckPermission(w) \/ Finalize(w) \/ FailAccept(w) \/ Join(w),
             Finish(w), UNCHANGED <<unscoped, redis>>
      PROVE  (\A v \in Workers : WorkerIsolated(v)') /\ RedisIsolated'
  <2>1. req[w].kind # "admin" \/ req[w].pc # "work"
    BY <1>2 DEF CheckMembership, CheckPermission, Finalize, FailAccept, Join, At
  <2>2. unscoped'[w] = FALSE
    BY <1>2, <2>1, ScopedUnlessAdmin
  <2>3. /\ req'[w] = Idle /\ \A v \in Workers \ {w} : req'[v] = req[v]
        /\ \A v \in Workers \ {w} : context'[v] = context[v]
    BY <1>0, <1>2, Finished
  <2>4. WorkerIsolated(w)'
    BY <2>2, <2>3, IdleIsolated
  <2>5. QED BY <1>2, <2>3, <2>4, OneWorker DEF IsolationInv, RedisIsolated, redis
<1>3. ASSUME NEW w \in Workers, CheckMembership(w)
      PROVE  (\A v \in Workers : WorkerIsolated(v)') /\ RedisIsolated'
  <2>1. CASE req[w].org \in seat
    <3>1. /\ Goto(w, IF req[w].kind = "won" THEN "permission" ELSE "lookup")
          /\ context' = [context EXCEPT ![w] = req[w].org] /\ req[w].pc = "membership"
          /\ UNCHANGED <<unscoped, redis>>
      BY <1>3, <2>1 DEF CheckMembership, At, SetContext
    <3>2. req[w].kind \in {"summary", "won"}
      BY <1>0, <3>1 DEF TypeInv, StepsOK, StepOK
    <3>3. /\ \A v \in Workers \ {w} : req'[v] = req[v]
          /\ req'[w].used = req[w].used /\ req'[w].kind = req[w].kind /\ req'[w].org = req[w].org
      BY <1>0, <3>1, <3>2, Went
    <3>4. WorkerIsolated(w)'
      BY <1>0, <3>1, <3>2, <3>3 DEF WorkerIsolated, IsolationInv, TypeInv, TypeOK
    <3>5. \A v \in Workers \ {w} : context'[v] = context[v]
      BY <1>0, <3>1 DEF TypeInv, TypeOK
    <3>6. QED BY <3>1, <3>3, <3>4, <3>5, OneWorker DEF IsolationInv, RedisIsolated, redis
  <2>2. CASE req[w].org \notin seat
    BY <1>2, <1>3, <2>2 DEF CheckMembership
  <2>3. QED BY <2>1, <2>2
(* A step of a request that keeps the context and uses rows.               *)
<1>4. ASSUME NEW w \in Workers, NEW pc \in Steps, NEW rows \in SUBSET {req[w].org},
             req[w].kind # "admin", req[w].pc # "membership",
             UNCHANGED process,
             \A v \in Workers \ {w} : req'[v] = req[v],
             req'[w].used = req[w].used \cup rows,
             req'[w].kind = req[w].kind, req'[w].org = req[w].org
      PROVE  \A v \in Workers : WorkerIsolated(v)'
  <2>1. WorkerIsolated(w)'
    BY <1>4 DEF WorkerIsolated, IsolationInv, process
  <2>2. QED BY <1>4, <2>1, OneWorker DEF process
<1>5. ASSUME NEW w \in Workers, CheckPermission(w)
      PROVE  (\A v \in Workers : WorkerIsolated(v)') /\ RedisIsolated'
  <2>1. /\ req[w].kind = "won" /\ req[w].pc = "permission" /\ UNCHANGED <<unscoped, redis>>
        /\ req[w].data \in Stages \cup Results \cup {Null}
    BY <1>0, <1>5 DEF CheckPermission, At, TypeInv, TypeOK, StepsOK, StepOK, Request
  <2>2. Rows(w) = {req[w].org} /\ Rows(w) \in SUBSET (Orgs \cup {Null})
    BY <1>0, <2>1, OwnRows, RowsType
  <2>3. CASE Rows(w) \cap seat # {}
    <3>1. Advance(w, "lookup", Rows(w), req[w].data) /\ UNCHANGED process
      BY <1>5, <2>3 DEF CheckPermission, process
    <3>2. /\ \A v \in Workers \ {w} : req'[v] = req[v]
          /\ req'[w].used = req[w].used \cup Rows(w)
          /\ req'[w].kind = req[w].kind /\ req'[w].org = req[w].org
      BY <1>0, <2>1, <2>2, <3>1, Advanced
    <3>3. QED BY <1>4, <2>1, <2>2, <3>1, <3>2 DEF IsolationInv, RedisIsolated, redis
  <2>4. CASE ~(Rows(w) \cap seat # {})
    BY <1>2, <1>5, <2>1, <2>4 DEF CheckPermission
  <2>5. QED BY <2>3, <2>4
<1>6. ASSUME NEW w \in Workers, LookUp(w)
      PROVE  (\A v \in Workers : WorkerIsolated(v)') /\ RedisIsolated'
  <2>1. /\ req[w].pc = "lookup" /\ req[w].kind \in {"summary", "won"} /\ req[w].org \in Orgs
        /\ UNCHANGED <<process, redis>>
    BY <1>0, <1>6 DEF LookUp, At, TypeInv, StepsOK, StepOK
  <2>2. CASE Live(Found(w))
    <3>1. Advance(w, "answered", Found(w).of, Found(w).data)
      BY <1>6, <2>2 DEF LookUp
    <3>2. /\ Found(w).data \in Stages \cup Results /\ Found(w).of \in SUBSET (Orgs \cup {Null})
      BY <1>0, <2>1, <2>2, FoundType DEF Live
    <3>3. /\ \A v \in Workers \ {w} : req'[v] = req[v]
          /\ req'[w].used = req[w].used \cup Found(w).of
          /\ req'[w].kind = req[w].kind /\ req'[w].org = req[w].org
      BY <1>0, <2>1, <3>1, <3>2, Advanced
    <3>4. Found(w).of \in SUBSET {req[w].org}
      BY <2>1 DEF Found, IsolationInv, RedisIsolated
    <3>5. QED BY <1>4, <2>1, <3>3, <3>4 DEF IsolationInv, RedisIsolated, redis
  <2>3. CASE ~Live(Found(w))
    <3>1. Goto(w, "work")
      BY <1>6, <2>3 DEF LookUp
    <3>2. /\ \A v \in Workers \ {w} : req'[v] = req[v]
          /\ req'[w].used = req[w].used
          /\ req'[w].kind = req[w].kind /\ req'[w].org = req[w].org
      BY <1>0, <2>1, <3>1, Went
    <3>3. {} \in SUBSET {req[w].org} /\ req[w].used = req[w].used \cup {}
      OBVIOUS
    <3>4. QED BY <1>4, <2>1, <3>2, <3>3 DEF IsolationInv, RedisIsolated, redis
  <2>4. QED BY <2>2, <2>3
<1>7. ASSUME NEW w \in Workers, Compute(w) \/ Transition(w)
      PROVE  (\A v \in Workers : WorkerIsolated(v)') /\ RedisIsolated'
  <2>1. /\ req[w].pc = "work" /\ req[w].kind \in {"summary", "won"}
        /\ UNCHANGED <<process, redis>>
    BY <1>7 DEF Compute, Transition, At
  <2>2. PICK data : /\ Advance(w, "store", Rows(w), data)
                    /\ data \in IF req[w].kind = "won" THEN Results ELSE Stages
    <3>1. CASE Compute(w)
      <4>1. PICK o \in Orgs : Advance(w, "store", Rows(w), stage[o])
        BY <3>1 DEF Compute
      <4>2. stage[o] \in Stages /\ req[w].kind = "summary"
        BY <1>0, <3>1 DEF Compute, TypeInv, TypeOK
      <4>3. QED BY <4>1, <4>2
    <3>2. CASE Transition(w)
      <4>1. PICK o \in Orgs :
               Advance(w, "store", Rows(w), IF stage[o] = "won" THEN "refused" ELSE "ok")
        BY <3>2 DEF Transition
      <4>2. req[w].kind = "won"
        BY <3>2 DEF Transition
      <4>3. QED BY <4>1, <4>2
    <3>3. QED BY <1>7, <3>1, <3>2
  <2>3. Rows(w) = {req[w].org} /\ Rows(w) \in SUBSET (Orgs \cup {Null})
    BY <1>0, <2>1, OwnRows, RowsType
  <2>4. /\ \A v \in Workers \ {w} : req'[v] = req[v]
        /\ req'[w].used = req[w].used \cup Rows(w)
        /\ req'[w].kind = req[w].kind /\ req'[w].org = req[w].org
    BY <1>0, <2>1, <2>2, <2>3, Advanced
  <2>5. QED BY <1>4, <2>1, <2>3, <2>4 DEF IsolationInv, RedisIsolated, redis
<1>8. ASSUME NEW w \in Workers, Store(w)
      PROVE  (\A v \in Workers : WorkerIsolated(v)') /\ RedisIsolated'
  <2>1. /\ req[w].pc = "store" /\ Goto(w, "answered") /\ UNCHANGED process
    BY <1>8 DEF Store, At
  <2>2. req[w].kind \in {"summary", "won"} /\ req[w].org \in Orgs
    BY <1>0, <2>1 DEF TypeInv, StepsOK, StepOK
  <2>3. /\ \A v \in Workers \ {w} : req'[v] = req[v]
        /\ req'[w].used = req[w].used
        /\ req'[w].kind = req[w].kind /\ req'[w].org = req[w].org
    BY <1>0, <2>1, <2>2, Went
  <2>4. {} \in SUBSET {req[w].org} /\ req[w].used = req[w].used \cup {}
    OBVIOUS
  <2>5. Kept(w).of = req[w].used /\ req[w].used \subseteq {req[w].org}
    BY <1>0, <2>1, <2>2, KeptType DEF IsolationInv, WorkerIsolated
  <2>6. /\ reply' = [reply EXCEPT ![req[w].org] = Kept(w)] \/ UNCHANGED reply
        /\ cache' = [cache EXCEPT ![req[w].org] = Kept(w)] \/ UNCHANGED cache
    BY <1>8 DEF Store
  <2>7. RedisIsolated'
    <3>1. ASSUME NEW o \in Orgs PROVE cache'[o].of \subseteq {o} /\ reply'[o].of \subseteq {o}
      <4>1. /\ cache'[o] = cache[o] \/ (o = req[w].org /\ cache'[o] = Kept(w))
            /\ reply'[o] = reply[o] \/ (o = req[w].org /\ reply'[o] = Kept(w))
        BY <1>0, <2>6 DEF TypeInv, TypeOK
      <4>2. cache[o].of \subseteq {o} /\ reply[o].of \subseteq {o}
        BY DEF IsolationInv, RedisIsolated
      <4>3. QED BY <2>5, <4>1, <4>2
    <3>2. QED BY <3>1 DEF RedisIsolated
  <2>8. QED BY <1>4, <2>1, <2>2, <2>3, <2>4, <2>7
<1>9. ASSUME NEW w \in Workers, Finalize(w) \/ FailAccept(w) \/ Join(w)
      PROVE  (\A v \in Workers : WorkerIsolated(v)') /\ RedisIsolated'
  BY <1>2, <1>9 DEF Finalize, FailAccept, Join
<1>10. ASSUME NEW w \in Workers, LeaveAdmin(w) \/ Kill(w) \/ Fail(w)
       PROVE  (\A v \in Workers : WorkerIsolated(v)') /\ RedisIsolated'
  <2>1. Becomes(w, Idle) /\ UNCHANGED redis
    BY <1>10 DEF LeaveAdmin, Kill, Fail, Finish
  <2>2. req'[w] = Idle /\ \A v \in Workers \ {w} : req'[v] = req[v]
    BY <1>0, <2>1, Moved
  <2>3. unscoped'[w] = FALSE
    BY <1>0, <1>10, ScopedUnlessAdmin DEF LeaveAdmin, Kill, Fail, TypeInv, TypeOK, process
  <2>4. \A v \in Workers \ {w} : context'[v] = context[v] /\ unscoped'[v] = unscoped[v]
    BY <1>0, <1>10 DEF LeaveAdmin, Kill, Fail, Finish, TypeInv, TypeOK, process
  <2>5. WorkerIsolated(w)'
    BY <2>2, <2>3, IdleIsolated
  <2>6. QED BY <2>1, <2>2, <2>4, <2>5, OneWorker DEF IsolationInv, RedisIsolated, redis
<1>11. CASE Others \/ Tick \/ UNCHANGED vars
  <2>1. UNCHANGED <<process, req, redis>>
    BY <1>11 DEF Others, Tick, vars, process, redis
  <2>2. QED BY <2>1 DEF IsolationInv, WorkerIsolated, RedisIsolated, process, redis
<1>12. QED
  BY <1>1, <1>3, <1>5, <1>6, <1>7, <1>8, <1>9, <1>10, <1>11 DEF Next

(* Whatever the workers have served before, a request uses the rows of the *)
(* organisation in its URL only: core/views.py:17-46, context.py.          *)
THEOREM Isolation == Spec => []TenantIsolation
<1>1. IsolationInv => TenantIsolation
  BY DEF IsolationInv, WorkerIsolated, TenantIsolation
<1>2. QED BY InitIsolation, IsolationStep, <1>1, PTL DEF Spec

(* Context, requests and Redis stay within their types, and a stored       *)
(* answer is one of its kind: core/idempotency.py, dashboard/services.py.  *)
THEOREM TypeCorrect == Spec => []TypeOK
<1>1. TypeInv => TypeOK
  BY DEF TypeInv
<1>2. QED BY InitTypeInv, TypeStep, <1>1, PTL DEF Spec

-------------------------------------------------------------------------------
(* A step that ends a request or takes it no further than to its lookup    *)
(* touches neither leads nor Redis, and tells nothing.                     *)
Plain(w) ==
    \/ \E kind \in Kinds, o \in Orgs : Arrive(w, kind, o)
    \/ CheckMembership(w) \/ CheckPermission(w) \/ Finalize(w) \/ Join(w)
    \/ LeaveAdmin(w) \/ Fail(w) \/ FailAccept(w) \/ Kill(w)

LEMMA PlainStep ==
    ASSUME TypeInv, NEW w \in Workers, Plain(w)
    PROVE  /\ UNCHANGED <<stage, left, now, cache, reply, answers>>
           /\ excused' = excused \/ excused' = excused \cup Unstored(w)
           /\ \A v \in Workers \ {w} : req'[v] = req[v]
           /\ \/ req'[w] = Idle
              \/ req'[w].pc \notin {"store", "answered"} /\ req'[w].arrived = now
              \/ /\ req'[w].pc \notin {"store", "answered"} /\ req[w].pc # "idle"
                 /\ req'[w].arrived = req[w].arrived
           /\ ~(req'[w].kind = "won" /\ req'[w].pc \in {"work", "store"})
           /\ (req[w].kind = "won" /\ req[w].pc = "store") => excused' = excused \cup Unstored(w)
<1>1. ASSUME NEW kind \in Kinds, NEW o \in Orgs, Arrive(w, kind, o)
      PROVE  /\ UNCHANGED <<stage, left, now, cache, reply, answers, excused>>
             /\ \A v \in Workers \ {w} : req'[v] = req[v]
             /\ req'[w].pc \notin {"store", "answered"} /\ req'[w].arrived = now
             /\ ~(req'[w].kind = "won" /\ req'[w].pc \in {"work", "store"})
             /\ req[w].pc = "idle"
  <2>1. UNCHANGED <<stage, left, now, cache, reply, answers, excused>> /\ req[w].pc = "idle"
    BY <1>1 DEF Arrive, redis, history, Busy
  <2>2. QED BY <1>1, <2>1, Arrived
<1>2. ASSUME CheckMembership(w) \/ CheckPermission(w), ~Finish(w)
      PROVE  /\ UNCHANGED <<stage, left, now, cache, reply, answers, excused>>
             /\ \A v \in Workers \ {w} : req'[v] = req[v]
             /\ req'[w].pc \in {"permission", "lookup"} /\ req'[w].arrived = req[w].arrived
             /\ req[w].pc \notin {"idle", "store"}
  <2>1. /\ UNCHANGED <<stage, left, now, cache, reply, answers, excused>>
        /\ req[w].pc \in {"membership", "permission"}
    BY <1>2 DEF CheckMembership, CheckPermission, At, redis, history
  <2>2. req[w].kind \in {"summary", "won"} /\ req[w].data \in Stages \cup Results \cup {Null}
    BY <2>1 DEF TypeInv, TypeOK, StepsOK, StepOK, Request
  <2>3. CASE CheckMembership(w)
    <3>1. Goto(w, IF req[w].kind = "won" THEN "permission" ELSE "lookup")
      BY <1>2, <2>3 DEF CheckMembership
    <3>2. QED BY <2>1, <2>2, <3>1, Went
  <2>4. CASE CheckPermission(w)
    <3>1. Advance(w, "lookup", Rows(w), req[w].data)
      BY <1>2, <2>4 DEF CheckPermission
    <3>2. QED BY <2>1, <2>2, <3>1, RowsType, Advanced
  <2>5. QED BY <1>2, <2>3, <2>4
<1>3. ASSUME \/ (CheckMembership(w) \/ CheckPermission(w)) /\ Finish(w)
             \/ Finalize(w) \/ Join(w) \/ LeaveAdmin(w) \/ Fail(w) \/ FailAccept(w) \/ Kill(w)
      PROVE  /\ UNCHANGED <<stage, left, now, cache, reply, answers>>
             /\ excused' = excused \/ excused' = excused \cup Unstored(w)
             /\ \A v \in Workers \ {w} : req'[v] = req[v]
             /\ req'[w] = Idle
             /\ (req[w].kind = "won" /\ req[w].pc = "store") => excused' = excused \cup Unstored(w)
  <2>1. /\ UNCHANGED <<stage, left, now, cache, reply, answers>>
        /\ excused' = excused \/ excused' = excused \cup Unstored(w)
        /\ Becomes(w, Idle)
    BY <1>3 DEF CheckMembership, CheckPermission, Finalize, Join, LeaveAdmin, Fail, FailAccept,
                Kill, Finish, redis, history
  <2>2. (req[w].kind = "won" /\ req[w].pc = "store") => excused' = excused \cup Unstored(w)
    BY <1>3 DEF CheckMembership, CheckPermission, Finalize, Join, LeaveAdmin, Fail, FailAccept,
                Kill, At
  <2>3. QED BY <2>1, <2>2, Moved
<1>4. Idle.kind = "admin" /\ Idle.pc = "idle"
  BY DEF Idle
<1>5. QED
  <2>1. CASE \E kind \in Kinds, o \in Orgs : Arrive(w, kind, o)
    BY <1>1, <2>1
  <2>2. CASE (CheckMembership(w) \/ CheckPermission(w)) /\ ~Finish(w)
    BY <1>2, <2>2
  <2>3. CASE \/ (CheckMembership(w) \/ CheckPermission(w)) /\ Finish(w)
             \/ Finalize(w) \/ Join(w) \/ LeaveAdmin(w) \/ Fail(w) \/ FailAccept(w) \/ Kill(w)
    BY <1>3, <1>4, <2>3
  <2>4. QED BY <2>1, <2>2, <2>3 DEF Plain

(* The work of a summary shows the stage of its own organisation's lead.   *)
LEMMA Computed ==
    ASSUME IsolationInv, NEW w \in Workers, Compute(w)
    PROVE  /\ req[w].kind = "summary" /\ req[w].pc = "work" /\ req[w].org \in Orgs
           /\ \A v \in Workers \ {w} : req'[v] = req[v]
           /\ req'[w].kind = "summary" /\ req'[w].pc = "store" /\ req'[w].org = req[w].org
           /\ req'[w].data = stage[req[w].org] /\ req'[w].arrived = req[w].arrived
           /\ UNCHANGED <<stage, left, now, cache, reply, answers, excused>>
<1>1. /\ req[w].kind = "summary" /\ req[w].pc = "work"
      /\ UNCHANGED <<stage, left, now, cache, reply, answers, excused>>
  BY DEF Compute, At, redis, history
<1>2. Rows(w) = {req[w].org} /\ req[w].org \in Orgs
  BY <1>1, OwnRows
<1>3. Advance(w, "store", {req[w].org}, stage[req[w].org])
  BY <1>2 DEF Compute
<1>4. stage[req[w].org] \in Stages /\ TypeInv /\ {req[w].org} \in SUBSET (Orgs \cup {Null})
  BY <1>2 DEF IsolationInv, TypeInv, TypeOK
<1>5. QED BY <1>1, <1>2, <1>3, <1>4, Advanced

LEMMA Transitioned ==
    ASSUME IsolationInv, NEW w \in Workers, Transition(w)
    PROVE  /\ req[w].kind = "won" /\ req[w].pc = "work" /\ req[w].org \in Orgs
           /\ \A v \in Workers \ {w} : req'[v] = req[v]
           /\ req'[w].kind = "won" /\ req'[w].pc = "store" /\ req'[w].org = req[w].org
           /\ req'[w].arrived = req[w].arrived
           /\ \/ UNCHANGED <<stage, left>>
              \/ stage[req[w].org] = "new" /\ MoveTo(req[w].org, "won")
           /\ UNCHANGED <<now, cache, reply, answers, excused>>
<1>1. /\ req[w].kind = "won" /\ req[w].pc = "work"
      /\ UNCHANGED <<now, cache, reply, answers, excused>>
  BY DEF Transition, At, redis
<1>2. Rows(w) = {req[w].org} /\ req[w].org \in Orgs
  BY <1>1, OwnRows
<1> DEFINE o == req[w].org
           result == IF stage[o] = "won" THEN "refused" ELSE "ok"
<1>3. /\ IF result = "ok" THEN MoveTo(o, "won") ELSE UNCHANGED <<stage, left>>
      /\ Advance(w, "store", {o}, result)
  BY <1>2 DEF Transition
<1>4. /\ stage[o] \in Stages /\ TypeInv /\ {o} \in SUBSET (Orgs \cup {Null})
      /\ result \in Results
  BY <1>2 DEF IsolationInv, TypeInv, TypeOK
<1>5. \/ UNCHANGED <<stage, left>>
      \/ stage[o] = "new" /\ MoveTo(o, "won")
  BY <1>3, <1>4
<1> HIDE DEF result
<1>6. QED BY <1>1, <1>2, <1>3, <1>4, <1>5, Advanced

LEMMA LookedUp ==
    ASSUME TypeInv, NEW w \in Workers, LookUp(w)
    PROVE  /\ req[w].pc = "lookup" /\ req[w].kind \in {"summary", "won"} /\ req[w].org \in Orgs
           /\ \A v \in Workers \ {w} : req'[v] = req[v]
           /\ req'[w].kind = req[w].kind /\ req'[w].org = req[w].org
           /\ req'[w].arrived = req[w].arrived
           /\ UNCHANGED <<stage, left, now, cache, reply>>
           /\ \/ /\ Live(Found(w)) /\ req'[w].pc = "answered" /\ req'[w].data = Found(w).data
                 /\ UNCHANGED excused
                 /\ answers' = IF req[w].kind = "won"
                               THEN [answers EXCEPT ![req[w].org] = @ \cup {Found(w).data}]
                               ELSE answers
              \/ /\ req'[w].pc = "work" /\ UNCHANGED answers
                 /\ excused' = IF req[w].kind = "won" /\ (Overlaps(w) \/ Found(w) # NoEntry)
                               THEN excused \cup {req[w].org} ELSE excused
<1>1. /\ req[w].pc = "lookup" /\ req[w].kind \in {"summary", "won"} /\ req[w].org \in Orgs
      /\ UNCHANGED <<stage, left, now, cache, reply>>
  BY DEF LookUp, At, TypeInv, StepsOK, StepOK, redis
<1>2. CASE Live(Found(w))
  <2>1. /\ Advance(w, "answered", Found(w).of, Found(w).data) /\ UNCHANGED excused
        /\ answers' = IF req[w].kind = "won"
                      THEN [answers EXCEPT ![req[w].org] = @ \cup {Found(w).data}] ELSE answers
    BY <1>2 DEF LookUp
  <2>2. Found(w).data \in Stages \cup Results /\ Found(w).of \in SUBSET (Orgs \cup {Null})
    BY <1>1, <1>2, FoundType DEF Live
  <2>3. /\ \A v \in Workers \ {w} : req'[v] = req[v]
        /\ req'[w].kind = req[w].kind /\ req'[w].org = req[w].org
        /\ req'[w].arrived = req[w].arrived
        /\ req'[w].pc = "answered" /\ req'[w].data = Found(w).data
    BY <1>1, <2>1, <2>2, Advanced
  <2>4. QED BY <1>1, <1>2, <2>1, <2>3
<1>3. CASE ~Live(Found(w))
  <2>1. /\ Goto(w, "work") /\ UNCHANGED answers
        /\ excused' = IF req[w].kind = "won" /\ (Overlaps(w) \/ Found(w) # NoEntry)
                      THEN excused \cup {req[w].org} ELSE excused
    BY <1>3 DEF LookUp
  <2>2. /\ \A v \in Workers \ {w} : req'[v] = req[v]
        /\ req'[w].kind = req[w].kind /\ req'[w].org = req[w].org
        /\ req'[w].arrived = req[w].arrived /\ req'[w].pc = "work"
    BY <1>1, <2>1, Went
  <2>3. QED BY <1>1, <2>1, <2>2
<1>4. QED BY <1>2, <1>3

LEMMA Stored ==
    ASSUME TypeInv, NEW w \in Workers, Store(w)
    PROVE  /\ req[w].pc = "store" /\ req[w].kind \in {"summary", "won"} /\ req[w].org \in Orgs
           /\ req[w].data \in IF req[w].kind = "won" THEN Results ELSE Stages
           /\ \A v \in Workers \ {w} : req'[v] = req[v]
           /\ req'[w].kind = req[w].kind /\ req'[w].org = req[w].org
           /\ req'[w].arrived = req[w].arrived /\ req'[w].data = req[w].data
           /\ req'[w].pc = "answered"
           /\ UNCHANGED <<stage, left, now, excused>>
           /\ IF req[w].kind = "won"
              THEN /\ reply' = [reply EXCEPT ![req[w].org] = Kept(w)]
                   /\ answers' = [answers EXCEPT ![req[w].org] = @ \cup {req[w].data}]
                   /\ UNCHANGED cache
              ELSE cache' = [cache EXCEPT ![req[w].org] = Kept(w)] /\ UNCHANGED <<reply, answers>>
<1>1. /\ req[w].pc = "store" /\ Goto(w, "answered") /\ UNCHANGED <<stage, left, now, excused>>
      /\ IF req[w].kind = "won"
         THEN /\ reply' = [reply EXCEPT ![req[w].org] = Kept(w)]
              /\ answers' = [answers EXCEPT ![req[w].org] = @ \cup {req[w].data}]
              /\ UNCHANGED cache
         ELSE cache' = [cache EXCEPT ![req[w].org] = Kept(w)] /\ UNCHANGED <<reply, answers>>
  BY DEF Store, At
<1>2. /\ req[w].kind \in {"summary", "won"} /\ req[w].org \in Orgs
      /\ req[w].data \in IF req[w].kind = "won" THEN Results ELSE Stages
  BY <1>1 DEF TypeInv, StepsOK, StepOK
<1>3. /\ \A v \in Workers \ {w} : req'[v] = req[v]
      /\ req'[w].kind = req[w].kind /\ req'[w].org = req[w].org
      /\ req'[w].arrived = req[w].arrived /\ req'[w].data = req[w].data
      /\ req'[w].pc = "answered"
  BY <1>1, <1>2, Went
<1>4. QED BY <1>1, <1>2, <1>3

-------------------------------------------------------------------------------
(* A stage is left once, and not in the future.                            *)
LeftOK ==
    \A o \in Orgs : /\ left[o]["won"] = Null
                    /\ stage[o] = "new" => left[o]["new"] = Null
                    /\ left[o]["new"] # Null => left[o]["new"] <= now

(* The lead of o has not left stage s, or not before t.                    *)
Since(o, s, t) == left[o][s] = Null \/ t <= left[o][s]

WorkerTimely(w) ==
    LET q == req[w] IN
    /\ q.pc # "idle" => q.arrived <= now /\ now <= q.arrived + Lag
    /\ q.kind = "summary" /\ q.pc = "store" => Since(q.org, q.data, q.arrived)
    /\ q.kind = "summary" /\ q.pc = "answered" => q.data \in Stages
    /\ q.kind = "summary" /\ q.pc = "answered" =>
           left[q.org][q.data] = Null \/ left[q.org][q.data] + CACHE_TTL_SECONDS + Lag > q.arrived

(* A dashboard in Redis expires soon after it has become false.            *)
CacheTimely(o) ==
    cache[o] # NoEntry =>
        /\ cache[o].until <= now + CACHE_TTL_SECONDS
        /\ \/ left[o][cache[o].data] = Null
           \/ cache[o].until <= left[o][cache[o].data] + Lag + CACHE_TTL_SECONDS

StaleInv ==
    /\ IsolationInv
    /\ LeftOK
    /\ \A w \in Workers : WorkerTimely(w)
    /\ \A o \in Orgs : CacheTimely(o)

LEMMA InitStale == Init => StaleInv
<1> SUFFICES ASSUME Init PROVE StaleInv
  OBVIOUS
<1>1. LeftOK
  BY DEF Init, LeftOK
<1>2. \A w \in Workers : WorkerTimely(w)
  BY DEF Init, WorkerTimely, Idle
<1>3. \A o \in Orgs : CacheTimely(o)
  BY DEF Init, CacheTimely
<1>4. QED BY InitIsolation, <1>1, <1>2, <1>3 DEF StaleInv

LEMMA LeftType ==
    ASSUME StaleInv, NEW o \in Orgs, NEW s \in Stages
    PROVE  /\ left[o][s] \in Nat \cup {Null} /\ Null \notin Nat /\ now \in Nat
           /\ left[o][s] # Null => left[o][s] <= now
BY NullAssumption DEF StaleInv, LeftOK, IsolationInv, TypeInv, TypeOK

LEMMA Moving ==
    ASSUME StaleInv, NEW o \in Orgs, stage[o] = "new", MoveTo(o, "won")
    PROVE  /\ left'[o]["new"] = now /\ left'[o]["won"] = left[o]["won"] /\ stage'[o] = "won"
           /\ \A p \in Orgs \ {o} : left'[p] = left[p] /\ stage'[p] = stage[p]
<1>1. left' = [left EXCEPT ![o]["new"] = now] /\ stage' = [stage EXCEPT ![o] = "won"]
  BY DEF MoveTo
<1>2. left \in [Orgs -> [Stages -> Nat \cup {Null}]] /\ stage \in [Orgs -> Stages]
  BY DEF StaleInv, IsolationInv, TypeInv, TypeOK
<1>3. QED BY <1>1, <1>2

(* Leads may move while the clock stands still.                            *)
LEMMA LeadsMove ==
    ASSUME StaleInv, UNCHANGED now,
           UNCHANGED <<stage, left>> \/ \E o \in Orgs : stage[o] = "new" /\ MoveTo(o, "won")
    PROVE  /\ LeftOK'
           /\ \A o \in Orgs, s \in Stages : left'[o][s] = left[o][s] \/ left'[o][s] = now
<1>1. CASE UNCHANGED <<stage, left>>
  BY <1>1 DEF StaleInv, LeftOK
<1>2. ASSUME NEW o \in Orgs, stage[o] = "new", MoveTo(o, "won")
      PROVE  /\ LeftOK'
             /\ \A p \in Orgs, s \in Stages : left'[p][s] = left[p][s] \/ left'[p][s] = now
  <2>1. now \in Nat
    BY DEF StaleInv, IsolationInv, TypeInv, TypeOK
  <2>2. QED BY <1>2, <2>1, Moving DEF StaleInv, LeftOK
<1>3. QED BY <1>1, <1>2

LEMMA SummaryFacts ==
    ASSUME StaleInv, NEW w \in Workers
    PROVE  /\ req[w].arrived \in Nat /\ now \in Nat
           /\ (req[w].pc # "idle" => req[w].arrived <= now /\ now <= req[w].arrived + Lag)
           /\ (req[w].kind = "summary" => req[w].org \in Orgs)
           /\ (req[w].kind = "summary" /\ req[w].pc \in {"store", "answered"} => req[w].data \in Stages)
<1>1. StepOK(req[w]) /\ req[w] \in Request /\ now \in Nat /\ WorkerTimely(w)
  BY DEF StaleInv, IsolationInv, TypeInv, TypeOK, StepsOK
<1>2. QED BY <1>1 DEF StepOK, Request, WorkerTimely

LEMMA CacheFacts ==
    ASSUME StaleInv, NEW o \in Orgs, cache[o] # NoEntry
    PROVE  cache[o].until \in Nat /\ cache[o].data \in Stages
BY DEF StaleInv, IsolationInv, TypeInv, TypeOK, EntriesOK, Entry

LEMMA TimelyKept ==
    ASSUME StaleInv, UNCHANGED now,
           \A o \in Orgs, s \in Stages : left'[o][s] = left[o][s] \/ left'[o][s] = now,
           NEW w \in Workers, req'[w] = req[w]
    PROVE  WorkerTimely(w)'
<1> DEFINE q == req[w]
<1>1. /\ WorkerTimely(w) /\ q.arrived \in Nat /\ now \in Nat
      /\ (q.pc # "idle" => q.arrived <= now)
      /\ (q.kind = "summary" => q.org \in Orgs)
      /\ (q.kind = "summary" /\ q.pc \in {"store", "answered"} => q.data \in Stages)
      /\ CACHE_TTL_SECONDS \in Nat /\ CACHE_TTL_SECONDS > 0 /\ Lag \in Nat
  BY SummaryFacts, TTLAssumption, BoundAssumption DEF StaleInv
<1>2. CASE q.kind = "summary" /\ q.pc \in {"store", "answered"}
  <2> DEFINE l == left[q.org][q.data]
             n == left'[q.org][q.data]
  <2>1. (n = l \/ n = now) /\ l \in Nat \cup {Null} /\ Null \notin Nat
    BY <1>1, <1>2, LeftType
  <2> HIDE DEF l, n
  <2>2. /\ (q.pc = "store" => l = Null \/ q.arrived <= l)
        /\ (q.pc = "answered" => l = Null \/ l + CACHE_TTL_SECONDS + Lag > q.arrived)
        /\ (q.pc # "idle" => q.arrived <= now /\ now <= q.arrived + Lag)
    BY <1>1, <1>2 DEF WorkerTimely, Since, l
  <2>3. /\ (q.pc = "store" => n = Null \/ q.arrived <= n)
        /\ (q.pc = "answered" => n = Null \/ n + CACHE_TTL_SECONDS + Lag > q.arrived)
    BY <1>1, <1>2, <2>1, <2>2
  <2>4. QED BY <1>1, <1>2, <2>2, <2>3 DEF WorkerTimely, Since, n
<1>3. CASE ~(q.kind = "summary" /\ q.pc \in {"store", "answered"})
  BY <1>1, <1>3 DEF WorkerTimely
<1>4. QED BY <1>2, <1>3

LEMMA CacheKept ==
    ASSUME StaleInv, UNCHANGED now,
           \A o \in Orgs, s \in Stages : left'[o][s] = left[o][s] \/ left'[o][s] = now,
           NEW o \in Orgs, cache'[o] = cache[o]
    PROVE  CacheTimely(o)'
<1>1. CASE cache[o] = NoEntry
  BY <1>1 DEF CacheTimely, NoEntry
<1>2. CASE cache[o] # NoEntry
  <2> DEFINE e == cache[o]
             l == left[o][e.data]
             n == left'[o][e.data]
  <2>1. e.until \in Nat /\ e.data \in Stages
    BY <1>2, CacheFacts
  <2>2. (n = l \/ n = now) /\ l \in Nat \cup {Null} /\ Null \notin Nat /\ now \in Nat
    BY <2>1, LeftType
  <2>3. /\ e.until <= now + CACHE_TTL_SECONDS
        /\ l = Null \/ e.until <= l + Lag + CACHE_TTL_SECONDS
    BY <1>2 DEF StaleInv, CacheTimely
  <2> HIDE DEF l, n
  <2>4. n = Null \/ e.until <= n + Lag + CACHE_TTL_SECONDS
    BY <2>1, <2>2, <2>3, TTLAssumption, BoundAssumption
  <2>5. QED BY <2>3, <2>4 DEF CacheTimely, n
<1>3. QED BY <1>1, <1>2

LEMMA StaleStep == StaleInv /\ [Next]_vars => StaleInv'
<1> SUFFICES ASSUME StaleInv, [Next]_vars PROVE StaleInv'
  OBVIOUS
<1>0. IsolationInv /\ IsolationInv' /\ TypeInv /\ TypeInv'
  BY IsolationStep DEF StaleInv, IsolationInv
<1> DEFINE Timely == /\ LeftOK'
                     /\ \A w \in Workers : WorkerTimely(w)'
                     /\ \A o \in Orgs : CacheTimely(o)'
<1> SUFFICES Timely
  BY <1>0 DEF StaleInv
(* One worker's step during which leads may move; the cache is kept.       *)
<1>1. ASSUME UNCHANGED <<now, cache>>,
             UNCHANGED <<stage, left>> \/ \E o \in Orgs : stage[o] = "new" /\ MoveTo(o, "won"),
             NEW w \in Workers, \A v \in Workers \ {w} : req'[v] = req[v], WorkerTimely(w)'
      PROVE  Timely
  BY <1>1, LeadsMove, TimelyKept, CacheKept
<1>2. ASSUME NEW w \in Workers, Plain(w) PROVE Timely
  <2>1. /\ UNCHANGED <<stage, left, now, cache>>
        /\ \A v \in Workers \ {w} : req'[v] = req[v]
        /\ \/ req'[w] = Idle
           \/ req'[w].pc \notin {"store", "answered"} /\ req'[w].arrived = now
           \/ /\ req'[w].pc \notin {"store", "answered"} /\ req[w].pc # "idle"
              /\ req'[w].arrived = req[w].arrived
    BY <1>0, <1>2, PlainStep
  <2>2. WorkerTimely(w)'
    BY <2>1, SummaryFacts, BoundAssumption DEF WorkerTimely, Idle
  <2>3. QED BY <1>1, <2>1, <2>2
<1>3. ASSUME NEW w \in Workers, Compute(w) PROVE Timely
  <2>1. /\ req[w].pc = "work" /\ req[w].org \in Orgs
        /\ \A v \in Workers \ {w} : req'[v] = req[v]
        /\ req'[w].kind = "summary" /\ req'[w].pc = "store" /\ req'[w].org = req[w].org
        /\ req'[w].data = stage[req[w].org] /\ req'[w].arrived = req[w].arrived
        /\ UNCHANGED <<stage, left, now, cache>>
    BY <1>0, <1>3, Computed
  <2>2. left[req[w].org][stage[req[w].org]] = Null
    BY <1>0, <2>1 DEF StaleInv, LeftOK, TypeInv, TypeOK
  <2>3. WorkerTimely(w)'
    BY <2>1, <2>2, SummaryFacts DEF WorkerTimely, Since
  <2>4. QED BY <1>1, <2>1, <2>3
<1>4. ASSUME NEW w \in Workers, Transition(w) PROVE Timely
  <2>1. /\ req[w].pc = "work" /\ req[w].org \in Orgs
        /\ \A v \in Workers \ {w} : req'[v] = req[v]
        /\ req'[w].kind = "won" /\ req'[w].arrived = req[w].arrived
        /\ \/ UNCHANGED <<stage, left>>
           \/ stage[req[w].org] = "new" /\ MoveTo(req[w].org, "won")
        /\ UNCHANGED <<now, cache>>
    BY <1>0, <1>4, Transitioned
  <2>2. WorkerTimely(w)'
    BY <2>1, SummaryFacts DEF WorkerTimely
  <2>3. QED BY <1>1, <2>1, <2>2
<1>5. ASSUME NEW w \in Workers, LookUp(w) PROVE Timely
  <2>1. /\ req[w].pc = "lookup" /\ req[w].org \in Orgs
        /\ \A v \in Workers \ {w} : req'[v] = req[v]
        /\ req'[w].kind = req[w].kind /\ req'[w].org = req[w].org
        /\ req'[w].arrived = req[w].arrived
        /\ UNCHANGED <<stage, left, now, cache>>
        /\ \/ Live(Found(w)) /\ req'[w].pc = "answered" /\ req'[w].data = Found(w).data
           \/ req'[w].pc = "work"
    BY <1>0, <1>5, LookedUp
  <2>2. /\ req[w].arrived \in Nat /\ now \in Nat
        /\ req[w].arrived <= now /\ now <= req[w].arrived + Lag
    BY <2>1, SummaryFacts
  <2>3. CASE req[w].kind = "summary" /\ Live(Found(w)) /\ req'[w].pc = "answered"
             /\ req'[w].data = Found(w).data
    <3> DEFINE o == req[w].org
               e == cache[o]
               l == left[o][e.data]
    <3>1. Found(w) = e /\ e # NoEntry /\ now < e.until
      BY <2>3 DEF Found, Live
    <3>2. e.until \in Nat /\ e.data \in Stages
      BY <2>1, <3>1, CacheFacts
    <3>3. l = Null \/ e.until <= l + Lag + CACHE_TTL_SECONDS
      BY <2>1, <3>1 DEF StaleInv, CacheTimely
    <3>4. l \in Nat \cup {Null}
      BY <2>1, <3>2, LeftType
    <3>5. req'[w].org = o /\ req'[w].data = e.data /\ left'[o][e.data] = l
      BY <2>1, <2>3, <3>1
    <3> HIDE DEF l, e, o
    <3>6. l = Null \/ l + CACHE_TTL_SECONDS + Lag > req[w].arrived
      BY <2>2, <3>1, <3>2, <3>3, <3>4, TTLAssumption, BoundAssumption
    <3>7. WorkerTimely(w)'
      BY <2>1, <2>2, <2>3, <3>2, <3>5, <3>6 DEF WorkerTimely
    <3>8. QED BY <1>1, <2>1, <3>7
  <2>4. CASE req[w].kind # "summary" \/ req'[w].pc = "work"
    <3>1. WorkerTimely(w)'
      BY <2>1, <2>2, <2>4 DEF WorkerTimely
    <3>2. QED BY <1>1, <2>1, <3>1
  <2>5. QED BY <2>1, <2>3, <2>4
<1>6. ASSUME NEW w \in Workers, Store(w) PROVE Timely
  <2>0. PICK o \in Orgs : o = req[w].org
    BY <1>0, <1>6, Stored
  <2> DEFINE l == left[o][req[w].data]
  <2>1. /\ req[w].pc = "store" /\ req[w].kind \in {"summary", "won"} /\ o \in Orgs
        /\ req[w].data \in IF req[w].kind = "won" THEN Results ELSE Stages
        /\ \A v \in Workers \ {w} : req'[v] = req[v]
        /\ req'[w].kind = req[w].kind /\ req'[w].org = o
        /\ req'[w].arrived = req[w].arrived /\ req'[w].data = req[w].data
        /\ req'[w].pc = "answered"
        /\ UNCHANGED <<stage, left, now>>
        /\ IF req[w].kind = "won" THEN UNCHANGED cache ELSE cache' = [cache EXCEPT ![o] = Kept(w)]
    BY <1>0, <1>6, <2>0, Stored
  <2>2. /\ req[w].arrived \in Nat /\ now \in Nat
        /\ req[w].arrived <= now /\ now <= req[w].arrived + Lag
    BY <2>1, SummaryFacts
  <2>3. CASE req[w].kind = "won"
    <3>1. WorkerTimely(w)'
      BY <2>1, <2>2, <2>3 DEF WorkerTimely
    <3>2. QED BY <1>1, <2>1, <2>3, <3>1
  <2>4. CASE req[w].kind = "summary"
    <3>1. req[w].data \in Stages /\ (l = Null \/ req[w].arrived <= l)
      BY <2>0, <2>1, <2>4 DEF StaleInv, WorkerTimely, Since
    <3>2. l \in Nat \cup {Null} /\ Null \notin Nat
      BY <2>1, <3>1, LeftType
    <3>3. l = Null \/ l + CACHE_TTL_SECONDS + Lag > req[w].arrived
      <4> HIDE DEF l
      <4> QED BY <2>2, <3>1, <3>2, TTLAssumption, BoundAssumption
    <3>4. WorkerTimely(w)'
      <4>1. left'[req'[w].org][req'[w].data] = l
        BY <2>1
      <4> HIDE DEF l
      <4>2. QED BY <2>1, <2>2, <3>1, <3>3, <4>1 DEF WorkerTimely
    <3>5. LeftOK' /\ \A v \in Workers : WorkerTimely(v)'
      BY <2>1, <3>4, LeadsMove, TimelyKept
    <3>6. CacheTimely(o)'
      <4>1. cache'[o] = Kept(w)
        BY <1>0, <2>1, <2>4 DEF TypeInv, TypeOK
      <4>2. Kept(w).data = req[w].data /\ Kept(w).until = now + CACHE_TTL_SECONDS
        BY <1>0, <2>1, <2>4, KeptType DEF TimeToLive
      <4>3. l = Null \/ now + CACHE_TTL_SECONDS <= l + Lag + CACHE_TTL_SECONDS
        <5> HIDE DEF l
        <5> QED BY <2>2, <3>1, <3>2, TTLAssumption, BoundAssumption
      <4>4. left'[o][cache'[o].data] = l /\ now' = now
        BY <2>1, <4>1, <4>2
      <4> HIDE DEF l
      <4>5. QED BY <2>2, <4>1, <4>2, <4>3, <4>4, TTLAssumption DEF CacheTimely
    <3>7. ASSUME NEW p \in Orgs, p # o PROVE CacheTimely(p)'
      <4>1. cache'[p] = cache[p]
        BY <1>0, <2>1, <2>4, <3>7 DEF TypeInv, TypeOK
      <4>2. QED BY <2>1, <4>1, CacheKept
    <3>8. QED BY <3>5, <3>6, <3>7
  <2>5. QED BY <2>1, <2>3, <2>4
<1>7. CASE Others
  <2>1. /\ UNCHANGED <<now, cache, req>>
        /\ UNCHANGED <<stage, left>> \/ \E o \in Orgs : stage[o] = "new" /\ MoveTo(o, "won")
    BY <1>7 DEF Others, redis
  <2>2. QED BY <2>1, LeadsMove, TimelyKept, CacheKept
<1>8. CASE Tick
  <2>1. /\ now' = now + 1 /\ UNCHANGED <<req, stage, left, cache>>
        /\ \A w \in Workers : req[w].pc # "idle" => now < req[w].arrived + Lag
    BY <1>8 DEF Tick, Busy, redis, history
  <2>2. LeftOK'
    BY <1>0, <2>1, LeftType DEF LeftOK, StaleInv
  <2>3. ASSUME NEW w \in Workers PROVE WorkerTimely(w)'
    <3>1. req[w].pc # "idle" => req[w].arrived <= now + 1 /\ now + 1 <= req[w].arrived + Lag
      BY <2>1, SummaryFacts, BoundAssumption
    <3>2. WorkerTimely(w)
      BY DEF StaleInv
    <3>3. QED BY <2>1, <3>1, <3>2 DEF WorkerTimely, Since
  <2>4. ASSUME NEW o \in Orgs PROVE CacheTimely(o)'
    <3>1. CacheTimely(o) /\ now \in Nat /\ (cache[o] # NoEntry => cache[o].until \in Nat)
      BY <1>0, CacheFacts DEF StaleInv, TypeInv, TypeOK
    <3>2. QED BY <2>1, <3>1, TTLAssumption DEF CacheTimely, NoEntry
  <2>5. QED BY <2>2, <2>3, <2>4
<1>9. CASE UNCHANGED vars
  BY <1>9 DEF vars, StaleInv, LeftOK, WorkerTimely, Since, CacheTimely
<1>10. QED
  BY <1>2, <1>3, <1>4, <1>5, <1>6, <1>7, <1>8, <1>9 DEF Next, Plain

(* A dashboard shows what was true no longer ago than its time to live and *)
(* the time of a worker: dashboard/services.py:9-27.                       *)
THEOREM Staleness == Spec => []StaleAtMost
<1>1. StaleInv => StaleAtMost
  BY DEF StaleInv, WorkerTimely, StaleAtMost
<1>2. QED BY InitStale, StaleStep, <1>1, PTL DEF Spec

-------------------------------------------------------------------------------
(* Worker w is making an attempt in o that has stored nothing yet.         *)
Attempt(w, o) == req[w].kind = "won" /\ req[w].org = o /\ req[w].pc \in {"work", "store"}

(* The attempts in o were told at most one answer, the one in Redis; while *)
(* there is none, at most one attempt is being made.                       *)
SameIn(o) ==
    /\ \A v, w \in Workers : Attempt(v, o) /\ Attempt(w, o) => v = w
    /\ \A w \in Workers : Attempt(w, o) => reply[o] = NoEntry
    /\ reply[o] = NoEntry => answers[o] = {}
    /\ reply[o] # NoEntry => answers[o] \subseteq {reply[o].data}

SameInv == IsolationInv /\ \A o \in Orgs \ excused : SameIn(o)

LEMMA InitSame == Init => SameInv
<1> SUFFICES ASSUME Init PROVE SameInv
  OBVIOUS
<1>1. ASSUME NEW o \in Orgs PROVE SameIn(o)
  <2>1. reply[o] = NoEntry /\ answers[o] = {}
    BY DEF Init
  <2>2. \A w \in Workers : ~Attempt(w, o)
    BY DEF Init, Attempt, Idle
  <2>3. QED BY <2>1, <2>2 DEF SameIn
<1>2. QED BY InitIsolation, <1>1 DEF SameInv

(* No step of worker w makes an attempt of a request that was none.        *)
LEMMA NoNewAttempt ==
    ASSUME SameInv, NEW w \in Workers, NEW o \in Orgs, o \notin excused,
           reply'[o] = reply[o], answers'[o] = answers[o],
           \A v \in Workers \ {w} : req'[v] = req[v],
           Attempt(w, o)' => Attempt(w, o)
    PROVE  SameIn(o)'
<1>1. \A v \in Workers : Attempt(v, o)' => Attempt(v, o)
  BY DEF Attempt
<1>2. SameIn(o)
  BY DEF SameInv
<1> HIDE DEF Attempt
<1>3. QED BY <1>1, <1>2 DEF SameIn, NoEntry

LEMMA SameStep == SameInv /\ [Next]_vars => SameInv'
<1> SUFFICES ASSUME SameInv, [Next]_vars PROVE SameInv'
  OBVIOUS
<1>0. IsolationInv /\ IsolationInv' /\ TypeInv
  BY IsolationStep DEF SameInv, IsolationInv
<1> SUFFICES \A o \in Orgs \ excused' : SameIn(o)'
  BY <1>0 DEF SameInv
<1>1. ASSUME NEW w \in Workers, Plain(w), NEW o \in Orgs, o \notin excused' PROVE SameIn(o)'
  <2>1. /\ UNCHANGED <<reply, answers>> /\ excused \subseteq excused'
        /\ \A v \in Workers \ {w} : req'[v] = req[v]
        /\ ~(req'[w].kind = "won" /\ req'[w].pc \in {"work", "store"})
    BY <1>0, <1>1, PlainStep
  <2>2. QED BY <1>1, <2>1, NoNewAttempt DEF Attempt
<1>2. ASSUME NEW w \in Workers, Compute(w), NEW o \in Orgs, o \notin excused' PROVE SameIn(o)'
  <2>1. /\ UNCHANGED <<reply, answers, excused>> /\ req'[w].kind = "summary"
        /\ \A v \in Workers \ {w} : req'[v] = req[v]
    BY <1>0, <1>2, Computed
  <2>2. QED BY <1>2, <2>1, NoNewAttempt DEF Attempt
<1>3. ASSUME NEW w \in Workers, Transition(w), NEW o \in Orgs, o \notin excused'
      PROVE  SameIn(o)'
  <2>1. /\ UNCHANGED <<reply, answers, excused>>
        /\ req[w].kind = "won" /\ req[w].pc = "work" /\ req'[w].org = req[w].org
        /\ \A v \in Workers \ {w} : req'[v] = req[v]
    BY <1>0, <1>3, Transitioned
  <2>2. QED BY <1>3, <2>1, NoNewAttempt DEF Attempt
<1>4. ASSUME NEW w \in Workers, LookUp(w), NEW o \in Orgs, o \notin excused' PROVE SameIn(o)'
  <2>1. /\ req[w].pc = "lookup" /\ req[w].org \in Orgs
        /\ \A v \in Workers \ {w} : req'[v] = req[v]
        /\ req'[w].kind = req[w].kind /\ req'[w].org = req[w].org
        /\ UNCHANGED reply
        /\ \/ /\ Live(Found(w)) /\ req'[w].pc = "answered"
              /\ UNCHANGED excused
              /\ answers' = IF req[w].kind = "won"
                            THEN [answers EXCEPT ![req[w].org] = @ \cup {Found(w).data}]
                            ELSE answers
           \/ /\ req'[w].pc = "work" /\ UNCHANGED answers
              /\ excused' = IF req[w].kind = "won" /\ (Overlaps(w) \/ Found(w) # NoEntry)
                            THEN excused \cup {req[w].org} ELSE excused
    BY <1>0, <1>4, LookedUp
  <2>2. o \notin excused /\ SameIn(o)
    BY <1>4, <2>1 DEF SameInv
  <2>3. CASE ~(req[w].kind = "won" /\ req[w].org = o)
    <3>1. answers'[o] = answers[o]
      BY <1>0, <2>1, <2>3 DEF TypeInv, TypeOK
    <3>2. QED BY <2>1, <2>2, <2>3, <3>1, NoNewAttempt DEF Attempt
  <2>4. CASE req[w].kind = "won" /\ req[w].org = o /\ req'[w].pc = "answered"
    <3>1. Found(w) = reply[o] /\ reply[o] # NoEntry
      BY <2>1, <2>4 DEF Found, Live
    <3>2. answers'[o] = answers[o] \cup {reply[o].data}
      BY <1>0, <2>1, <2>4, <3>1 DEF TypeInv, TypeOK
    <3>3. \A v \in Workers : ~Attempt(v, o)'
      BY <2>1, <2>2, <2>4, <3>1 DEF Attempt, SameIn
    <3>4. QED BY <2>1, <2>2, <3>1, <3>2, <3>3 DEF SameIn, NoEntry
  <2>5. CASE req[w].kind = "won" /\ req[w].org = o /\ req'[w].pc = "work"
    <3>1. ~Overlaps(w) /\ reply[o] = NoEntry /\ UNCHANGED answers
      BY <1>4, <2>1, <2>5 DEF Found
    <3>2. \A v \in Workers \ {w} : ~Attempt(v, o)'
      BY <2>1, <2>5, <3>1 DEF Overlaps, Attempt
    <3>3. QED BY <2>1, <2>2, <3>1, <3>2 DEF SameIn, NoEntry
  <2>6. QED BY <2>1, <2>3, <2>4, <2>5
<1>5. ASSUME NEW w \in Workers, Store(w), NEW o \in Orgs, o \notin excused' PROVE SameIn(o)'
  <2>1. /\ req[w].pc = "store" /\ req[w].org \in Orgs
        /\ req[w].data \in IF req[w].kind = "won" THEN Results ELSE Stages
        /\ \A v \in Workers \ {w} : req'[v] = req[v]
        /\ req'[w].pc = "answered" /\ UNCHANGED excused
        /\ IF req[w].kind = "won"
           THEN /\ reply' = [reply EXCEPT ![req[w].org] = Kept(w)]
                /\ answers' = [answers EXCEPT ![req[w].org] = @ \cup {req[w].data}]
           ELSE UNCHANGED <<reply, answers>>
    BY <1>0, <1>5, Stored
  <2>2. o \notin excused /\ SameIn(o)
    BY <1>5, <2>1 DEF SameInv
  <2>3. CASE ~(req[w].kind = "won" /\ req[w].org = o)
    <3>1. answers'[o] = answers[o] /\ reply'[o] = reply[o]
      BY <1>0, <2>1, <2>3 DEF TypeInv, TypeOK
    <3>2. QED BY <2>1, <2>2, <3>1, NoNewAttempt DEF Attempt
  <2>4. CASE req[w].kind = "won" /\ req[w].org = o
    <3>1. Attempt(w, o)
      BY <2>1, <2>4 DEF Attempt
    <3>2. answers[o] = {} /\ \A v \in Workers \ {w} : ~Attempt(v, o)
      BY <2>2, <3>1 DEF SameIn
    <3>3. reply'[o] = Kept(w) /\ answers'[o] = {req[w].data}
      BY <1>0, <2>1, <2>4, <3>2 DEF TypeInv, TypeOK
    <3>4. Kept(w).data = req[w].data /\ Kept(w) # NoEntry
      BY <1>0, <2>1, <2>4, KeptType, NullAssumption DEF NoEntry
    <3>5. \A v \in Workers : ~Attempt(v, o)'
      BY <2>1, <3>2 DEF Attempt
    <3>6. QED BY <3>3, <3>4, <3>5 DEF SameIn, NoEntry
  <2>5. QED BY <2>3, <2>4
<1>6. CASE Others \/ Tick \/ UNCHANGED vars
  <2>1. UNCHANGED <<req, reply, answers, excused>>
    BY <1>6 DEF Others, Tick, vars, redis, history
  <2>2. QED BY <2>1 DEF SameInv, SameIn, Attempt, NoEntry
<1>7. QED BY <1>1, <1>2, <1>3, <1>4, <1>5, <1>6 DEF Next, Plain

(* The attempts of one operation are all told the same, unless two overlap *)
(* or the answer of one was lost: core/views.py:54-70, core/idempotency.py.*)
THEOREM Idempotency == Spec => []AnsweredTheSame
<1>1. SameInv => AnsweredTheSame
  <2> SUFFICES ASSUME SameInv, NEW o \in Orgs \ excused PROVE Cardinality(answers[o]) <= 1
    BY DEF AnsweredTheSame
  <2>1. SameIn(o)
    BY DEF SameInv
  <2>2. answers[o] = {} \/ answers[o] = {reply[o].data}
    BY <2>1 DEF SameIn
  <2>3. Cardinality({}) = 0 /\ Cardinality({reply[o].data}) = 1
    BY FS_EmptySet, FS_Singleton
  <2>4. CASE answers[o] = {}
    BY <2>3, <2>4
  <2>5. CASE answers[o] = {reply[o].data}
    <3>1. Cardinality(answers[o]) = 1
      BY <2>3, <2>5, Zenon
    <3>2. QED BY <3>1
  <2>6. QED BY <2>2, <2>4, <2>5
<1>2. QED BY InitSame, SameStep, <1>1, PTL DEF Spec
===============================================================================
