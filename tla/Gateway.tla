------------------------------- MODULE Gateway --------------------------------
(***************************************************************************)
(* What every request to an organisation passes through: the context of    *)
(* the organisation, the cached dashboard and the idempotent POST.         *)
(*                                                                         *)
(* Source: apps/core (context.py, middleware.py, views.py, managers.py,    *)
(* permissions.py, idempotency.py), apps/dashboard, the stage view of      *)
(* apps/leads and InvitationService.accept.                                *)
(*                                                                         *)
(* A gunicorn worker serves one request after another in one process, so   *)
(* its context variables survive from a request to the next.  One user     *)
(* asks: his memberships come and go.  The lead of an organisation is moved*)
(* from New to Won, by him or by others; each of his POSTs is an attempt   *)
(* of one operation and carries the same Idempotency-Key, in every         *)
(* organisation.                                                           *)
(***************************************************************************)
EXTENDS Naturals, FiniteSets

CONSTANTS
    Orgs, Workers, Null,
    CACHE_TTL_SECONDS, IDEMPOTENCY_TTL_SECONDS,
    Lag,            \* gunicorn kills a worker that needs longer for a request
    MaxRequests,    \* bound: requests begun
    MaxTime         \* bound: the clock

ASSUME TTLAssumption == CACHE_TTL_SECONDS \in Nat \ {0} /\ IDEMPOTENCY_TTL_SECONDS \in Nat \ {0}
ASSUME BoundAssumption == Lag \in Nat /\ MaxRequests \in Nat /\ MaxTime \in Nat
ASSUME NullAssumption == Null \notin Orgs \cup Nat \cup {"new", "won", "ok", "refused"}

VARIABLES
    context,    \* _current_organization_id of each worker's process
    unscoped,   \* _unscoped_mode of each worker's process
    req,        \* the request each worker is serving
    seat,       \* organisations in which the user has an active membership
    stage,      \* the lead of each organisation
    cache,      \* Redis: dashboard_summary:<organisation>
    reply,      \* Redis: idempotency:<organisation>:<path>:<key>
    now, begun,
    left,       \* history: when each lead left each stage
    answers,    \* history: what the attempts in each organisation were told
    excused     \* history: organisations where an attempt may be repeated

process == <<context, unscoped>>
redis   == <<cache, reply>>
history == <<left, answers, excused>>
vars == <<context, unscoped, req, seat, stage, cache, reply, now, begun, left,
          answers, excused>>

-------------------------------------------------------------------------------
Stages  == {"new", "won"}
Results == {"ok", "refused"}
Kinds   == {"summary", "won", "accept", "admin"}
Steps   == {"idle", "membership", "permission", "lookup", "work", "store", "answered"}

(* used: the organisations whose rows the request has used so far.         *)
Request == [pc : Steps, kind : Kinds, org : Orgs \cup {Null}, arrived : Nat,
            used : SUBSET (Orgs \cup {Null}), data : Stages \cup Results \cup {Null}]
Entry   == [data : Stages \cup Results, of : SUBSET (Orgs \cup {Null}), until : Nat]
NoEntry == [data |-> Null, of |-> {}, until |-> 0]
Idle    == [pc |-> "idle", kind |-> "admin", org |-> Null, arrived |-> 0,
            used |-> {}, data |-> Null]

Busy(w) == req[w].pc # "idle"
At(w, step) == req[w].pc = step
Becomes(w, q) == req' = [req EXCEPT ![w] = q]
Advance(w, step, rows, data) ==
    Becomes(w, [req[w] EXCEPT !.pc = step, !.used = @ \cup rows, !.data = data])
Goto(w, step) == Advance(w, step, {}, req[w].data)

(* organization_scope_filter: whose rows a scoped manager returns.         *)
Rows(w) == IF unscoped[w] THEN Orgs ELSE {context[w]}

(* set_current_organization.                                               *)
SetContext_IfUnset(w, o) == \* mutant: a context found set is kept
    context' = [context EXCEPT ![w] = IF @ = Null THEN o ELSE @]
SetContext(w, o) == context' = [context EXCEPT ![w] = o]

(* clear_current_organization, and the end of the request.                 *)
Finish(w) == /\ Becomes(w, Idle)
             /\ context' = [context EXCEPT ![w] = Null]

Live_Absent(entry) == \* mutant: no entry is taken for an answer
    now < entry.until \/ entry = NoEntry
Live(entry) == entry # NoEntry /\ now < entry.until

(* setex.                                                                  *)
TimeToLive_Same(w) == \* mutant: a dashboard is kept as long as an answer
    IDEMPOTENCY_TTL_SECONDS
TimeToLive(w) == IF req[w].kind = "won" THEN IDEMPOTENCY_TTL_SECONDS ELSE CACHE_TTL_SECONDS

Kept_Refusal(w) == \* mutant: only a refusal is remembered
    IF req[w].data = "ok" THEN NoEntry
    ELSE [data |-> req[w].data, of |-> req[w].used, until |-> now + TimeToLive(w)]
Kept(w) == [data |-> req[w].data, of |-> req[w].used, until |-> now + TimeToLive(w)]

-------------------------------------------------------------------------------
Arrive(w, kind, o) ==
    /\ ~Busy(w) /\ begun < MaxRequests
    /\ begun' = begun + 1
    /\ kind = "accept" => o \notin seat
    /\ Becomes(w, [Idle EXCEPT !.pc = IF kind \in {"summary", "won"} THEN "membership" ELSE "work",
                                !.kind = kind, !.arrived = now,
                                !.org = IF kind = "admin" THEN Null ELSE o])
    (* AdminOrgBypassMiddleware, or accept up to get_or_create.            *)
    /\ unscoped' = IF kind = "admin" THEN [unscoped EXCEPT ![w] = TRUE] ELSE unscoped
    /\ IF kind = "accept" THEN SetContext(w, o) ELSE UNCHANGED context
    /\ UNCHANGED <<seat, stage, redis, now, history>>

(* OrgScopedViewSetMixin.initial: the membership, whatever the context is; *)
(* without one 404, and the context is cleared.                            *)
CheckMembership(w) ==
    /\ At(w, "membership")
    /\ IF req[w].org \in seat
       THEN /\ SetContext(w, req[w].org)
            /\ Goto(w, IF req[w].kind = "won" THEN "permission" ELSE "lookup")
       ELSE Finish(w)
    /\ UNCHANGED <<unscoped, seat, stage, redis, now, begun, history>>

(* RoleMatrixPermission: the membership again, through a scoped manager;   *)
(* if it is gone by now 403.  A cached answer is looked up before the work.*)
CheckPermission(w) ==
    /\ At(w, "permission")
    /\ IF Rows(w) \cap seat # {}
       THEN /\ Advance(w, "lookup", Rows(w), req[w].data)
            /\ UNCHANGED context
       ELSE Finish(w)
    /\ UNCHANGED <<unscoped, seat, stage, redis, now, begun, history>>

(* An answer from Redis is given as it is.                                 *)
Found(w) == IF req[w].kind = "won" THEN reply[req[w].org] ELSE cache[req[w].org]

(* Another attempt is being made, and has stored nothing yet.              *)
Overlaps(w) == \E v \in Workers \ {w} :
    /\ req[v].kind = "won" /\ req[v].org = req[w].org
    /\ req[v].pc \in {"work", "store"}

LookUp(w) ==
    LET found == Found(w) IN
    /\ At(w, "lookup")
    /\ IF Live(found)
       THEN /\ Advance(w, "answered", found.of, found.data)
            /\ answers' = IF req[w].kind = "won"
                          THEN [answers EXCEPT ![req[w].org] = @ \cup {found.data}]
                          ELSE answers
            /\ UNCHANGED excused
       ELSE /\ Goto(w, "work")
            /\ excused' = IF req[w].kind = "won" /\ (Overlaps(w) \/ found # NoEntry)
                          THEN excused \cup {req[w].org} ELSE excused
            /\ UNCHANGED answers
    /\ UNCHANGED <<process, seat, stage, redis, now, begun, left>>

(* _compute_summary: through scoped managers.                              *)
Compute(w) ==
    /\ At(w, "work") /\ req[w].kind = "summary"
    /\ \E o \in Rows(w) \cap Orgs :
         Advance(w, "store", Rows(w), stage[o])
    /\ UNCHANGED <<process, seat, stage, redis, now, begun, history>>

MoveTo(o, new) ==
    /\ stage' = [stage EXCEPT ![o] = new]
    /\ left' = [left EXCEPT ![o][stage[o]] = now]

(* LeadStageTransitionService: Won is terminal.  A lead the user may not   *)
(* see, and an invalid body, are refused without being stored.             *)
Transition(w) ==
    /\ At(w, "work") /\ req[w].kind = "won"
    /\ \E o \in Rows(w) \cap Orgs :
         LET result == IF stage[o] = "won" THEN "refused" ELSE "ok" IN
         /\ IF result = "ok" THEN MoveTo(o, "won") ELSE UNCHANGED <<stage, left>>
         /\ Advance(w, "store", Rows(w), result)
    /\ UNCHANGED <<process, seat, redis, now, begun, answers, excused>>

(* The answer is written to Redis, whatever its status, and given.         *)
Store(w) ==
    /\ At(w, "store")
    /\ IF req[w].kind = "won"
       THEN /\ reply' = [reply EXCEPT ![req[w].org] = Kept(w)]
            /\ answers' = [answers EXCEPT ![req[w].org] = @ \cup {req[w].data}]
            /\ UNCHANGED cache
       ELSE /\ cache' = [cache EXCEPT ![req[w].org] = Kept(w)]
            /\ UNCHANGED <<reply, answers>>
    /\ Goto(w, "answered")
    /\ UNCHANGED <<process, seat, stage, now, begun, left, excused>>

(* finalize_response.                                                      *)
Finalize(w) ==
    /\ At(w, "answered")
    /\ Finish(w)
    /\ UNCHANGED <<unscoped, seat, stage, redis, now, begun, history>>

(* accept: the membership is created in the context; finally, clear.       *)
Join(w) ==
    /\ At(w, "work") /\ req[w].kind = "accept"
    /\ seat' = seat \cup (Rows(w) \cap Orgs)
    /\ Finish(w)
    /\ UNCHANGED <<unscoped, stage, redis, now, begun, history>>

(* A page of /admin/ reads every organisation; finally, the mode is left.  *)
LeaveAdmin(w) ==
    /\ At(w, "work") /\ req[w].kind = "admin"
    /\ Becomes(w, Idle)
    /\ unscoped' = [unscoped EXCEPT ![w] = FALSE]
    /\ UNCHANGED <<context, seat, stage, redis, now, begun, history>>

(* The work of an attempt is done and its answer not stored.               *)
Unstored(w) == IF req[w].kind = "won" /\ req[w].pc = "store" THEN {req[w].org} ELSE {}

(* An error no handler expects ends a request with 500: finalize_response  *)
(* is not reached, and the context stays as it is.                         *)
Fail(w) ==
    /\ req[w].kind \in {"summary", "won"}
    /\ req[w].pc \in {"membership", "permission", "lookup", "work", "store"}
    /\ Becomes(w, Idle)
    /\ excused' = excused \cup Unstored(w)
    /\ UNCHANGED <<process, seat, stage, redis, now, begun, left, answers>>

(* An error in accept: its finally clears the context.                     *)
FailAccept(w) ==
    /\ At(w, "work") /\ req[w].kind = "accept"
    /\ Finish(w)
    /\ UNCHANGED <<unscoped, seat, stage, redis, now, begun, history>>

(* The worker dies, by a timeout or a restart; a new process takes over.   *)
Kill(w) ==
    /\ Busy(w)
    /\ Finish(w)
    /\ unscoped' = [unscoped EXCEPT ![w] = FALSE]
    /\ excused' = excused \cup Unstored(w)
    /\ UNCHANGED <<seat, stage, redis, now, begun, left, answers>>

-------------------------------------------------------------------------------
(* Other users, on other workers: the member is removed, or the lead moved *)
(* under another key.                                                      *)
Others ==
    /\ \E o \in Orgs :
         \/ o \in seat /\ seat' = seat \ {o} /\ UNCHANGED <<stage, left>>
         \/ stage[o] = "new" /\ MoveTo(o, "won") /\ UNCHANGED seat
    /\ UNCHANGED <<process, req, redis, now, begun, answers, excused>>

Tick ==
    /\ now < MaxTime
    /\ \A w \in Workers : Busy(w) => now < req[w].arrived + Lag
    /\ now' = now + 1
    /\ UNCHANGED <<process, req, seat, stage, redis, begun, history>>

Init ==
    /\ context = [w \in Workers |-> Null]
    /\ unscoped = [w \in Workers |-> FALSE]
    /\ req = [w \in Workers |-> Idle]
    /\ seat = Orgs
    /\ stage = [o \in Orgs |-> "new"]
    /\ cache = [o \in Orgs |-> NoEntry]
    /\ reply = [o \in Orgs |-> NoEntry]
    /\ now = 0 /\ begun = 0
    /\ left = [o \in Orgs |-> [s \in Stages |-> Null]]
    /\ answers = [o \in Orgs |-> {}]
    /\ excused = {}

Next ==
    \/ \E w \in Workers :
         \/ \E kind \in Kinds, o \in Orgs : Arrive(w, kind, o)
         \/ CheckMembership(w) \/ CheckPermission(w) \/ LookUp(w)
         \/ Compute(w) \/ Transition(w) \/ Store(w) \/ Finalize(w)
         \/ Join(w) \/ LeaveAdmin(w) \/ Fail(w) \/ FailAccept(w) \/ Kill(w)
    \/ Others \/ Tick

Spec == Init /\ [][Next]_vars

-------------------------------------------------------------------------------
(* Properties                                                              *)

(* Context, requests, rows, Redis and the histories stay within their      *)
(* types.                                                                  *)
TypeOK ==
    /\ context \in [Workers -> Orgs \cup {Null}]
    /\ unscoped \in [Workers -> BOOLEAN]
    /\ req \in [Workers -> Request]
    /\ seat \subseteq Orgs
    /\ stage \in [Orgs -> Stages]
    /\ cache \in [Orgs -> Entry \cup {NoEntry}]
    /\ reply \in [Orgs -> Entry \cup {NoEntry}]
    /\ now \in Nat /\ begun \in Nat
    /\ left \in [Orgs -> [Stages -> Nat \cup {Null}]]
    /\ answers \in [Orgs -> SUBSET Results]
    /\ excused \subseteq Orgs

(* Architecture 2: whatever an earlier request has left in the context of  *)
(* its worker, a request judges the membership, reads and writes the rows  *)
(* of the organisation in its URL and of no other, and an answer out of    *)
(* Redis comes from there too.                                             *)
TenantIsolation ==
    \A w \in Workers : req[w].kind # "admin" => req[w].used \subseteq {req[w].org}

(* API 1.6: the attempts of an operation are all told the same, whoever    *)
(* moves the lead meanwhile, unless two of them overlapped, a worker ended *)
(* between the work of one and its storing, or the answer had expired.     *)
AnsweredTheSame ==
    \A o \in Orgs \ excused : Cardinality(answers[o]) <= 1

(* Architecture 4: a dashboard is never older than its time to live and    *)
(* the time a worker may take: what it shows was still true that long      *)
(* before the request arrived, or later.                                   *)
StaleAtMost ==
    \A w \in Workers :
        req[w].kind = "summary" /\ req[w].pc = "answered" =>
            \/ left[req[w].org][req[w].data] = Null
            \/ left[req[w].org][req[w].data] + CACHE_TTL_SECONDS + Lag > req[w].arrived
===============================================================================
