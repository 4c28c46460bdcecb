---------------------------- MODULE ActivitySweep -----------------------------
(***************************************************************************)
(* Activities, and the sweep that tells their assignees what is due soon   *)
(* or overdue.                                                             *)
(*                                                                         *)
(* Source: apps/activities/tasks.py, views.py, services.py, models.py and  *)
(* the beat schedule of config/celery.py.                                  *)
(*                                                                         *)
(* A sweep reads the clock once and goes through the organisations; in     *)
(* each it reads the activities due soon, then those overdue, and for each *)
(* of them looks for an earlier notice before it writes one.  None of this *)
(* is a transaction: sweeps that are late overlap the next ones, requests  *)
(* change the activities meanwhile, and an error ends the whole sweep.     *)
(* One instant is the 15 minutes between two sweeps.                       *)
(***************************************************************************)
EXTENDS Naturals, FiniteSets, Access

CONSTANTS
    Orgs, Activities, Members, Null,
    OrgOf,          \* the organisation of each activity and of each member
    Role,           \* the role of each member
    ReportsTo,      \* the manager of each member, or Null
    Sweepers,       \* Celery workers that run the sweep
    Requests,       \* web workers serving a PATCH at a time
    Soon,           \* 24 hours, in instants
    Dates,          \* bound: the due dates there are
    MaxTime,        \* bound: the last instant
    MaxEdits,       \* bound: requests that create or change an activity
    MaxFaults       \* bound: sweeps that fail

ASSUME OrgAssumption ==
    /\ OrgOf \in [Activities \cup Members -> Orgs]
    /\ Role \in [Members -> MatrixRoles]
    /\ ReportsTo \in [Members -> Members \cup {Null}]
ASSUME SweeperAssumption == IsFiniteSet(Sweepers)
ASSUME NullAssumption ==
    Null \notin Activities \cup Members \cup Orgs \cup Nat \cup {"pending", "done"}
ASSUME BoundAssumption == {Soon, MaxTime, MaxEdits, MaxFaults} \cup Dates \subseteq Nat

VARIABLES
    now,            \* timezone.now()
    activityRows,   \* table activities: the ids in use
    activity,       \* and its columns
    told,           \* table notifications: how many per activity, kind, member
    sweep,          \* the sweep each worker is running
    req,            \* the PATCH each web worker is serving
    edits, faults,  \* edits begun and sweeps failed so far
    wasDue,         \* history: the notices there has been reason for
    overlapped      \* history: have two sweeps overlapped?

table == <<activityRows, activity>>
vars  == <<now, activityRows, activity, told, sweep, req, edits, faults, wasDue, overlapped>>

-------------------------------------------------------------------------------
Kinds    == {"soon", "overdue"}
Statuses == {"pending", "done"}     \* done: completed or cancelled, both final

Row == [assignee : Members \cup {Null}, due : Nat, status : Statuses, deleted : BOOLEAN]

NoActivity == [assignee |-> Null, due |-> 0, status |-> "pending", deleted |-> FALSE]

(* What a sweep remembers of an activity it has read.                      *)
Copy  == [id : Activities, assignee : Members \cup {Null}]
Sweep == [pc : {"idle", "orgs", "tell", "insert"}, at : Nat,
          orgs : SUBSET Orgs, org : Orgs \cup {Null}, kind : Kinds,
          todo : SUBSET Copy, next : SUBSET Copy]

NoSweep == [pc |-> "idle", at |-> 0, orgs |-> {}, org |-> Null, kind |-> "soon",
            todo |-> {}, next |-> {}]

Request == [pc : {"idle", "fields", "status"}, id : Activities \cup {Null},
            was : Statuses,
            assignee : Members \cup {Null}, due : Nat \cup {Null},
            to : {"done", Null}]            \* Null: not in the body

Idle == [pc |-> "idle", id |-> Null, was |-> "pending", assignee |-> Null,
         due |-> Null, to |-> Null]

Team(m)  == {n \in Members : ReportsTo[n] = m}
Scope(m) == ActivityScope[Role[m]]
Mates(a) == {m \in Members : OrgOf[m] = OrgOf[a]}

Active  == {a \in activityRows : ~activity[a].deleted}
Pending == {a \in Active : activity[a].status = "pending"}

Sees(m, a) == /\ a \in Active /\ m \in Mates(a)
              /\ InScope(Scope(m), m, Team(m), activity[a].assignee)

(* A role that sees only its own activities gives them to nobody else.     *)
MayGive(m, n) == Scope(m) = "own" => n = m

-------------------------------------------------------------------------------
(* POST.                                                                   *)
Create(a, m, n, due) ==
    /\ edits < MaxEdits
    /\ MayWrite(Scope(m)) /\ {m, n} \subseteq Mates(a) /\ MayGive(m, n)
    /\ a \notin activityRows
    /\ activityRows' = activityRows \cup {a}
    /\ activity' = [activity EXCEPT ![a] =
                      [assignee |-> n, due |-> due, status |-> "pending", deleted |-> FALSE]]
    /\ edits' = edits + 1
    /\ UNCHANGED <<now, told, sweep, req, faults>>

(* PATCH: the activity is read, then the fields and the status are saved,  *)
(* by two statements; the status is checked on what was read.              *)
BeginPatch(r, a, m, n, due, to) ==
    /\ req[r].pc = "idle" /\ edits < MaxEdits
    /\ MayWrite(Scope(m)) /\ Sees(m, a)
    /\ n # Null => n \in Mates(a) /\ MayGive(m, n)
    /\ <<n, due, to>> # <<Null, Null, Null>>
    /\ edits' = edits + 1
    /\ req' = [req EXCEPT ![r] =
                 [pc |-> IF n = Null /\ due = Null THEN "status" ELSE "fields",
                  id |-> a, was |-> activity[a].status,
                  assignee |-> n, due |-> due, to |-> to]]
    /\ UNCHANGED <<now, table, told, sweep, faults>>

SaveFields(r) ==
    LET q == req[r] IN
    /\ q.pc = "fields"
    /\ activity' = [activity EXCEPT ![q.id].assignee = IF q.assignee = Null THEN @ ELSE q.assignee,
                                    ![q.id].due = IF q.due = Null THEN @ ELSE q.due]
    /\ req' = [req EXCEPT ![r] =
                 IF q.to = Null THEN Idle
                 ELSE [q EXCEPT !.pc = "status", !.assignee = Null, !.due = Null]]
    /\ UNCHANGED <<now, activityRows, told, sweep, edits, faults>>

(* update_status: 400 unless the copy is pending.                          *)
SaveStatus(r) ==
    LET q == req[r] IN
    /\ q.pc = "status"
    /\ activity' = IF q.was = "pending" THEN [activity EXCEPT ![q.id].status = q.to]
                   ELSE activity
    /\ req' = [req EXCEPT ![r] = Idle]
    /\ UNCHANGED <<now, activityRows, told, sweep, edits, faults>>

(* DELETE and POST restore.                                                *)
Delete(a, m) ==
    /\ edits < MaxEdits
    /\ MayWrite(Scope(m)) /\ Sees(m, a)
    /\ activity' = [activity EXCEPT ![a].deleted = TRUE]
    /\ edits' = edits + 1
    /\ UNCHANGED <<now, activityRows, told, sweep, req, faults>>

Restore(a, m) ==
    /\ edits < MaxEdits
    /\ Role[m] \in {"owner", "admin"} /\ m \in Mates(a)
    /\ a \in activityRows /\ activity[a].deleted
    /\ activity' = [activity EXCEPT ![a].deleted = FALSE]
    /\ edits' = edits + 1
    /\ UNCHANGED <<now, activityRows, told, sweep, req, faults>>

-------------------------------------------------------------------------------
Goes(w, s) == sweep' = [sweep EXCEPT ![w] = s]

(* The beat starts a sweep, or one that was waiting in the queue starts.   *)
StartSweep(w) ==
    /\ sweep[w].pc = "idle"
    /\ Goes(w, [NoSweep EXCEPT !.pc = "orgs", !.at = now, !.orgs = Orgs])
    /\ UNCHANGED <<now, table, told, req, edits, faults>>

Copies_Ids(as) == as \* mutant: ids where objects are expected
Copies(as) == {[id |-> a, assignee |-> activity[a].assignee] : a \in as}

DueSoon_Any(at, a) == \* mutant: without due_date__lte
    activity[a].due > at
DueSoon(at, a) == activity[a].due > at /\ activity[a].due <= at + Soon
Overdue(at, a) == activity[a].due <= at

(* set_current_organization for the next one, in no particular order, and  *)
(* the first query.                                                        *)
ReadSoon(w) ==
    /\ sweep[w].pc = "orgs"
    /\ \E g \in sweep[w].orgs :
         Goes(w, [sweep[w] EXCEPT
           !.pc = "tell", !.kind = "soon", !.org = g, !.orgs = @ \ {g},
           !.todo = Copies({a \in Pending : OrgOf[a] = g /\ DueSoon(sweep[w].at, a)})])
    /\ UNCHANGED <<now, table, told, req, edits, faults>>

ReadOverdue(w) ==
    /\ sweep[w].pc = "tell" /\ sweep[w].kind = "soon" /\ sweep[w].todo = {}
    /\ Goes(w, [sweep[w] EXCEPT
         !.kind = "overdue",
         !.todo = Copies({a \in Pending : /\ OrgOf[a] = sweep[w].org
                                          /\ Overdue(sweep[w].at, a)})])
    /\ UNCHANGED <<now, table, told, req, edits, faults>>

(* _notify_once: exists(), ...                                             *)
AlreadySent_Soon(c, kind) == \* mutant: the type is fixed
    told[c.id]["soon"][c.assignee] > 0
AlreadySent_Kindless(c, kind) == \* mutant: without the type
    \E k \in Kinds : told[c.id][k][c.assignee] > 0
AlreadySent(c, kind) == told[c.id][kind][c.assignee] > 0

Check(w) ==
    /\ sweep[w].pc = "tell"
    /\ \E c \in sweep[w].todo :
         Goes(w, IF AlreadySent(c, sweep[w].kind) THEN [sweep[w] EXCEPT !.todo = @ \ {c}]
                 ELSE [sweep[w] EXCEPT !.pc = "insert", !.todo = @ \ {c}, !.next = {c}])
    /\ UNCHANGED <<now, table, told, req, edits, faults>>

(* NotificationService.create.                                             *)
Notify(a, kind, m) == told' = [told EXCEPT ![a][kind][m] = @ + 1]

(* ... and the notice, to the assignee that was read.                      *)
Insert(w) ==
    /\ sweep[w].pc = "insert"
    /\ \E c \in sweep[w].next : Notify(c.id, sweep[w].kind, c.assignee)
    /\ Goes(w, [sweep[w] EXCEPT !.pc = "tell", !.next = {}])
    /\ UNCHANGED <<now, table, req, edits, faults>>

LeaveOrg(w) ==
    /\ sweep[w].pc = "tell" /\ sweep[w].kind = "overdue" /\ sweep[w].todo = {}
    /\ Goes(w, IF sweep[w].orgs = {} THEN NoSweep
               ELSE [sweep[w] EXCEPT !.pc = "orgs", !.org = Null, !.kind = "soon"])
    /\ UNCHANGED <<now, table, told, req, edits, faults>>

(* An error anywhere ends the sweep: the organisations left are not served *)
(* and the task is not retried.                                            *)
Fail(w) ==
    /\ sweep[w].pc # "idle" /\ faults < MaxFaults
    /\ Goes(w, NoSweep)
    /\ faults' = faults + 1
    /\ UNCHANGED <<now, table, told, req, edits>>

Tick ==
    /\ now < MaxTime
    /\ now' = now + 1
    /\ UNCHANGED <<table, told, sweep, req, edits, faults>>

-------------------------------------------------------------------------------
(* The notices there is reason for: a is to be done by m, and is due.      *)
DueFor(a, k, m) ==
    /\ a \in Pending
    /\ activity[a].assignee = m
    /\ activity[a].due <= IF k = "soon" THEN now + Soon ELSE now

Reasons == {n \in Activities \X Kinds \X Members : DueFor(n[1], n[2], n[3])}

(* Some activities may have been created, and deleted, since the last      *)
(* sweep.                                                                  *)
Init ==
    /\ now = 0
    /\ activityRows \in SUBSET Activities
    /\ activity \in [Activities -> {NoActivity} \cup
         [assignee : Members, due : Dates, status : {"pending"}, deleted : BOOLEAN]]
    /\ \A a \in Activities : IF a \in activityRows THEN activity[a].assignee \in Mates(a)
                              ELSE activity[a] = NoActivity
    /\ told = [a \in Activities |-> [k \in Kinds |-> [m \in Members |-> 0]]]
    /\ sweep = [w \in Sweepers |-> NoSweep]
    /\ req = [r \in Requests |-> Idle]
    /\ edits = 0 /\ faults = 0
    /\ wasDue = Reasons
    /\ overlapped = FALSE

Work(w) == ReadSoon(w) \/ ReadOverdue(w) \/ Check(w) \/ Insert(w) \/ LeaveOrg(w)

Edit ==
    \/ \E a \in Activities, m, n \in Members, due \in Dates : Create(a, m, n, due)
    \/ \E r \in Requests :
         \/ \E a \in Activities, m \in Members, n \in Members \cup {Null},
               due \in Dates \cup {Null}, to \in {"done", Null} :
              BeginPatch(r, a, m, n, due, to)
         \/ SaveFields(r) \/ SaveStatus(r)
    \/ \E a \in Activities, m \in Members : Delete(a, m) \/ Restore(a, m)

(* Another sweep is running while w takes a step, which changes no         *)
(* activity.                                                               *)
Beside(w) ==
    /\ overlapped' = (overlapped \/ \E v \in Sweepers \ {w} : sweep[v].pc # "idle")
    /\ UNCHANGED wasDue

Next ==
    \/ \E w \in Sweepers : (StartSweep(w) \/ Work(w) \/ Fail(w)) /\ Beside(w)
    \/ (Edit \/ Tick) /\ wasDue' = wasDue \cup Reasons' /\ UNCHANGED overlapped

(* The beat starts sweeps for ever, and a sweep that runs goes on: the     *)
(* workers have nothing to wait for.                                       *)
Fairness ==
    /\ WF_vars(\E w \in Sweepers : StartSweep(w) /\ Beside(w))
    /\ \A w \in Sweepers : WF_vars(Work(w) /\ Beside(w))

Spec == Init /\ [][Next]_vars /\ Fairness

-------------------------------------------------------------------------------
(* Properties                                                              *)

(* Rows, sweeps, requests and notices stay within their types.             *)
TypeOK ==
    /\ now \in Nat
    /\ activityRows \subseteq Activities
    /\ activity \in [Activities -> Row]
    /\ told \in [Activities -> [Kinds -> [Members -> Nat]]]
    /\ sweep \in [Sweepers -> Sweep]
    /\ req \in [Requests -> Request]
    /\ {edits, faults} \subseteq Nat
    /\ wasDue \subseteq Activities \X Kinds \X Members
    /\ overlapped \in BOOLEAN

(* Business Rules 8.3: each notice fires once, not repeatedly, however     *)
(* often sweeps fail half way and whatever requests change meanwhile.      *)
(* Nothing but the search for an earlier notice sees to it, so sweeps that *)
(* overlap may each write one.                                             *)
NoticedOnce ==
    \A a \in Activities, k \in Kinds, m \in Members :
        told[a][k][m] <= IF overlapped THEN Cardinality(Sweepers) ELSE 1

(* Nobody is told of what was never due for them: each notice goes to a    *)
(* member to whom the activity was assigned at a moment when it was        *)
(* pending, not deleted, and due, although the clock was read before the   *)
(* activity, and the activity before the notice is written, while requests *)
(* move, reassign, finish, delete and restore it.                          *)
ToldOnlyWhenDue ==
    \A a \in Activities, k \in Kinds, m \in Members :
        told[a][k][m] > 0 => <<a, k, m>> \in wasDue

(* PRD 5.11: an activity that is overdue for its assignee is told to this  *)
(* assignee, unless a request completes, moves or reassigns it first,      *)
(* despite sweeps that fail, as long as they do not always fail.           *)
OverdueTold ==
    \A a \in Activities, m \in Members :
        DueFor(a, "overdue", m) ~> told[a]["overdue"][m] > 0 \/ ~DueFor(a, "overdue", m)
===============================================================================
