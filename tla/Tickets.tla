------------------------------- MODULE Tickets --------------------------------
(***************************************************************************)
(* The support tickets of one organisation and the notices about them.     *)
(*                                                                         *)
(* Source: apps/tickets/views.py, services.py, models.py and               *)
(* apps/notifications/services.py.                                         *)
(*                                                                         *)
(* PATCH is no transaction: the fields, the notice of the assignment, the  *)
(* status and its notices are committed one after another, from the copy   *)
(* of the ticket the request began with.  Other requests run between, and  *)
(* a worker may die after any of them.  Members, their roles and teams do  *)
(* not change here (see Membership).                                       *)
(***************************************************************************)
EXTENDS Naturals, FiniteSets, Access

CONSTANTS
    Tickets, Members, Null,
    Role,           \* the role of each member
    ReportsTo,      \* the manager of each member, or Null
    Requests,       \* web workers serving a request at a time
    Earlier,        \* tickets that may exist at the start
    MaxRequests,    \* bound: requests begun
    MaxAssigns      \* bound: requests among them that name an assignee

ASSUME MemberAssumption ==
    /\ Role \in [Members -> MatrixRoles]
    /\ ReportsTo \in [Members -> Members \cup {Null}]
ASSUME NullAssumption ==
    Null \notin Members \cup Tickets
      \cup {"open", "in_progress", "resolved", "closed", "reopened"}
ASSUME RequestAssumption == IsFiniteSet(Requests)
ASSUME BoundAssumption ==
    MaxRequests \in Nat /\ MaxAssigns \in Nat /\ Earlier \subseteq Tickets

VARIABLES
    ticketRows,     \* table tickets: the ids in use
    ticket,         \* and its columns
    told,           \* table notifications: how many of each kind per ticket
    req,            \* the request each worker is serving
    begun, assigns, \* requests begun so far, those that name an assignee
    past,           \* history: every status a ticket has had
    moves,          \* history: the times its status has changed
    assignments,    \* history: the times it has been given to each member
    lost,           \* history: notices a crash has swallowed
    overlapped      \* history: has a request overlapped another?

table   == <<ticketRows, ticket>>
history == <<past, moves, assignments>>
vars == <<ticketRows, ticket, told, req, begun, assigns, past, moves,
          assignments, lost, overlapped>>

-------------------------------------------------------------------------------
Statuses == {"open", "in_progress", "resolved", "closed", "reopened"}
Notice   == Members \X {"assigned", "status"}

Row == [status : Statuses, assignee : Members \cup {Null},
        created_by : Members \cup {Null}, deleted : BOOLEAN]

Request == [pc : {"idle", "saving", "moving", "telling", "deleting"},
            ticket : Tickets \cup {Null}, copy : Row,
            assignee : Members \cup {Null},
            to : Statuses \cup {Null},      \* Null: not in the body, or done
            tell : SUBSET Notice]

NoTicket == [status |-> "open", assignee |-> Null, created_by |-> Null,
             deleted |-> FALSE]
Idle == [pc |-> "idle", ticket |-> Null, copy |-> NoTicket, assignee |-> Null,
         to |-> Null, tell |-> {}]

TICKET_STATUS_TRANSITIONS_Any == \* mutant: back to work without being reopened
    [open |-> {"in_progress"}, in_progress |-> {"resolved"},
     resolved |-> {"closed", "reopened"}, closed |-> {"reopened", "in_progress"},
     reopened |-> {"in_progress", "resolved"}]
TICKET_STATUS_TRANSITIONS ==
    [open |-> {"in_progress"}, in_progress |-> {"resolved"},
     resolved |-> {"closed", "reopened"}, closed |-> {"reopened"},
     reopened |-> {"in_progress", "resolved"}]

Team(m)     == {n \in Members : ReportsTo[n] = m}
Scope(m)    == TicketScope[Role[m]]
Writers     == {m \in Members : MayWrite(Scope(m))}
Managers    == {m \in Members : Role[m] \in {"owner", "admin"}}

CanAssign(m, a) == a = Null \/ Scope(m) # "team" \/ MayAssign("team", m, Team(m), a)

(* The ticket is found by _get_object.                                     *)
Sees(m, t) == /\ t \in ticketRows /\ ~ticket[t].deleted
              /\ InScope(Scope(m), m, Team(m), ticket[t].assignee)

Begin(r)  == /\ req[r].pc = "idle"
             /\ begun < MaxRequests
             /\ begun' = begun + 1
Becomes(r, q) == req' = [req EXCEPT ![r] = q]
Finish(r) == Becomes(r, Idle)

(* The request has nothing left to do but to tell ns about ticket t.       *)
Telling(t, ns) == [Idle EXCEPT !.pc = "telling", !.ticket = t, !.tell = ns]

-------------------------------------------------------------------------------
(* POST: the row is inserted, then its assignee told.  A contact of        *)
(* another customer, an unknown customer or an assignee outside the team   *)
(* is refused before.                                                      *)
Create(r, t, m, a) ==
    /\ Begin(r)
    /\ m \in Writers /\ CanAssign(m, a)
    /\ t \notin ticketRows
    /\ ticketRows' = ticketRows \cup {t}
    /\ ticket' = [ticket EXCEPT ![t] = [NoTicket EXCEPT !.assignee = a, !.created_by = m]]
    /\ past' = [past EXCEPT ![t] = {"open"}]
    /\ IF a = Null THEN UNCHANGED <<req, assignments>>
       ELSE /\ Becomes(r, Telling(t, {<<a, "assigned">>}))
            /\ assignments' = [assignments EXCEPT ![t][a] = @ + 1]
    /\ UNCHANGED <<told, assigns, moves, lost>>

(* PATCH: the ticket is read and the body validated.  Which fields other   *)
(* than the assignee are given makes no difference.                        *)
BeginPatch(r, t, m, names, a, to) ==
    /\ Begin(r)
    /\ m \in Writers /\ Sees(m, t)
    /\ names \/ (a = Null /\ to # Null)
    /\ names => CanAssign(m, a) /\ assigns < MaxAssigns
    /\ assigns' = IF names THEN assigns + 1 ELSE assigns
    /\ Becomes(r, [Idle EXCEPT !.pc = IF names THEN "saving" ELSE "moving",
                               !.ticket = t, !.copy = ticket[t],
                               !.assignee = a, !.to = to])
    /\ UNCHANGED <<table, told, history, lost>>

(* What is left of the body when the fields are done: the status, if any.  *)
AfterTelling(q) == IF q.to = Null THEN Idle ELSE [q EXCEPT !.pc = "moving", !.tell = {}]

(* update_fields: the assignee, and nothing else, is written.              *)
SaveFields(r) ==
    LET t == req[r].ticket
        a == req[r].assignee
        saved == [req[r] EXCEPT !.copy.assignee = a, !.assignee = Null] IN
    /\ req[r].pc = "saving"
    /\ ticket' = [ticket EXCEPT ![t].assignee = a]
    /\ IF a = Null
       THEN /\ Becomes(r, AfterTelling(saved))
            /\ UNCHANGED assignments
       ELSE /\ Becomes(r, [saved EXCEPT !.pc = "telling", !.tell = {<<a, "assigned">>}])
            /\ assignments' = [assignments EXCEPT ![t][a] = @ + 1]
    /\ UNCHANGED <<ticketRows, told, begun, assigns, past, moves, lost>>

(* transition_status: the guard reads the copy.                            *)
MayMove(r) == req[r].to \in TICKET_STATUS_TRANSITIONS[req[r].copy.status]

(* Its recipients: the copy's assignee and the creator, if different.      *)
Recipients_Assignee(copy) == \* mutant: the creator is told only if nobody is assigned
    IF copy.assignee # Null THEN {copy.assignee} ELSE {copy.created_by}
Recipients_Nobody(copy) == \* mutant: an unassigned ticket's nobody is told
    {copy.assignee, copy.created_by}
Recipients(copy) == {copy.assignee, copy.created_by} \ {Null}

Move(r) ==
    LET t == req[r].ticket IN
    /\ req[r].pc = "moving" /\ MayMove(r)
    /\ ticket' = [ticket EXCEPT ![t].status = req[r].to]
    /\ past' = [past EXCEPT ![t] = @ \cup {req[r].to}]
    /\ moves' = [moves EXCEPT ![t] = @ + 1]
    /\ Becomes(r, Telling(t, Recipients(req[r].copy) \X {"status"}))
    /\ UNCHANGED <<ticketRows, told, begun, assigns, assignments, lost>>

(* The status is refused with 400; the fields saved before stay.           *)
RefuseMove(r) ==
    /\ req[r].pc = "moving" /\ ~MayMove(r)
    /\ Finish(r)
    /\ UNCHANGED <<table, told, begun, assigns, history, lost>>

(* NotificationService.create, one row at a time.                          *)
Tell(r) ==
    \E n \in req[r].tell :
        /\ told' = [told EXCEPT ![req[r].ticket][n] = @ + 1]
        /\ Becomes(r, IF req[r].tell = {n} THEN AfterTelling(req[r])
                      ELSE [req[r] EXCEPT !.tell = @ \ {n}])
        /\ UNCHANGED <<table, begun, assigns, history, lost>>

(* DELETE: the ticket is read, then marked.                                *)
BeginDelete(r, t, m) ==
    /\ Begin(r)
    /\ m \in Writers /\ Sees(m, t)
    /\ Becomes(r, [Idle EXCEPT !.pc = "deleting", !.ticket = t])
    /\ UNCHANGED <<table, told, assigns, history, lost>>

Delete(r) ==
    /\ req[r].pc = "deleting"
    /\ ticket' = [ticket EXCEPT ![req[r].ticket].deleted = TRUE]
    /\ Finish(r)
    /\ UNCHANGED <<ticketRows, told, begun, assigns, history, lost>>

(* POST restore, for Owner and Admin.                                      *)
Restore(r, t) ==
    /\ Begin(r)
    /\ Managers # {}
    /\ t \in ticketRows /\ ticket[t].deleted
    /\ ticket' = [ticket EXCEPT ![t].deleted = FALSE]
    /\ UNCHANGED <<ticketRows, told, req, assigns, history, lost>>

(* The worker dies, or the next statement fails: what was written stays.   *)
Crash(r) ==
    /\ req[r].pc # "idle"
    /\ lost' = IF req[r].tell = {} THEN lost
               ELSE [lost EXCEPT ![req[r].ticket] =
                       [n \in Notice |-> IF n \in req[r].tell THEN @[n] + 1 ELSE @[n]]]
    /\ Finish(r)
    /\ UNCHANGED <<table, told, begun, assigns, history>>

-------------------------------------------------------------------------------
(* The tickets there are at the start came to their status step by step    *)
(* and were assigned after that, or never.                                 *)
Journey == [open |-> {"open"}, in_progress |-> {"open", "in_progress"},
            resolved |-> {"open", "in_progress", "resolved"},
            closed |-> Statuses \ {"reopened"}, reopened |-> Statuses \ {"closed"}]

Init ==
    /\ ticketRows \in SUBSET Earlier
    /\ ticket \in [Tickets -> Row]
    /\ \A t \in Tickets :
         IF t \in ticketRows THEN ticket[t].created_by \in Writers /\ ~ticket[t].deleted
         ELSE ticket[t] = NoTicket
    /\ past = [t \in Tickets |-> IF t \in ticketRows THEN Journey[ticket[t].status] ELSE {}]
    /\ moves = [t \in Tickets |-> IF t \in ticketRows THEN Cardinality(past[t]) - 1 ELSE 0]
    /\ assignments = [t \in Tickets |-> [m \in Members |->
                         IF ticket[t].assignee = m THEN 1 ELSE 0]]
    /\ told = [t \in Tickets |-> [n \in Notice |->
                  IF n[2] = "assigned" THEN assignments[t][n[1]]
                  ELSE IF ticket[t].created_by = n[1] THEN moves[t] ELSE 0]]
    /\ lost = [t \in Tickets |-> [n \in Notice |-> 0]]
    /\ req = [r \in Requests |-> Idle]
    /\ begun = 0 /\ assigns = 0
    /\ overlapped = FALSE

Serve(r) ==
    \/ \E t \in Tickets, m \in Members :
         \/ \E a \in Members \cup {Null} : Create(r, t, m, a)
         \/ \E a \in Members \cup {Null}, to \in Statuses \cup {Null}, names \in BOOLEAN :
              BeginPatch(r, t, m, names, a, to)
         \/ BeginDelete(r, t, m)
    \/ \E t \in Tickets : Restore(r, t)
    \/ SaveFields(r) \/ Move(r) \/ RefuseMove(r) \/ Tell(r) \/ Delete(r) \/ Crash(r)

(* Another request is being served while r takes a step.                   *)
Beside(r) == overlapped' = (overlapped \/ \E o \in Requests \ {r} : req[o].pc # "idle")

Next == \E r \in Requests : Serve(r) /\ Beside(r)

Spec == Init /\ [][Next]_vars

-------------------------------------------------------------------------------
(* Properties                                                              *)

(* Rows, requests, notices and counters stay within their types.           *)
TypeOK ==
    /\ ticketRows \subseteq Tickets
    /\ ticket \in [Tickets -> Row]
    /\ told \in [Tickets -> [Notice -> Nat]]
    /\ lost \in [Tickets -> [Notice -> Nat]]
    /\ req \in [Requests -> Request]
    /\ {begun, assigns} \subseteq Nat
    /\ past \in [Tickets -> SUBSET Statuses]
    /\ moves \in [Tickets -> Nat]
    /\ assignments \in [Tickets -> [Members -> Nat]]
    /\ overlapped \in BOOLEAN

(* Business Rules 10.3: every assignment is told to the new assignee and   *)
(* every change of status to the creator, once each, whether or not the    *)
(* creator is the assignee too, whatever overlaps and although the rows    *)
(* are written one by one from a copy; only a crash may swallow a notice   *)
(* that was due.                                                           *)
Due(t, n) == Cardinality({r \in Requests : req[r].ticket = t /\ n \in req[r].tell})

Accounted(t, m, kind) == LET n == <<m, kind>> IN told[t][n] + Due(t, n) + lost[t][n]

EveryEventToldOnce ==
    \A t \in ticketRows :
        /\ \A m \in Members : Accounted(t, m, "assigned") = assignments[t][m]
        /\ Accounted(t, ticket[t].created_by, "status") = moves[t]

(* Tickets keep the promise of TicketLifecycle.                            *)
Lifecycle == INSTANCE TicketLifecycle
    WITH status <- [t \in Tickets |-> IF t \in ticketRows THEN ticket[t].status ELSE Null],
         shared <- overlapped
ImplementsLifecycle == Lifecycle!Spec
===============================================================================
