----------------------------- MODULE TicketsProofs -----------------------------
(***************************************************************************)
(* Proofs about Tickets, for any number of tickets, members and workers.   *)
(***************************************************************************)
EXTENDS Tickets, FiniteSetTheorems, TLAPS

(* A request works on a ticket there is, and has notices to write only     *)
(* while it writes them.                                                   *)
ReqOK(r) ==
    /\ req[r].pc # "idle" => req[r].ticket \in ticketRows
    /\ req[r].pc # "telling" => req[r].tell = {}
    /\ req[r].pc = "moving" => req[r].to # Null

TypeInv == TypeOK /\ \A r \in Requests : ReqOK(r)

-------------------------------------------------------------------------------
LEMMA Constants ==
    /\ NoTicket \in Row /\ NoTicket.assignee = Null /\ NoTicket.created_by = Null
    /\ NoTicket.status = "open"
    /\ Idle \in Request /\ Idle.pc = "idle" /\ Idle.ticket = Null /\ Idle.tell = {} /\ Idle.to = Null
    /\ Null \notin Members /\ Null \notin Tickets /\ Null \notin Statuses
BY NullAssumption DEF NoTicket, Row, Statuses, Idle, Request

(* What a row becomes when one of its columns is written.                  *)
LEMMA RowWrites ==
    ASSUME NEW row \in Row, NEW a \in Members \cup {Null}, NEW s \in Statuses, NEW d \in BOOLEAN
    PROVE  /\ [row EXCEPT !.assignee = a] \in Row
           /\ [row EXCEPT !.assignee = a].created_by = row.created_by
           /\ [row EXCEPT !.assignee = a].status = row.status
           /\ [row EXCEPT !.status = s] \in Row
           /\ [row EXCEPT !.status = s].created_by = row.created_by
           /\ [row EXCEPT !.status = s].status = s
           /\ [row EXCEPT !.deleted = d] \in Row
           /\ [row EXCEPT !.deleted = d].created_by = row.created_by
           /\ [row EXCEPT !.deleted = d].status = row.status
BY DEF Row

LEMMA TellingType ==
    ASSUME NEW t \in Tickets, NEW ns \in SUBSET Notice
    PROVE  /\ Telling(t, ns) \in Request
           /\ Telling(t, ns).pc = "telling" /\ Telling(t, ns).ticket = t
           /\ Telling(t, ns).tell = ns /\ Telling(t, ns).to = Null
BY Constants DEF Telling, Idle, Request

LEMMA AfterTellingType ==
    ASSUME NEW q \in Request
    PROVE  /\ AfterTelling(q) \in Request /\ AfterTelling(q).tell = {}
           /\ q.to = Null => AfterTelling(q) = Idle
           /\ q.to # Null => /\ AfterTelling(q).pc = "moving" /\ AfterTelling(q).to = q.to
                             /\ AfterTelling(q).ticket = q.ticket /\ AfterTelling(q).copy = q.copy
BY Constants DEF AfterTelling, Request

(* A request moves on.                                                     *)
LEMMA Moved ==
    ASSUME TypeInv, NEW r \in Requests, NEW q \in Request, Becomes(r, q)
    PROVE  /\ req' \in [Requests -> Request] /\ req'[r] = q
           /\ \A s \in Requests \ {r} : req'[s] = req[s]
BY DEF TypeInv, TypeOK, Becomes

LEMMA Written ==
    ASSUME TypeInv, NEW t \in Tickets, NEW row \in Row, ticket' = [ticket EXCEPT ![t] = row]
    PROVE  /\ ticket' \in [Tickets -> Row] /\ ticket'[t] = row
           /\ \A u \in Tickets \ {t} : ticket'[u] = ticket[u]
BY DEF TypeInv, TypeOK

LEMMA Counted ==
    ASSUME TypeInv, NEW t \in Tickets, NEW m \in Members,
           assignments' = [assignments EXCEPT ![t][m] = @ + 1]
    PROVE  /\ assignments' \in [Tickets -> [Members -> Nat]]
           /\ assignments'[t][m] = assignments[t][m] + 1
           /\ \A u \in Tickets, n \in Members :
                <<u, n>> # <<t, m>> => assignments'[u][n] = assignments[u][n]
BY DEF TypeInv, TypeOK

LEMMA Noticed ==
    ASSUME TypeInv, NEW t \in Tickets, NEW n \in Notice, told' = [told EXCEPT ![t][n] = @ + 1]
    PROVE  /\ told' \in [Tickets -> [Notice -> Nat]]
           /\ told'[t][n] = told[t][n] + 1
           /\ \A u \in Tickets, m \in Notice : <<u, m>> # <<t, n>> => told'[u][m] = told[u][m]
BY DEF TypeInv, TypeOK

-------------------------------------------------------------------------------
(* What each action does to the request and the tables.                    *)
Same(r) == \A s \in Requests \ {r} : req'[s] = req[s]

LEMMA CreateFacts ==
    ASSUME TypeInv, NEW r \in Requests, NEW t \in Tickets, NEW m \in Members,
           NEW a \in Members \cup {Null}, Create(r, t, m, a)
    PROVE  /\ t \notin ticketRows /\ ticketRows' = ticketRows \cup {t}
           /\ ticket' \in [Tickets -> Row]
           /\ ticket'[t].created_by = m /\ ticket'[t].status = "open"
           /\ \A u \in Tickets \ {t} : ticket'[u] = ticket[u]
           /\ past' \in [Tickets -> SUBSET Statuses] /\ past'[t] = {"open"}
           /\ \A u \in Tickets \ {t} : past'[u] = past[u]
           /\ begun' \in Nat /\ req[r].pc = "idle"
           /\ UNCHANGED <<told, assigns, moves, lost>>
<1>1. DEFINE row == [NoTicket EXCEPT !.assignee = a, !.created_by = m]
<1>2. row \in Row /\ row.created_by = m /\ row.status = "open"
  BY DEF NoTicket, Row, Statuses
<1>3. ticket' = [ticket EXCEPT ![t] = row]
  BY DEF Create
<1> HIDE DEF row
<1>4. /\ ticket' \in [Tickets -> Row] /\ ticket'[t] = row
      /\ \A u \in Tickets \ {t} : ticket'[u] = ticket[u]
  BY <1>2, <1>3, Written
<1>5. past' = [past EXCEPT ![t] = {"open"}] /\ {"open"} \in SUBSET Statuses
  BY DEF Create, Statuses
<1>6. /\ past' \in [Tickets -> SUBSET Statuses] /\ past'[t] = {"open"}
      /\ \A u \in Tickets \ {t} : past'[u] = past[u]
  BY <1>5 DEF TypeInv, TypeOK
<1>7. /\ t \notin ticketRows /\ ticketRows' = ticketRows \cup {t}
      /\ begun' = begun + 1 /\ req[r].pc = "idle"
      /\ UNCHANGED <<told, assigns, moves, lost>>
  BY DEF Create, Begin
<1>8. begun' \in Nat
  BY <1>7 DEF TypeInv, TypeOK
<1>9. QED BY <1>2, <1>4, <1>6, <1>7, <1>8

LEMMA CreateReq ==
    ASSUME TypeInv, NEW r \in Requests, NEW t \in Tickets, NEW m \in Members,
           NEW a \in Members \cup {Null}, Create(r, t, m, a)
    PROVE  \/ a = Null /\ req' = req /\ assignments' = assignments
           \/ /\ a \in Members /\ Becomes(r, Telling(t, {<<a, "assigned">>}))
              /\ <<a, "assigned">> \in Notice
              /\ assignments' = [assignments EXCEPT ![t][a] = @ + 1]
<1>1. CASE a = Null
  BY <1>1 DEF Create
<1>2. CASE a # Null
  BY <1>2 DEF Create, Notice
<1>3. QED BY <1>1, <1>2

LEMMA BeginPatchFacts ==
    ASSUME TypeInv, NEW r \in Requests, NEW t \in Tickets, NEW m \in Members,
           NEW a \in Members \cup {Null}, NEW to \in Statuses \cup {Null}, NEW names \in BOOLEAN,
           BeginPatch(r, t, m, names, a, to)
    PROVE  /\ req[r].pc = "idle" /\ t \in ticketRows
           /\ \E q \in Request :
                /\ Becomes(r, q)
                /\ q.pc \in {"saving", "moving"} /\ q.ticket = t /\ q.copy = ticket[t] /\ q.tell = {}
                /\ q.pc = "moving" => q.to # Null
           /\ begun' \in Nat /\ assigns' \in Nat
           /\ UNCHANGED <<table, told, history, lost>>
<1>1. DEFINE q == [Idle EXCEPT !.pc = IF names THEN "saving" ELSE "moving",
                               !.ticket = t, !.copy = ticket[t], !.assignee = a, !.to = to]
<1>2. ticket[t] \in Row
  BY DEF TypeInv, TypeOK
<1>3. /\ q \in Request /\ q.pc = (IF names THEN "saving" ELSE "moving")
      /\ q.ticket = t /\ q.copy = ticket[t] /\ q.tell = {} /\ q.to = to
  BY <1>2 DEF Idle, Request
<1>4. Becomes(r, q) /\ (names \/ to # Null)
  BY DEF BeginPatch
<1> HIDE DEF q
<1>5. q.pc \in {"saving", "moving"} /\ (q.pc = "moving" => q.to # Null)
  BY <1>3, <1>4
<1>6. begun' = begun + 1 /\ req[r].pc = "idle" /\ t \in ticketRows
  BY DEF BeginPatch, Begin, Sees
<1>7. assigns' = assigns + 1 \/ assigns' = assigns
  BY DEF BeginPatch
<1>8. begun' \in Nat /\ assigns' \in Nat
  BY <1>6, <1>7 DEF TypeInv, TypeOK
<1>9. UNCHANGED <<table, told, history, lost>>
  BY DEF BeginPatch
<1>10. QED BY <1>3, <1>4, <1>5, <1>6, <1>8, <1>9

(* The request r works on a ticket there is.                               *)
LEMMA Working ==
    ASSUME TypeInv, NEW r \in Requests
    PROVE  /\ req[r] \in Request /\ req[r].copy \in Row
           /\ req[r].pc # "idle" => req[r].ticket \in ticketRows
           /\ req[r].tell # {} => req[r].pc = "telling"
           /\ req[r].tell \subseteq Notice
           /\ req[r].pc = "moving" => req[r].to \in Statuses
           /\ ticketRows \subseteq Tickets
BY DEF TypeInv, TypeOK, ReqOK, Request

LEMMA SaveFieldsFacts ==
    ASSUME TypeInv, NEW r \in Requests, SaveFields(r)
    PROVE  /\ req[r].pc = "saving" /\ req[r].ticket \in ticketRows
           /\ ticket' \in [Tickets -> Row]
           /\ \A u \in Tickets : /\ ticket'[u].created_by = ticket[u].created_by
                                  /\ ticket'[u].status = ticket[u].status
           /\ \E q \in Request :
                /\ q.to = req[r].to /\ q.ticket = req[r].ticket
                /\ q.copy.status = req[r].copy.status /\ q.copy.created_by = req[r].copy.created_by
                /\ \/ Becomes(r, AfterTelling(q)) /\ assignments' = assignments
                   \/ \E a \in Members :
                        /\ q.pc = "telling" /\ q.tell = {<<a, "assigned">>}
                        /\ <<a, "assigned">> \in Notice
                        /\ Becomes(r, q)
                        /\ assignments' = [assignments EXCEPT ![req[r].ticket][a] = @ + 1]
           /\ UNCHANGED <<ticketRows, told, begun, assigns, past, moves, lost>>
<1>1. DEFINE saved == [req[r] EXCEPT !.copy.assignee = req[r].assignee, !.assignee = Null]
<1>2. PICK p \in Request : p = req[r]
  BY Working
<1>3. PICK t \in Tickets : t = req[r].ticket /\ t \in ticketRows /\ req[r].pc = "saving"
  BY Working DEF SaveFields
<1>4. PICK a \in Members \cup {Null} : a = req[r].assignee
  BY <1>2 DEF Request
<1>5. /\ saved \in Request /\ saved.to = p.to /\ saved.ticket = p.ticket
      /\ saved.copy.status = p.copy.status /\ saved.copy.created_by = p.copy.created_by
  BY <1>2, <1>4 DEF Request, Row
<1>6. /\ ticket' = [ticket EXCEPT ![t] = [ticket[t] EXCEPT !.assignee = a]]
      /\ IF a = Null THEN Becomes(r, AfterTelling(saved)) /\ assignments' = assignments
         ELSE /\ Becomes(r, [saved EXCEPT !.pc = "telling", !.tell = {<<a, "assigned">>}])
              /\ assignments' = [assignments EXCEPT ![t][a] = @ + 1]
  BY <1>3, <1>4 DEF SaveFields
<1> HIDE DEF saved
<1>7. /\ ticket' \in [Tickets -> Row]
      /\ \A u \in Tickets : ticket'[u].created_by = ticket[u].created_by
                            /\ ticket'[u].status = ticket[u].status
  <2>1. ticket[t] \in Row /\ "open" \in Statuses
    BY DEF TypeInv, TypeOK, Statuses
  <2>2. [ticket[t] EXCEPT !.assignee = a] \in Row
        /\ [ticket[t] EXCEPT !.assignee = a].created_by = ticket[t].created_by
        /\ [ticket[t] EXCEPT !.assignee = a].status = ticket[t].status
    BY <2>1, RowWrites
  <2>3. QED BY <1>6, <2>2, Written
<1>8. CASE a = Null
  BY <1>2, <1>3, <1>5, <1>6, <1>7, <1>8 DEF SaveFields
<1>9. CASE a # Null
  <2>1. DEFINE q == [saved EXCEPT !.pc = "telling", !.tell = {<<a, "assigned">>}]
  <2>2. a \in Members /\ <<a, "assigned">> \in Notice
    BY <1>9 DEF Notice
  <2>3. /\ q \in Request /\ q.to = saved.to /\ q.ticket = saved.ticket /\ q.copy = saved.copy
        /\ q.pc = "telling" /\ q.tell = {<<a, "assigned">>}
    BY <1>5, <2>2 DEF Request
  <2>4. Becomes(r, q) /\ assignments' = [assignments EXCEPT ![t][a] = @ + 1]
    BY <1>6, <1>9
  <2> HIDE DEF q
  <2>5. UNCHANGED <<ticketRows, told, begun, assigns, past, moves, lost>>
    BY DEF SaveFields
  <2>6. \E b \in Members :
            /\ q.pc = "telling" /\ q.tell = {<<b, "assigned">>} /\ <<b, "assigned">> \in Notice
            /\ Becomes(r, q)
            /\ assignments' = [assignments EXCEPT ![req[r].ticket][b] = @ + 1]
    BY <1>3, <2>2, <2>3, <2>4
  <2>7. QED BY <1>2, <1>3, <1>5, <1>7, <2>3, <2>5, <2>6
<1>10. QED BY <1>8, <1>9

LEMMA MoveFacts ==
    ASSUME TypeInv, NEW r \in Requests, Move(r)
    PROVE  \E t \in Tickets, s \in Statuses :
           /\ req[r].pc = "moving" /\ t = req[r].ticket /\ s = req[r].to /\ t \in ticketRows
           /\ MayMove(r)
           /\ ticket' \in [Tickets -> Row]
           /\ ticket'[t].status = s /\ ticket'[t].created_by = ticket[t].created_by
           /\ \A u \in Tickets \ {t} : ticket'[u] = ticket[u]
           /\ past' = [past EXCEPT ![t] = @ \cup {s}]
           /\ past' \in [Tickets -> SUBSET Statuses]
           /\ moves' \in [Tickets -> Nat] /\ moves'[t] = moves[t] + 1
           /\ \A u \in Tickets \ {t} : moves'[u] = moves[u]
           /\ Recipients(req[r].copy) \X {"status"} \in SUBSET Notice
           /\ Becomes(r, Telling(t, Recipients(req[r].copy) \X {"status"}))
           /\ UNCHANGED <<ticketRows, told, begun, assigns, assignments, lost>>
<1>1. PICK t \in Tickets, s \in Statuses : t = req[r].ticket /\ t \in ticketRows /\ s = req[r].to
  BY Working DEF Move
<1>2. /\ req[r].pc = "moving" /\ MayMove(r)
      /\ ticket' = [ticket EXCEPT ![t] = [ticket[t] EXCEPT !.status = s]]
      /\ past' = [past EXCEPT ![t] = @ \cup {s}]
      /\ moves' = [moves EXCEPT ![t] = @ + 1]
      /\ Becomes(r, Telling(t, Recipients(req[r].copy) \X {"status"}))
      /\ UNCHANGED <<ticketRows, told, begun, assigns, assignments, lost>>
  BY <1>1 DEF Move
<1>3. /\ ticket' \in [Tickets -> Row]
      /\ ticket'[t].status = s /\ ticket'[t].created_by = ticket[t].created_by
      /\ \A u \in Tickets \ {t} : ticket'[u] = ticket[u]
  <2>1. ticket[t] \in Row
    BY DEF TypeInv, TypeOK
  <2>2. [ticket[t] EXCEPT !.status = s] \in Row
        /\ [ticket[t] EXCEPT !.status = s].created_by = ticket[t].created_by
        /\ [ticket[t] EXCEPT !.status = s].status = s
    BY <2>1, Constants, RowWrites
  <2>3. QED BY <1>2, <2>2, Written
<1>4. past' \in [Tickets -> SUBSET Statuses]
  BY <1>2 DEF TypeInv, TypeOK
<1>5. /\ moves' \in [Tickets -> Nat] /\ moves'[t] = moves[t] + 1
      /\ \A u \in Tickets \ {t} : moves'[u] = moves[u]
  BY <1>2 DEF TypeInv, TypeOK
<1>6. Recipients(req[r].copy) \X {"status"} \in SUBSET Notice
  BY Working DEF Recipients, Row, Notice
<1>7. QED BY <1>1, <1>2, <1>3, <1>4, <1>5, <1>6

(* What a request that has told n is left with.                            *)
LEMMA TellFacts ==
    ASSUME TypeInv, NEW r \in Requests, Tell(r)
    PROVE  \E t \in Tickets, n \in req[r].tell, q \in Request :
           /\ t = req[r].ticket /\ t \in ticketRows /\ req[r].pc = "telling" /\ n \in Notice
           /\ told' = [told EXCEPT ![t][n] = @ + 1]
           /\ Becomes(r, q) /\ q.tell = req[r].tell \ {n}
           /\ \/ q = Idle
              \/ /\ q.ticket = t /\ q.to = req[r].to /\ q.copy = req[r].copy
                 /\ q.pc = "telling" \/ (q.pc = "moving" /\ q.to # Null /\ q.tell = {})
           /\ UNCHANGED <<table, begun, assigns, history, lost>>
<1>1. PICK p \in Request : p = req[r]
  BY Working
<1>2. PICK n \in p.tell :
        /\ told' = [told EXCEPT ![p.ticket][n] = @ + 1]
        /\ Becomes(r, IF p.tell = {n} THEN AfterTelling(p) ELSE [p EXCEPT !.tell = @ \ {n}])
        /\ UNCHANGED <<table, begun, assigns, history, lost>>
  BY <1>1 DEF Tell
<1>3. p.pc = "telling" /\ p.ticket \in ticketRows /\ p.ticket \in Tickets /\ n \in Notice
  BY <1>1, <1>2, Working
<1>4. CASE p.tell = {n}
  <2>1. PICK q \in Request : q = AfterTelling(p)
    BY AfterTellingType
  <2>2. q.tell = {} /\ Becomes(r, q)
    BY <1>2, <1>4, <2>1, AfterTellingType
  <2>3. \/ q = Idle
        \/ /\ q.ticket = p.ticket /\ q.to = p.to /\ q.copy = p.copy
           /\ q.pc = "moving" /\ q.to # Null
    BY <2>1, AfterTellingType
  <2>4. p.tell \ {n} = {}
    BY <1>4
  <2>5. QED BY <1>1, <1>2, <1>3, <2>2, <2>3, <2>4
<1>5. CASE p.tell # {n}
  <2>1. PICK ns \in SUBSET Notice : ns = p.tell \ {n}
    BY <1>1, Working
  <2>2. DEFINE q == [p EXCEPT !.tell = ns]
  <2>3. /\ q \in Request /\ q.tell = ns /\ q.ticket = p.ticket /\ q.to = p.to /\ q.copy = p.copy
        /\ q.pc = p.pc
    BY DEF Request
  <2>4. Becomes(r, q)
    BY <1>2, <1>5, <2>1
  <2> HIDE DEF q
  <2>5. QED BY <1>1, <1>2, <1>3, <2>1, <2>3, <2>4
<1>6. QED BY <1>4, <1>5

(* Deletion and restoration write one column.                              *)
LEMMA Marked ==
    ASSUME TypeInv, NEW t \in Tickets, NEW d \in BOOLEAN,
           ticket' = [ticket EXCEPT ![t].deleted = d]
    PROVE  /\ ticket' \in [Tickets -> Row]
           /\ \A u \in Tickets : /\ ticket'[u].created_by = ticket[u].created_by
                                  /\ ticket'[u].status = ticket[u].status
<1>1. ticket[t] \in Row /\ "open" \in Statuses /\ Null \in Members \cup {Null}
  BY DEF TypeInv, TypeOK, Statuses
<1>2. /\ [ticket[t] EXCEPT !.deleted = d] \in Row
      /\ [ticket[t] EXCEPT !.deleted = d].created_by = ticket[t].created_by
      /\ [ticket[t] EXCEPT !.deleted = d].status = ticket[t].status
  BY <1>1, RowWrites
<1>3. ticket' = [ticket EXCEPT ![t] = [ticket[t] EXCEPT !.deleted = d]]
  OBVIOUS
<1>4. QED BY <1>2, <1>3, Written

LEMMA BeginDeleteFacts ==
    ASSUME TypeInv, NEW r \in Requests, NEW t \in Tickets, NEW m \in Members, BeginDelete(r, t, m)
    PROVE  /\ req[r].pc = "idle" /\ t \in ticketRows
           /\ \E q \in Request : /\ Becomes(r, q)
                                 /\ q.pc = "deleting" /\ q.ticket = t /\ q.tell = {}
           /\ begun' \in Nat
           /\ UNCHANGED <<table, told, assigns, history, lost>>
<1>1. DEFINE q == [Idle EXCEPT !.pc = "deleting", !.ticket = t]
<1>2. q \in Request /\ q.pc = "deleting" /\ q.ticket = t /\ q.tell = {}
  BY Constants DEF Idle, Request
<1>3. Becomes(r, q) /\ begun' = begun + 1 /\ req[r].pc = "idle" /\ t \in ticketRows
      /\ UNCHANGED <<table, told, assigns, history, lost>>
  BY DEF BeginDelete, Begin, Sees
<1> HIDE DEF q
<1>4. begun' \in Nat
  BY <1>3 DEF TypeInv, TypeOK
<1>5. QED BY <1>2, <1>3, <1>4

LEMMA DeleteFacts ==
    ASSUME TypeInv, NEW r \in Requests, Delete(r)
    PROVE  /\ req[r].pc = "deleting" /\ Becomes(r, Idle)
           /\ ticket' \in [Tickets -> Row]
           /\ \A u \in Tickets : /\ ticket'[u].created_by = ticket[u].created_by
                                  /\ ticket'[u].status = ticket[u].status
           /\ UNCHANGED <<ticketRows, told, begun, assigns, history, lost>>
<1>1. PICK t \in Tickets : t = req[r].ticket
  BY Working DEF Delete
<1>2. ticket' = [ticket EXCEPT ![t].deleted = TRUE]
  BY <1>1 DEF Delete
<1>3. QED BY <1>2, Marked DEF Delete, Finish

LEMMA RestoreFacts ==
    ASSUME TypeInv, NEW r \in Requests, NEW t \in Tickets, Restore(r, t)
    PROVE  /\ ticket' \in [Tickets -> Row] /\ begun' \in Nat /\ req[r].pc = "idle"
           /\ \A u \in Tickets : /\ ticket'[u].created_by = ticket[u].created_by
                                  /\ ticket'[u].status = ticket[u].status
           /\ UNCHANGED <<ticketRows, told, req, assigns, history, lost>>
<1>1. ticket' = [ticket EXCEPT ![t].deleted = FALSE] /\ begun' = begun + 1 /\ req[r].pc = "idle"
      /\ UNCHANGED <<ticketRows, told, req, assigns, history, lost>>
  BY DEF Restore, Begin
<1>2. begun' \in Nat
  BY <1>1 DEF TypeInv, TypeOK
<1>3. QED BY <1>1, <1>2, Marked

LEMMA CrashFacts ==
    ASSUME TypeInv, NEW r \in Requests, Crash(r)
    PROVE  /\ req[r].pc # "idle" /\ Becomes(r, Idle)
           /\ lost' \in [Tickets -> [Notice -> Nat]]
           /\ \A u \in Tickets, n \in Notice :
                lost'[u][n] = IF u = req[r].ticket /\ n \in req[r].tell THEN lost[u][n] + 1
                              ELSE lost[u][n]
           /\ UNCHANGED <<table, told, begun, assigns, history>>
<1>1. PICK t \in Tickets : t = req[r].ticket
  BY Working DEF Crash
<1>2. PICK ns \in SUBSET Notice : ns = req[r].tell
  BY Working
<1>3. lost' = IF ns = {} THEN lost
              ELSE [lost EXCEPT ![t] = [n \in Notice |-> IF n \in ns THEN @[n] + 1 ELSE @[n]]]
  BY <1>1, <1>2 DEF Crash
<1>4. lost \in [Tickets -> [Notice -> Nat]]
  BY DEF TypeInv, TypeOK
<1>5. CASE ns = {}
  BY <1>2, <1>3, <1>4, <1>5 DEF Crash, Finish
<1>6. CASE ns # {}
  <2>1. DEFINE f == [n \in Notice |-> IF n \in ns THEN lost[t][n] + 1 ELSE lost[t][n]]
  <2>2. f \in [Notice -> Nat] /\ \A n \in Notice :
               f[n] = IF n \in ns THEN lost[t][n] + 1 ELSE lost[t][n]
    BY <1>4
  <2>3. lost' = [lost EXCEPT ![t] = f]
    BY <1>3, <1>6
  <2> HIDE DEF f
  <2>4. lost' \in [Tickets -> [Notice -> Nat]] /\ lost'[t] = f
        /\ \A u \in Tickets \ {t} : lost'[u] = lost[u]
    BY <1>4, <2>2, <2>3
  <2>5. \A u \in Tickets, n \in Notice :
                lost'[u][n] = IF u = t /\ n \in ns THEN lost[u][n] + 1 ELSE lost[u][n]
    BY <1>4, <2>2, <2>4
  <2>6. QED BY <1>1, <1>2, <2>4, <2>5 DEF Crash, Finish
<1>7. QED BY <1>5, <1>6

-------------------------------------------------------------------------------
LEMMA InitTypeInv == Init => TypeInv
<1> SUFFICES ASSUME Init PROVE TypeInv
  OBVIOUS
<1>1. \A t \in Tickets : past[t] \in SUBSET Statuses /\ IsFiniteSet(past[t])
                         /\ (t \in ticketRows => past[t] # {})
  <2>1. ASSUME NEW t \in Tickets PROVE ticket[t].status \in Statuses
    BY DEF Init, Row
  <2>2. ASSUME NEW s \in Statuses PROVE Journey[s] \in SUBSET Statuses /\ Journey[s] # {}
    BY DEF Journey, Statuses
  <2>3. IsFiniteSet(Statuses) /\ IsFiniteSet({})
    <3>1. Statuses = (((({} \cup {"open"}) \cup {"in_progress"}) \cup {"resolved"}) \cup {"closed"})
                       \cup {"reopened"}
      BY DEF Statuses
    <3>2. QED BY <3>1, FS_EmptySet, FS_AddElement
  <2>4. \A t \in Tickets : past[t] \in SUBSET Statuses /\ (t \in ticketRows => past[t] # {})
    BY <2>1, <2>2 DEF Init
  <2>5. QED BY <2>3, <2>4, FS_Subset
<1>2. ASSUME NEW t \in Tickets PROVE moves[t] \in Nat
  <2>1. moves[t] = IF t \in ticketRows THEN Cardinality(past[t]) - 1 ELSE 0
    BY DEF Init
  <2>2. t \in ticketRows => Cardinality(past[t]) \in Nat /\ Cardinality(past[t]) # 0
    BY <1>1, FS_CardinalityType, FS_EmptySet
  <2>3. QED BY <2>1, <2>2
<1>3. moves \in [Tickets -> Nat] /\ past \in [Tickets -> SUBSET Statuses]
  BY <1>1, <1>2 DEF Init
<1>4. assignments \in [Tickets -> [Members -> Nat]]
  BY DEF Init
<1>5. lost \in [Tickets -> [Notice -> Nat]]
  BY DEF Init
<1>6. told \in [Tickets -> [Notice -> Nat]]
  <2>1. ASSUME NEW t \in Tickets, NEW n \in Notice
        PROVE  (IF n[2] = "assigned" THEN assignments[t][n[1]]
                ELSE IF ticket[t].created_by = n[1] THEN moves[t] ELSE 0) \in Nat
    BY <1>3, <1>4 DEF Notice
  <2>2. QED BY <2>1 DEF Init
<1>7. req \in [Requests -> Request] /\ \A r \in Requests : req[r] = Idle
  BY Constants DEF Init
<1>8. \A r \in Requests : ReqOK(r)
  BY <1>7, Constants DEF ReqOK
<1>9. ticketRows \subseteq Tickets
  BY BoundAssumption DEF Init
<1>10. /\ ticket \in [Tickets -> Row] /\ {begun, assigns} \subseteq Nat
       /\ overlapped \in BOOLEAN
  <2>1. begun = 0 /\ assigns = 0 /\ ticket \in [Tickets -> Row]
    BY DEF Init
  <2>2. overlapped \in BOOLEAN
    BY Zenon DEF Init
  <2>3. QED BY <2>1, <2>2
<1>11. TypeOK
  BY <1>3, <1>4, <1>5, <1>6, <1>7, <1>9, <1>10 DEF TypeOK
<1>12. QED BY <1>8, <1>11 DEF TypeInv

(* A request goes on, with tickets at least as many as before.             *)
LEMMA ReqStep ==
    ASSUME TypeInv, NEW r \in Requests, NEW q \in Request, Becomes(r, q),
           ticketRows \subseteq ticketRows',
           q.pc # "idle" => q.ticket \in ticketRows',
           q.pc # "telling" => q.tell = {},
           q.pc = "moving" => q.to # Null
    PROVE  req' \in [Requests -> Request] /\ \A s \in Requests : ReqOK(s)'
<1>1. req' \in [Requests -> Request] /\ req'[r] = q /\ \A s \in Requests \ {r} : req'[s] = req[s]
  BY Moved
<1>2. ReqOK(r)'
  BY <1>1 DEF ReqOK
<1>3. ASSUME NEW s \in Requests \ {r} PROVE ReqOK(s)'
  BY <1>1 DEF ReqOK, TypeInv
<1>4. QED BY <1>1, <1>2, <1>3

LEMMA IdleStep ==
    ASSUME TypeInv, NEW r \in Requests, Becomes(r, Idle), ticketRows' = ticketRows
    PROVE  req' \in [Requests -> Request] /\ \A s \in Requests : ReqOK(s)'
BY ReqStep, Constants

LEMMA TypeStep == TypeInv /\ [Next]_vars => TypeInv'
<1> SUFFICES ASSUME TypeInv, [Next]_vars PROVE TypeInv'
  OBVIOUS
<1> USE Constants
<1>1. ASSUME NEW r \in Requests, Beside(r) PROVE overlapped' \in BOOLEAN
  BY <1>1 DEF Beside
<1>2. ASSUME NEW r \in Requests, Beside(r), NEW t \in Tickets, NEW m \in Members,
             NEW a \in Members \cup {Null}, Create(r, t, m, a)
      PROVE  TypeInv'
  <2>1. req' \in [Requests -> Request] /\ \A s \in Requests : ReqOK(s)'
    <3>1. CASE req' = req
      BY <1>2, <3>1, CreateFacts DEF TypeInv, TypeOK, ReqOK
    <3>2. CASE a \in Members /\ Becomes(r, Telling(t, {<<a, "assigned">>}))
      <4>1. {<<a, "assigned">>} \in SUBSET Notice
        BY <3>2 DEF Notice
      <4>2. ticketRows' = ticketRows \cup {t}
        BY <1>2, CreateFacts
      <4>3. QED BY <3>2, <4>1, <4>2, ReqStep, TellingType
    <3>3. QED BY <1>2, <3>1, <3>2, CreateReq
  <2>2. assignments' \in [Tickets -> [Members -> Nat]]
    <3>1. CASE assignments' = assignments
      BY <3>1 DEF TypeInv, TypeOK
    <3>2. CASE a \in Members /\ assignments' = [assignments EXCEPT ![t][a] = @ + 1]
      BY <3>2, Counted
    <3>3. QED BY <1>2, <3>1, <3>2, CreateReq
  <2>3. QED BY <1>1, <1>2, <2>1, <2>2, CreateFacts DEF TypeInv, TypeOK
<1>3. ASSUME NEW r \in Requests, Beside(r), NEW t \in Tickets, NEW m \in Members,
             NEW a \in Members \cup {Null}, NEW to \in Statuses \cup {Null}, NEW names \in BOOLEAN,
             BeginPatch(r, t, m, names, a, to)
      PROVE  TypeInv'
  <2>1. PICK q \in Request :
           /\ Becomes(r, q) /\ q.pc \in {"saving", "moving"} /\ q.ticket = t /\ q.tell = {}
           /\ q.pc = "moving" => q.to # Null
    BY <1>3, BeginPatchFacts
  <2>2. t \in ticketRows /\ begun' \in Nat /\ assigns' \in Nat
        /\ UNCHANGED <<table, told, history, lost>>
    BY <1>3, BeginPatchFacts
  <2>3. req' \in [Requests -> Request] /\ \A s \in Requests : ReqOK(s)'
    BY <2>1, <2>2, ReqStep DEF table
  <2>4. QED BY <1>1, <1>3, <2>2, <2>3 DEF TypeInv, TypeOK, table, history
<1>4. ASSUME NEW r \in Requests, Beside(r), SaveFields(r) PROVE TypeInv'
  <2>1. /\ ticket' \in [Tickets -> Row] /\ req[r].ticket \in ticketRows
        /\ UNCHANGED <<ticketRows, told, begun, assigns, past, moves, lost>>
    BY <1>4, SaveFieldsFacts
  <2>2. PICK q \in Request :
           /\ q.to = req[r].to /\ q.ticket = req[r].ticket
           /\ q.copy.status = req[r].copy.status /\ q.copy.created_by = req[r].copy.created_by
           /\ \/ Becomes(r, AfterTelling(q)) /\ assignments' = assignments
              \/ \E a \in Members :
                   /\ q.pc = "telling" /\ q.tell = {<<a, "assigned">>}
                   /\ <<a, "assigned">> \in Notice
                   /\ Becomes(r, q)
                   /\ assignments' = [assignments EXCEPT ![req[r].ticket][a] = @ + 1]
    BY <1>4, SaveFieldsFacts, Zenon
  <2>3. CASE Becomes(r, AfterTelling(q)) /\ assignments' = assignments
    <3>1. PICK p \in Request : p = AfterTelling(q)
      BY AfterTellingType
    <3>2. p = Idle \/ (p.pc = "moving" /\ p.to # Null /\ p.ticket = q.ticket /\ p.tell = {})
      BY <3>1, AfterTellingType
    <3>3. req' \in [Requests -> Request] /\ \A s \in Requests : ReqOK(s)'
      BY <2>1, <2>2, <2>3, <3>1, <3>2, ReqStep
    <3>4. QED BY <1>1, <1>4, <2>1, <2>3, <3>3 DEF TypeInv, TypeOK
  <2>4. ASSUME NEW a \in Members, q.pc = "telling", Becomes(r, q),
               assignments' = [assignments EXCEPT ![req[r].ticket][a] = @ + 1]
        PROVE  TypeInv'
    <3>1. req' \in [Requests -> Request] /\ \A s \in Requests : ReqOK(s)'
      BY <2>1, <2>2, <2>4, ReqStep
    <3>2. PICK t \in Tickets : t = req[r].ticket
      BY <2>1, Working
    <3>3. assignments' \in [Tickets -> [Members -> Nat]]
      BY <2>4, <3>2, Counted
    <3>4. QED BY <1>1, <1>4, <2>1, <3>1, <3>3 DEF TypeInv, TypeOK
  <2>5. QED BY <2>2, <2>3, <2>4
<1>5. ASSUME NEW r \in Requests, Beside(r), Move(r) PROVE TypeInv'
  <2>1. PICK t \in Tickets :
           /\ t \in ticketRows /\ ticket' \in [Tickets -> Row]
           /\ past' \in [Tickets -> SUBSET Statuses]
           /\ moves' \in [Tickets -> Nat]
           /\ Recipients(req[r].copy) \X {"status"} \in SUBSET Notice
           /\ Becomes(r, Telling(t, Recipients(req[r].copy) \X {"status"}))
           /\ UNCHANGED <<ticketRows, told, begun, assigns, assignments, lost>>
    BY <1>5, MoveFacts
  <2>2. req' \in [Requests -> Request] /\ \A s \in Requests : ReqOK(s)'
    BY <2>1, ReqStep, TellingType
  <2>3. QED BY <1>1, <1>5, <2>1, <2>2 DEF TypeInv, TypeOK
<1>6. ASSUME NEW r \in Requests, Beside(r), RefuseMove(r) PROVE TypeInv'
  BY <1>1, <1>6, IdleStep DEF RefuseMove, Finish, table, history, TypeInv, TypeOK
<1>7. ASSUME NEW r \in Requests, Beside(r), Tell(r) PROVE TypeInv'
  <2>1. PICK t \in Tickets, n \in req[r].tell, q \in Request :
           /\ t \in ticketRows /\ n \in Notice
           /\ told' = [told EXCEPT ![t][n] = @ + 1]
           /\ Becomes(r, q)
           /\ \/ q = Idle
              \/ /\ q.ticket = t
                 /\ q.pc = "telling" \/ (q.pc = "moving" /\ q.to # Null /\ q.tell = {})
           /\ UNCHANGED <<table, begun, assigns, history, lost>>
    BY <1>7, TellFacts
  <2>2. req' \in [Requests -> Request] /\ \A s \in Requests : ReqOK(s)'
    BY <2>1, ReqStep DEF table
  <2>3. told' \in [Tickets -> [Notice -> Nat]]
    BY <2>1, Noticed
  <2>4. QED BY <1>1, <1>7, <2>1, <2>2, <2>3 DEF TypeInv, TypeOK, table, history
<1>8. ASSUME NEW r \in Requests, Beside(r), NEW t \in Tickets, NEW m \in Members, BeginDelete(r, t, m)
      PROVE  TypeInv'
  <2>1. PICK q \in Request : Becomes(r, q) /\ q.pc = "deleting" /\ q.ticket = t /\ q.tell = {}
    BY <1>8, BeginDeleteFacts
  <2>2. t \in ticketRows /\ begun' \in Nat /\ UNCHANGED <<table, told, assigns, history, lost>>
    BY <1>8, BeginDeleteFacts
  <2>3. req' \in [Requests -> Request] /\ \A s \in Requests : ReqOK(s)'
    BY <2>1, <2>2, ReqStep DEF table
  <2>4. QED BY <1>1, <1>8, <2>2, <2>3 DEF TypeInv, TypeOK, table, history
<1>9. ASSUME NEW r \in Requests, Beside(r), Delete(r) PROVE TypeInv'
  BY <1>1, <1>9, DeleteFacts, IdleStep DEF history, TypeInv, TypeOK
<1>10. ASSUME NEW r \in Requests, Beside(r), NEW t \in Tickets, Restore(r, t) PROVE TypeInv'
  BY <1>1, <1>10, RestoreFacts DEF history, TypeInv, TypeOK, ReqOK
<1>11. ASSUME NEW r \in Requests, Beside(r), Crash(r) PROVE TypeInv'
  BY <1>1, <1>11, CrashFacts, IdleStep DEF table, history, TypeInv, TypeOK
<1>12. CASE UNCHANGED vars
  BY <1>12 DEF vars, TypeInv, TypeOK, ReqOK
<1>13. QED
  BY <1>2, <1>3, <1>4, <1>5, <1>6, <1>7, <1>8, <1>9, <1>10, <1>11, <1>12 DEF Next, Serve

(* Rows, requests, notices and counters stay within their types.           *)
THEOREM TypeCorrect == Spec => []TypeOK
<1>1. TypeInv => TypeOK
  BY DEF TypeInv
<1>2. QED BY InitTypeInv, TypeStep, <1>1, PTL DEF Spec

-------------------------------------------------------------------------------
(* The account of a notice: written, due or swallowed.                     *)
Waits(r, t, n) == req[r].ticket = t /\ n \in req[r].tell
Account(t, n)  == told[t][n] + Due(t, n) + lost[t][n]

LEMMA DueType ==
    ASSUME NEW t, NEW n
    PROVE  /\ Due(t, n) = Cardinality({r \in Requests : Waits(r, t, n)})
           /\ IsFiniteSet({r \in Requests : Waits(r, t, n)})
           /\ Due(t, n) \in Nat
<1>1. {r \in Requests : Waits(r, t, n)} \subseteq Requests
  OBVIOUS
<1>2. Due(t, n) = Cardinality({r \in Requests : Waits(r, t, n)})
  BY DEF Due, Waits
<1>3. IsFiniteSet({r \in Requests : Waits(r, t, n)})
  BY <1>1, RequestAssumption, FS_Subset
<1>4. QED BY <1>2, <1>3, FS_CardinalityType

(* Only r goes on: the notices due change by its own.                      *)
LEMMA DueStep ==
    ASSUME NEW r \in Requests, \A s \in Requests \ {r} : req'[s] = req[s], NEW t, NEW n
    PROVE  /\ Due(t, n)' \in Nat /\ Due(t, n) \in Nat
           /\ (Waits(r, t, n) <=> Waits(r, t, n)') => Due(t, n)' = Due(t, n)
           /\ ~Waits(r, t, n) /\ Waits(r, t, n)' => Due(t, n)' = Due(t, n) + 1
           /\ Waits(r, t, n) /\ ~Waits(r, t, n)' => Due(t, n)' = Due(t, n) - 1
<1> DEFINE S == {s \in Requests : Waits(s, t, n)}
           T == {s \in Requests : Waits(s, t, n)'}
<1>1. Due(t, n) = Cardinality(S) /\ IsFiniteSet(S) /\ Due(t, n) \in Nat
  BY DueType
<1>2. Due(t, n)' = Cardinality(T)
  BY DEF Due, Waits
<1>3. \A s \in Requests \ {r} : s \in S <=> s \in T
  BY DEF Waits
<1>4. /\ S \subseteq Requests /\ T \subseteq Requests
      /\ r \in S <=> Waits(r, t, n)
      /\ r \in T <=> Waits(r, t, n)'
  OBVIOUS
<1> HIDE DEF S, T
<1>5. CASE Waits(r, t, n) <=> Waits(r, t, n)'
  <2>1. S = T
    BY <1>3, <1>4, <1>5
  <2>2. QED BY <1>1, <1>2, <1>5, <2>1
<1>6. CASE ~Waits(r, t, n) /\ Waits(r, t, n)'
  <2>1. T = S \cup {r} /\ r \notin S
    BY <1>3, <1>4, <1>6
  <2>2. Cardinality(T) = Cardinality(S) + 1
    BY <1>1, <2>1, FS_AddElement
  <2>3. QED BY <1>1, <1>2, <1>6, <2>2
<1>7. CASE Waits(r, t, n) /\ ~Waits(r, t, n)'
  <2>1. T = S \ {r} /\ r \in S
    BY <1>3, <1>4, <1>7
  <2>2. Cardinality(T) = Cardinality(S) - 1 /\ IsFiniteSet(T)
    BY <1>1, <2>1, FS_RemoveElement
  <2>3. Cardinality(T) \in Nat
    BY <2>2, FS_CardinalityType
  <2>4. QED BY <1>1, <1>2, <1>7, <2>2, <2>3
<1>8. QED BY <1>5, <1>6, <1>7

LEMMA AccountType ==
    ASSUME TypeInv, NEW t \in Tickets, NEW n \in Notice
    PROVE  /\ told[t][n] \in Nat /\ lost[t][n] \in Nat /\ Due(t, n) \in Nat
           /\ Account(t, n) \in Nat
<1>1. told[t][n] \in Nat /\ lost[t][n] \in Nat
  BY DEF TypeInv, TypeOK
<1>2. Due(t, n) \in Nat
  BY DueType
<1>3. QED BY <1>1, <1>2 DEF Account

(* r has nothing to tell and takes up nothing: no account moves.           *)
LEMMA Silent ==
    ASSUME TypeInv, NEW r \in Requests, NEW q \in Request, Becomes(r, q),
           req[r].tell = {}, q.tell = {}, UNCHANGED <<told, lost>>
    PROVE  \A t \in Tickets, n \in Notice : Account(t, n)' = Account(t, n)
<1>1. req'[r] = q /\ \A s \in Requests \ {r} : req'[s] = req[s]
  BY Moved
<1>2. ASSUME NEW t \in Tickets, NEW n \in Notice PROVE Account(t, n)' = Account(t, n)
  <2>1. ~Waits(r, t, n) /\ ~Waits(r, t, n)'
    BY <1>1 DEF Waits
  <2>2. Due(t, n)' = Due(t, n)
    BY <1>1, <2>1, DueStep
  <2>3. QED BY <2>2 DEF Account
<1>3. QED BY <1>2

(* r takes up notices about u.                                             *)
LEMMA TakesUp ==
    ASSUME TypeInv, NEW r \in Requests, NEW q \in Request, Becomes(r, q),
           NEW u \in Tickets, req[r].tell = {}, q.ticket = u,
           UNCHANGED <<told, lost>>
    PROVE  \A t \in Tickets, n \in Notice :
             Account(t, n)' = IF t = u /\ n \in q.tell THEN Account(t, n) + 1 ELSE Account(t, n)
<1>1. req'[r] = q /\ \A s \in Requests \ {r} : req'[s] = req[s]
  BY Moved
<1>2. ASSUME NEW t \in Tickets, NEW n \in Notice
      PROVE  Account(t, n)' = IF t = u /\ n \in q.tell THEN Account(t, n) + 1 ELSE Account(t, n)
  <2>1. ~Waits(r, t, n) /\ (Waits(r, t, n)' <=> t = u /\ n \in q.tell)
    BY <1>1 DEF Waits
  <2>2. Due(t, n)' = IF t = u /\ n \in q.tell THEN Due(t, n) + 1 ELSE Due(t, n)
    BY <1>1, <2>1, DueStep
  <2>3. QED BY <2>2, AccountType DEF Account
<1>3. QED BY <1>2

(* Telling and crashing move a notice from one side of the account to the  *)
(* other.                                                                  *)
LEMMA TellAccount ==
    ASSUME TypeInv, NEW r \in Requests, Tell(r)
    PROVE  \A t \in Tickets, n \in Notice : Account(t, n)' = Account(t, n)
<1>1. PICK u \in Tickets, m \in req[r].tell, q \in Request :
           /\ u = req[r].ticket /\ m \in Notice
           /\ told' = [told EXCEPT ![u][m] = @ + 1]
           /\ Becomes(r, q) /\ q.tell = req[r].tell \ {m}
           /\ q = Idle \/ q.ticket = u
           /\ UNCHANGED lost
  BY TellFacts DEF history
<1>2. req'[r] = q /\ \A s \in Requests \ {r} : req'[s] = req[s]
  BY <1>1, Moved
<1>3. ASSUME NEW t \in Tickets, NEW n \in Notice PROVE Account(t, n)' = Account(t, n)
  <2>1. told[t][n] \in Nat /\ lost[t][n] \in Nat
    BY AccountType
  <2>2. CASE t = u /\ n = m
    <3>1. told'[t][n] = told[t][n] + 1
      BY <1>1, <2>2, Noticed
    <3>2. Waits(r, t, n) /\ ~Waits(r, t, n)'
      BY <1>1, <1>2, <2>2 DEF Waits
    <3>3. Due(t, n)' = Due(t, n) - 1 /\ Due(t, n) \in Nat
      BY <1>2, <3>2, DueStep
    <3>4. QED BY <1>1, <2>1, <3>1, <3>3 DEF Account
  <2>3. CASE ~(t = u /\ n = m)
    <3>1. told'[t][n] = told[t][n]
      BY <1>1, <2>3, Noticed
    <3>2. Waits(r, t, n) <=> Waits(r, t, n)'
      BY <1>1, <1>2, <2>3, Constants DEF Waits
    <3>3. Due(t, n)' = Due(t, n)
      BY <1>2, <3>2, DueStep
    <3>4. QED BY <1>1, <3>1, <3>3 DEF Account
  <2>4. QED BY <2>2, <2>3
<1>4. QED BY <1>3

LEMMA CrashAccount ==
    ASSUME TypeInv, NEW r \in Requests, Crash(r)
    PROVE  \A t \in Tickets, n \in Notice : Account(t, n)' = Account(t, n)
<1>1. /\ \A u \in Tickets, n \in Notice :
           lost'[u][n] = IF u = req[r].ticket /\ n \in req[r].tell THEN lost[u][n] + 1
                         ELSE lost[u][n]
      /\ Becomes(r, Idle) /\ UNCHANGED told
  BY CrashFacts
<1>2. req'[r] = Idle /\ \A s \in Requests \ {r} : req'[s] = req[s]
  BY <1>1, Moved, Constants
<1>3. ASSUME NEW t \in Tickets, NEW n \in Notice PROVE Account(t, n)' = Account(t, n)
  <2>1. ~Waits(r, t, n)'
    BY <1>2, Constants DEF Waits
  <2>2. /\ Due(t, n)' = IF Waits(r, t, n) THEN Due(t, n) - 1 ELSE Due(t, n)
        /\ Due(t, n) \in Nat
    BY <1>2, <2>1, DueStep
  <2>3. lost'[t][n] = IF Waits(r, t, n) THEN lost[t][n] + 1 ELSE lost[t][n]
    BY <1>1 DEF Waits
  <2>4. told[t][n] \in Nat /\ lost[t][n] \in Nat
    BY AccountType
  <2>5. QED BY <1>1, <2>2, <2>3, <2>4 DEF Account
<1>4. QED BY <1>3

-------------------------------------------------------------------------------
(* r will move its ticket, or may, and tell the creator its copy names.    *)
Carries(r) == \/ req[r].pc \in {"saving", "moving"}
              \/ req[r].pc = "telling" /\ req[r].to # Null

CreatorOK(r) == Carries(r) => req[r].copy.created_by = ticket[req[r].ticket].created_by

(* The accounts of ticket t are balanced.                                  *)
Bookkept(t) ==
    /\ \A m \in Members : Account(t, <<m, "assigned">>) = assignments[t][m]
    /\ t \in ticketRows => /\ ticket[t].created_by \in Members
                           /\ Account(t, <<ticket[t].created_by, "status">>) = moves[t]
    /\ t \notin ticketRows => /\ moves[t] = 0
                              /\ \A m \in Members : Account(t, <<m, "status">>) = 0

BookInv ==
    /\ TypeInv
    /\ \A t \in Tickets : Bookkept(t)
    /\ \A r \in Requests : CreatorOK(r)

LEMMA NoticeMembers ==
    ASSUME NEW m \in Members
    PROVE  <<m, "assigned">> \in Notice /\ <<m, "status">> \in Notice
BY DEF Notice

(* Nothing happens that is told, and tickets keep their creators.          *)
LEMMA BooksStay ==
    ASSUME BookInv, \A t \in Tickets, n \in Notice : Account(t, n)' = Account(t, n),
           UNCHANGED <<ticketRows, assignments, moves>>,
           \A t \in Tickets : ticket'[t].created_by = ticket[t].created_by
    PROVE  \A t \in Tickets : Bookkept(t)'
<1> SUFFICES ASSUME NEW t \in Tickets PROVE Bookkept(t)'
  OBVIOUS
<1>1. Bookkept(t)
  BY DEF BookInv
<1>2. \A m \in Members : /\ Account(t, <<m, "assigned">>)' = Account(t, <<m, "assigned">>)
                          /\ Account(t, <<m, "status">>)' = Account(t, <<m, "status">>)
  BY NoticeMembers
<1>3. QED BY <1>1, <1>2 DEF Bookkept

LEMMA CreatorStays ==
    ASSUME BookInv, NEW s \in Requests, req'[s] = req[s],
           \A t \in ticketRows : ticket'[t].created_by = ticket[t].created_by
    PROVE  CreatorOK(s)'
<1>1. CreatorOK(s) /\ (req[s].pc # "idle" => req[s].ticket \in ticketRows)
  BY Working DEF BookInv
<1>2. Carries(s) => req[s].pc # "idle"
  BY DEF Carries
<1>3. QED BY <1>1, <1>2 DEF CreatorOK, Carries

LEMMA InitBookInv == Init => BookInv
<1> SUFFICES ASSUME Init PROVE BookInv
  OBVIOUS
<1>1. TypeInv
  BY InitTypeInv
<1>2. ASSUME NEW r \in Requests PROVE CreatorOK(r)
  <2>1. req[r] = Idle
    BY DEF Init
  <2>2. QED BY <2>1, Constants DEF CreatorOK, Carries
<1>3. ASSUME NEW t \in Tickets, NEW n \in Notice PROVE Account(t, n) = told[t][n]
  <2>1. {r \in Requests : Waits(r, t, n)} = {}
    BY Constants DEF Init, Waits
  <2>2. Due(t, n) = 0
    BY <2>1, DueType, FS_EmptySet
  <2>3. lost[t][n] = 0 /\ told[t][n] \in Nat
    BY <1>1, AccountType DEF Init
  <2>4. QED BY <2>2, <2>3 DEF Account
<1>4. ASSUME NEW t \in Tickets, NEW m \in Members
      PROVE  /\ told[t][<<m, "assigned">>] = assignments[t][m]
             /\ told[t][<<m, "status">>] = IF ticket[t].created_by = m THEN moves[t] ELSE 0
  BY NoticeMembers DEF Init
<1>5. ASSUME NEW t \in Tickets PROVE Bookkept(t)
  <2>1. ASSUME NEW m \in Members PROVE Account(t, <<m, "assigned">>) = assignments[t][m]
    <3>1. Account(t, <<m, "assigned">>) = told[t][<<m, "assigned">>]
      BY <1>3, NoticeMembers
    <3>2. QED BY <1>4, <3>1
  <2>2. ASSUME NEW m \in Members
        PROVE  Account(t, <<m, "status">>) = IF ticket[t].created_by = m THEN moves[t] ELSE 0
    <3>1. Account(t, <<m, "status">>) = told[t][<<m, "status">>]
      BY <1>3, NoticeMembers
    <3>2. QED BY <1>4, <3>1
  <2>3. t \in ticketRows => ticket[t].created_by \in Members
    BY DEF Init, Writers
  <2>4. t \notin ticketRows => moves[t] = 0 /\ ticket[t].created_by = Null
    BY Constants DEF Init
  <2>5. QED BY <2>1, <2>2, <2>3, <2>4, Constants DEF Bookkept
<1>6. QED BY <1>1, <1>2, <1>5 DEF BookInv

(* A ticket is given to somebody: one account of his moves.                *)
LEMMA AssignmentBooked ==
    ASSUME BookInv, NEW u \in Tickets, NEW a \in Members,
           assignments' = [assignments EXCEPT ![u][a] = @ + 1],
           \A t \in Tickets, n \in Notice :
             Account(t, n)' = IF t = u /\ n \in {<<a, "assigned">>} THEN Account(t, n) + 1
                              ELSE Account(t, n),
           NEW t \in Tickets
    PROVE  /\ \A m \in Members : Account(t, <<m, "assigned">>)' = assignments'[t][m]
           /\ \A m \in Members : Account(t, <<m, "status">>)' = Account(t, <<m, "status">>)
<1>1. ASSUME NEW m \in Members
      PROVE  /\ Account(t, <<m, "assigned">>)' = assignments'[t][m]
             /\ Account(t, <<m, "status">>)' = Account(t, <<m, "status">>)
  <2>1. /\ Account(t, <<m, "assigned">>) = assignments[t][m]
        /\ <<m, "assigned">> \in Notice /\ <<m, "status">> \in Notice
    BY NoticeMembers DEF BookInv, Bookkept
  <2>2. Account(t, <<m, "status">>)' = Account(t, <<m, "status">>)
    BY <2>1
  <2>3. CASE t = u /\ m = a
    <3>1. Account(t, <<m, "assigned">>)' = Account(t, <<m, "assigned">>) + 1
      BY <2>1, <2>3
    <3>2. assignments'[t][m] = assignments[t][m] + 1
      BY <2>3, Counted DEF BookInv
    <3>3. QED BY <2>1, <2>2, <3>1, <3>2
  <2>4. CASE ~(t = u /\ m = a)
    <3>1. Account(t, <<m, "assigned">>)' = Account(t, <<m, "assigned">>)
      BY <2>1, <2>4
    <3>2. assignments'[t][m] = assignments[t][m]
      BY <2>4, Counted DEF BookInv
    <3>3. QED BY <2>1, <2>2, <3>1, <3>2
  <2>5. QED BY <2>3, <2>4
<1>2. QED BY <1>1

LEMMA CreateBooks ==
    ASSUME BookInv, NEW r \in Requests, NEW t \in Tickets, NEW m \in Members,
           NEW a \in Members \cup {Null}, Create(r, t, m, a)
    PROVE  (\A u \in Tickets : Bookkept(u)') /\ (\A s \in Requests : CreatorOK(s)')
<1>0. TypeInv /\ \A u \in Tickets : Bookkept(u)
  BY DEF BookInv
<1>1. /\ t \notin ticketRows /\ ticketRows' = ticketRows \cup {t}
      /\ ticket'[t].created_by = m
      /\ \A u \in Tickets \ {t} : ticket'[u] = ticket[u]
      /\ req[r].pc = "idle"
      /\ UNCHANGED <<told, moves, lost>>
  BY <1>0, CreateFacts
<1>2. req[r].tell = {}
  BY <1>0, <1>1, Working
<1>3. /\ \A u \in Tickets, n \in Members : Account(u, <<n, "assigned">>)' = assignments'[u][n]
      /\ \A u \in Tickets, n \in Members :
           Account(u, <<n, "status">>)' = Account(u, <<n, "status">>)
  <2>1. CASE req' = req /\ assignments' = assignments
    <3>1. \A u \in Tickets, n \in Notice : Account(u, n)' = Account(u, n)
      BY <1>1, <2>1 DEF Account, Due
    <3>2. ASSUME NEW u \in Tickets, NEW n \in Members
          PROVE  /\ Account(u, <<n, "assigned">>)' = assignments'[u][n]
                 /\ Account(u, <<n, "status">>)' = Account(u, <<n, "status">>)
      <4>1. Account(u, <<n, "assigned">>) = assignments[u][n]
        BY <1>0 DEF Bookkept
      <4>2. QED BY <2>1, <3>1, <4>1, NoticeMembers
    <3>3. QED BY <3>2
  <2>2. CASE /\ a \in Members /\ Becomes(r, Telling(t, {<<a, "assigned">>}))
             /\ <<a, "assigned">> \in Notice
             /\ assignments' = [assignments EXCEPT ![t][a] = @ + 1]
    <3>1. PICK q \in Request : /\ q = Telling(t, {<<a, "assigned">>})
                               /\ q.ticket = t /\ q.tell = {<<a, "assigned">>}
      BY <2>2, TellingType
    <3>2. \A u \in Tickets, n \in Notice :
             Account(u, n)' = IF u = t /\ n \in {<<a, "assigned">>} THEN Account(u, n) + 1
                              ELSE Account(u, n)
      <4>1. Becomes(r, q) /\ UNCHANGED <<told, lost>>
        BY <1>1, <2>2, <3>1
      <4>2. \A u \in Tickets, n \in Notice :
              Account(u, n)' = IF u = t /\ n \in q.tell THEN Account(u, n) + 1
                               ELSE Account(u, n)
        BY <1>0, <1>2, <3>1, <4>1, TakesUp
      <4>3. QED BY <3>1, <4>2
    <3>3. ASSUME NEW u \in Tickets
          PROVE  /\ \A n \in Members : Account(u, <<n, "assigned">>)' = assignments'[u][n]
                 /\ \A n \in Members :
                      Account(u, <<n, "status">>)' = Account(u, <<n, "status">>)
      BY <2>2, <3>2, AssignmentBooked
    <3>4. QED BY <3>3
  <2>3. \/ a = Null /\ req' = req /\ assignments' = assignments
        \/ /\ a \in Members /\ Becomes(r, Telling(t, {<<a, "assigned">>}))
           /\ <<a, "assigned">> \in Notice
           /\ assignments' = [assignments EXCEPT ![t][a] = @ + 1]
    <3>1. CASE a = Null
      BY <3>1 DEF Create
    <3>2. CASE a # Null
      BY <3>2 DEF Create, Notice
    <3>3. QED BY <3>1, <3>2
  <2>4. QED BY <2>1, <2>2, <2>3
<1>4. ASSUME NEW u \in Tickets PROVE Bookkept(u)'
  <2>1. CASE u = t
    <3>1. moves[t] = 0 /\ \A n \in Members : Account(t, <<n, "status">>) = 0
      BY <1>0, <1>1 DEF Bookkept
    <3>2. moves'[t] = 0 /\ t \in ticketRows' /\ ticket'[t].created_by = m
      BY <1>1, <3>1
    <3>3. Account(t, <<m, "status">>)' = 0
      BY <1>3, <3>1
    <3>4. QED BY <1>3, <2>1, <3>2, <3>3 DEF Bookkept
  <2>2. CASE u # t
    BY <1>0, <1>1, <1>3, <2>2 DEF Bookkept
  <2>3. QED BY <2>1, <2>2
<1>5. ASSUME NEW s \in Requests PROVE CreatorOK(s)'
  <2>1. CASE req'[s] = req[s]
    BY <1>0, <1>1, <2>1, Working, CreatorStays
  <2>2. CASE req'[s] # req[s]
    <3>1. req'[s].pc = "telling" /\ req'[s].to = Null
      <4>1. CASE a = Null
        BY <1>0, <2>2, <4>1, CreateReq, Constants
      <4>2. CASE a # Null
        <5>1. Becomes(r, Telling(t, {<<a, "assigned">>})) /\ {<<a, "assigned">>} \in SUBSET Notice
          BY <1>0, <4>2, CreateReq
        <5>2. PICK q \in Request : /\ q = Telling(t, {<<a, "assigned">>})
                                   /\ q.pc = "telling" /\ q.to = Null
          BY <5>1, TellingType
        <5>3. QED BY <1>0, <2>2, <5>1, <5>2, Moved
      <4>3. QED BY <4>1, <4>2
    <3>2. QED BY <3>1 DEF CreatorOK, Carries
  <2>3. QED BY <2>1, <2>2
<1>6. QED BY <1>4, <1>5
LEMMA SaveFieldsBooks ==
    ASSUME BookInv, NEW r \in Requests, SaveFields(r)
    PROVE  (\A u \in Tickets : Bookkept(u)') /\ (\A s \in Requests : CreatorOK(s)')
<1>0. TypeInv /\ (\A u \in Tickets : Bookkept(u)) /\ CreatorOK(r)
  BY DEF BookInv
<1>1. /\ req[r].pc = "saving" /\ req[r].ticket \in ticketRows
      /\ \A u \in Tickets : ticket'[u].created_by = ticket[u].created_by
      /\ UNCHANGED <<ticketRows, told, moves, lost>>
  BY <1>0, SaveFieldsFacts
<1>2. PICK q \in Request :
         /\ q.to = req[r].to /\ q.ticket = req[r].ticket
         /\ q.copy.status = req[r].copy.status /\ q.copy.created_by = req[r].copy.created_by
         /\ \/ Becomes(r, AfterTelling(q)) /\ assignments' = assignments
            \/ \E a \in Members :
                 /\ q.pc = "telling" /\ q.tell = {<<a, "assigned">>}
                 /\ <<a, "assigned">> \in Notice
                 /\ Becomes(r, q)
                 /\ assignments' = [assignments EXCEPT ![req[r].ticket][a] = @ + 1]
  BY <1>0, SaveFieldsFacts, Zenon
<1>3. PICK t \in Tickets : t = req[r].ticket /\ req[r].tell = {}
  BY <1>0, <1>1, Working
<1>4. q.copy.created_by = ticket'[t].created_by
  BY <1>0, <1>1, <1>2, <1>3 DEF CreatorOK, Carries
<1>5. ASSUME NEW s \in Requests, req'[s] = req[s] PROVE CreatorOK(s)'
  BY <1>0, <1>1, <1>5, Working, CreatorStays
<1>6. ASSUME NEW p \in Request, Becomes(r, p), p.ticket = t, p.copy = q.copy
      PROVE  \A s \in Requests : CreatorOK(s)'
  <2>1. req'[r] = p /\ \A s \in Requests \ {r} : req'[s] = req[s]
    BY <1>0, <1>6, Moved
  <2>2. CreatorOK(r)'
    BY <1>4, <1>6, <2>1 DEF CreatorOK
  <2>3. QED BY <1>5, <2>1, <2>2
<1>7. CASE Becomes(r, AfterTelling(q)) /\ assignments' = assignments
  <2>1. PICK p \in Request : p = AfterTelling(q) /\ p.tell = {}
    BY AfterTellingType
  <2>2. Becomes(r, p)
    BY <1>7, <2>1
  <2>3. \A u \in Tickets : Bookkept(u)'
    <3>1. \A u \in Tickets, n \in Notice : Account(u, n)' = Account(u, n)
      BY <1>0, <1>1, <1>3, <2>1, <2>2, Silent
    <3>2. QED BY <1>1, <1>7, <3>1, BooksStay
  <2>4. CASE q.to # Null
    <3>1. p.ticket = t /\ p.copy = q.copy
      BY <1>2, <1>3, <2>1, <2>4, AfterTellingType
    <3>2. QED BY <1>6, <2>2, <2>3, <3>1
  <2>5. CASE q.to = Null
    <3>1. Becomes(r, Idle)
      BY <2>1, <2>2, <2>5, AfterTellingType
    <3>2. req'[r].pc = "idle" /\ \A s \in Requests \ {r} : req'[s] = req[s]
      BY <1>0, <3>1, Moved, Constants
    <3>3. CreatorOK(r)'
      BY <3>2 DEF CreatorOK, Carries
    <3>4. QED BY <1>5, <2>3, <3>2, <3>3
  <2>6. QED BY <2>4, <2>5
<1>8. ASSUME NEW a \in Members, q.pc = "telling", q.tell = {<<a, "assigned">>}, Becomes(r, q),
             assignments' = [assignments EXCEPT ![req[r].ticket][a] = @ + 1]
      PROVE  (\A u \in Tickets : Bookkept(u)') /\ (\A s \in Requests : CreatorOK(s)')
  <2>1. \A u \in Tickets, n \in Notice :
           Account(u, n)' = IF u = t /\ n \in {<<a, "assigned">>} THEN Account(u, n) + 1
                            ELSE Account(u, n)
    <3>1. \A u \in Tickets, n \in Notice :
             Account(u, n)' = IF u = t /\ n \in q.tell THEN Account(u, n) + 1 ELSE Account(u, n)
      BY <1>0, <1>1, <1>2, <1>3, <1>8, TakesUp
    <3>2. QED BY <1>8, <3>1
  <2>2. ASSUME NEW u \in Tickets PROVE Bookkept(u)'
    <3>1. assignments' = [assignments EXCEPT ![t][a] = @ + 1]
      BY <1>3, <1>8
    <3>2. /\ \A m \in Members : Account(u, <<m, "assigned">>)' = assignments'[u][m]
          /\ \A m \in Members : Account(u, <<m, "status">>)' = Account(u, <<m, "status">>)
      BY <2>1, <3>1, AssignmentBooked
    <3>3. QED BY <1>0, <1>1, <3>2 DEF Bookkept
  <2>3. QED BY <1>2, <1>3, <1>6, <1>8, <2>2
<1>9. QED BY <1>2, <1>7, <1>8

LEMMA MoveBooks ==
    ASSUME BookInv, NEW r \in Requests, Move(r)
    PROVE  (\A u \in Tickets : Bookkept(u)') /\ (\A s \in Requests : CreatorOK(s)')
<1>0. TypeInv /\ (\A u \in Tickets : Bookkept(u)) /\ CreatorOK(r)
  BY DEF BookInv
<1> DEFINE ns == Recipients(req[r].copy) \X {"status"}
<1>1. PICK t \in Tickets :
           /\ req[r].pc = "moving" /\ t = req[r].ticket /\ t \in ticketRows
           /\ ticket'[t].created_by = ticket[t].created_by
           /\ \A u \in Tickets \ {t} : ticket'[u] = ticket[u]
           /\ moves' \in [Tickets -> Nat] /\ moves'[t] = moves[t] + 1
           /\ \A u \in Tickets \ {t} : moves'[u] = moves[u]
           /\ ns \in SUBSET Notice
           /\ Becomes(r, Telling(t, ns))
           /\ UNCHANGED <<ticketRows, told, assignments, lost>>
  BY <1>0, MoveFacts
<1>2. \A u \in Tickets : ticket'[u].created_by = ticket[u].created_by
  BY <1>1
<1>3. PICK q \in Request : /\ q = Telling(t, ns) /\ q.pc = "telling" /\ q.ticket = t
                           /\ q.tell = ns /\ q.to = Null
  BY <1>1, TellingType
<1>4. Becomes(r, q) /\ req[r].tell = {}
  BY <1>0, <1>1, <1>3, Working
<1>5. \A u \in Tickets, n \in Notice :
         Account(u, n)' = IF u = t /\ n \in q.tell THEN Account(u, n) + 1 ELSE Account(u, n)
  BY <1>0, <1>1, <1>3, <1>4, TakesUp
<1>6. /\ \A m \in Members : <<m, "assigned">> \notin q.tell
      /\ ticket[t].created_by \in Members /\ <<ticket[t].created_by, "status">> \in q.tell
  <2>1. req[r].copy.created_by = ticket[t].created_by
    BY <1>0, <1>1 DEF CreatorOK, Carries
  <2>2. ticket[t].created_by \in Members
    BY <1>0, <1>1 DEF Bookkept
  <2>3. QED BY <1>3, <2>1, <2>2, Constants DEF Recipients
<1>7. ASSUME NEW u \in Tickets PROVE Bookkept(u)'
  <2>1. \A m \in Members : Account(u, <<m, "assigned">>)' = assignments'[u][m]
    <3>1. ASSUME NEW m \in Members
          PROVE  Account(u, <<m, "assigned">>)' = Account(u, <<m, "assigned">>)
      BY <1>5, <1>6, NoticeMembers
    <3>2. QED BY <1>0, <1>1, <3>1 DEF Bookkept
  <2>2. CASE u = t
    <3>1. PICK m \in Members : m = ticket[t].created_by /\ m = ticket'[t].created_by
      BY <1>1, <1>6
    <3>2. Account(t, <<m, "status">>)' = Account(t, <<m, "status">>) + 1
      BY <1>5, <1>6, <3>1, NoticeMembers
    <3>3. Account(t, <<m, "status">>) = moves[t]
      BY <1>0, <1>1, <3>1 DEF Bookkept
    <3>4. QED BY <1>1, <2>1, <2>2, <3>1, <3>2, <3>3 DEF Bookkept
  <2>3. CASE u # t
    <3>1. \A m \in Members : Account(u, <<m, "status">>)' = Account(u, <<m, "status">>)
      BY <1>5, <2>3, NoticeMembers
    <3>2. QED BY <1>0, <1>1, <1>2, <2>1, <2>3, <3>1 DEF Bookkept
  <2>4. QED BY <2>2, <2>3
<1>8. ASSUME NEW s \in Requests PROVE CreatorOK(s)'
  <2>1. req'[r] = q /\ \A o \in Requests \ {r} : req'[o] = req[o]
    BY <1>0, <1>4, Moved
  <2>2. CASE s = r
    BY <1>3, <2>1, <2>2 DEF CreatorOK, Carries
  <2>3. CASE s # r
    BY <1>0, <1>2, <2>1, <2>3, Working, CreatorStays
  <2>4. QED BY <2>2, <2>3
<1>9. QED BY <1>7, <1>8
LEMMA TellBooks ==
    ASSUME BookInv, NEW r \in Requests, Tell(r)
    PROVE  (\A u \in Tickets : Bookkept(u)') /\ (\A s \in Requests : CreatorOK(s)')
<1>0. TypeInv /\ CreatorOK(r)
  BY DEF BookInv
<1>1. PICK t \in Tickets, n \in req[r].tell, q \in Request :
           /\ t = req[r].ticket /\ t \in ticketRows /\ req[r].pc = "telling"
           /\ Becomes(r, q)
           /\ \/ q = Idle
              \/ q.ticket = t /\ q.to = req[r].to /\ q.copy = req[r].copy
                 /\ (q.pc = "telling" \/ (q.pc = "moving" /\ q.to # Null /\ q.tell = {}))
           /\ UNCHANGED <<table, history>>
  BY <1>0, TellFacts
<1>2. req'[r] = q /\ \A s \in Requests \ {r} : req'[s] = req[s]
  BY <1>0, <1>1, Moved
<1>3. \A u \in Tickets : Bookkept(u)'
  BY <1>0, <1>1, TellAccount, BooksStay DEF table, history
<1>4. CreatorOK(r)'
  BY <1>0, <1>1, <1>2, Constants DEF CreatorOK, Carries, table
<1>5. ASSUME NEW s \in Requests \ {r} PROVE CreatorOK(s)'
  BY <1>1, <1>2, CreatorStays DEF table
<1>6. QED BY <1>3, <1>4, <1>5

LEMMA BookStep == BookInv /\ [Next]_vars => BookInv'
<1> SUFFICES ASSUME BookInv, [Next]_vars PROVE BookInv'
  OBVIOUS
<1>0. TypeInv /\ TypeInv'
  BY TypeStep DEF BookInv
<1> DEFINE Good == (\A u \in Tickets : Bookkept(u)') /\ (\A s \in Requests : CreatorOK(s)')
<1> SUFFICES Good
  BY <1>0 DEF BookInv
(* A request without notices goes on, and tickets keep their creators.     *)
<1>1. ASSUME NEW r \in Requests, NEW q \in Request, Becomes(r, q), req[r].tell = {}, q.tell = {},
             q.pc \in {"saving", "moving"} => q.copy.created_by = ticket[q.ticket].created_by,
             q.pc # "telling", q.pc # "idle" => q.ticket \in Tickets,
             UNCHANGED <<ticketRows, told, lost, assignments, moves>>,
             \A u \in Tickets : ticket'[u].created_by = ticket[u].created_by
      PROVE  Good
  <2>1. \A u \in Tickets : Bookkept(u)'
    BY <1>0, <1>1, Silent, BooksStay
  <2>2. req'[r] = q /\ \A s \in Requests \ {r} : req'[s] = req[s]
    BY <1>0, <1>1, Moved
  <2>3. CreatorOK(r)'
    BY <1>1, <2>2 DEF CreatorOK, Carries
  <2>4. ASSUME NEW s \in Requests \ {r} PROVE CreatorOK(s)'
    BY <1>0, <1>1, <2>2, Working, CreatorStays
  <2>5. QED BY <2>1, <2>3, <2>4
<1>2. ASSUME NEW r \in Requests, NEW t \in Tickets, NEW m \in Members,
             NEW a \in Members \cup {Null}, NEW to \in Statuses \cup {Null}, NEW names \in BOOLEAN,
             BeginPatch(r, t, m, names, a, to)
      PROVE  Good
  <2>1. PICK q \in Request :
           /\ Becomes(r, q)
           /\ q.pc \in {"saving", "moving"} /\ q.ticket = t /\ q.copy = ticket[t] /\ q.tell = {}
    BY <1>0, <1>2, BeginPatchFacts
  <2>2. req[r].tell = {} /\ UNCHANGED <<table, told, history, lost>>
    BY <1>0, <1>2, BeginPatchFacts, Working
  <2>3. QED BY <1>1, <2>1, <2>2 DEF table, history
<1>3. ASSUME NEW r \in Requests, NEW t \in Tickets, NEW m \in Members, BeginDelete(r, t, m)
      PROVE  Good
  <2>1. PICK q \in Request : Becomes(r, q) /\ q.pc = "deleting" /\ q.ticket = t /\ q.tell = {}
    BY <1>0, <1>3, BeginDeleteFacts
  <2>2. req[r].tell = {} /\ UNCHANGED <<table, told, history, lost>>
    BY <1>0, <1>3, BeginDeleteFacts, Working
  <2>3. QED BY <1>1, <2>1, <2>2 DEF table, history
<1>4. ASSUME NEW r \in Requests, RefuseMove(r) PROVE Good
  <2>1. /\ req[r].tell = {} /\ Becomes(r, Idle)
        /\ UNCHANGED <<table, told, history, lost>>
    BY <1>0, <1>4, Working DEF RefuseMove, Finish
  <2>2. QED BY <1>1, <2>1, Constants DEF table, history
<1>5. ASSUME NEW r \in Requests, Delete(r) PROVE Good
  <2>1. /\ req[r].tell = {} /\ Becomes(r, Idle)
        /\ UNCHANGED <<ticketRows, told, history, lost>>
        /\ \A u \in Tickets : ticket'[u].created_by = ticket[u].created_by
    BY <1>0, <1>5, DeleteFacts, Working
  <2>2. QED BY <1>1, <2>1, Constants DEF history
<1>6. ASSUME NEW r \in Requests, NEW t \in Tickets, Restore(r, t) PROVE Good
  <2>1. /\ UNCHANGED <<ticketRows, told, req, history, lost>>
        /\ \A u \in Tickets : ticket'[u].created_by = ticket[u].created_by
    BY <1>0, <1>6, RestoreFacts
  <2>2. \A u \in Tickets, n \in Notice : Account(u, n)' = Account(u, n)
    BY <2>1 DEF Account, Due
  <2>3. QED BY <1>0, <2>1, <2>2, BooksStay, CreatorStays, Working DEF history
<1>7. ASSUME NEW r \in Requests, Crash(r) PROVE Good
  <2>1. Becomes(r, Idle) /\ UNCHANGED <<table, history>>
    BY <1>0, <1>7, CrashFacts
  <2>2. \A u \in Tickets : Bookkept(u)'
    BY <1>0, <1>7, <2>1, CrashAccount, BooksStay DEF table, history
  <2>3. req'[r].pc = "idle" /\ \A s \in Requests \ {r} : req'[s] = req[s]
    BY <1>0, <2>1, Moved, Constants
  <2>4. CreatorOK(r)'
    BY <2>3 DEF CreatorOK, Carries
  <2>5. ASSUME NEW s \in Requests \ {r} PROVE CreatorOK(s)'
    BY <2>1, <2>3, CreatorStays DEF table
  <2>6. QED BY <2>2, <2>4, <2>5
<1>8. CASE UNCHANGED vars
  <2>1. \A u \in Tickets, n \in Notice : Account(u, n)' = Account(u, n)
    BY <1>8 DEF vars, Account, Due
  <2>2. QED BY <1>8, <2>1, BooksStay, CreatorStays DEF vars
<1>9. QED
  BY <1>2, <1>3, <1>4, <1>5, <1>6, <1>7, <1>8, CreateBooks, SaveFieldsBooks, MoveBooks, TellBooks
     DEF Next, Serve

(* Every assignment is told to the new assignee, and every change of       *)
(* status to the creator, once each: the notices written, due and          *)
(* swallowed by crashes balance with the events, step by step.  A change   *)
(* is told to the creator the request's copy names, who is the ticket's.   *)
THEOREM EventsAreTold == Spec => []EveryEventToldOnce
<1>1. BookInv => EveryEventToldOnce
  <2> SUFFICES ASSUME BookInv, NEW t \in ticketRows
               PROVE  /\ \A m \in Members : Accounted(t, m, "assigned") = assignments[t][m]
                      /\ Accounted(t, ticket[t].created_by, "status") = moves[t]
    BY DEF EveryEventToldOnce
  <2>1. Bookkept(t) /\ t \in Tickets
    BY Working DEF BookInv, TypeInv, TypeOK
  <2>2. QED BY <2>1 DEF Bookkept, Accounted, Account
<1>2. QED BY InitBookInv, BookStep, <1>1, PTL DEF Spec
-------------------------------------------------------------------------------
(* Refinement                                                              *)

(* What a request that will move its ticket still knows of it.             *)
CopyOK(r) ==
    Carries(r) => /\ req[r].copy.status \in past[req[r].ticket]
                  /\ ~overlapped => req[r].copy.status = ticket[req[r].ticket].status

JourneyInv ==
    /\ TypeInv
    /\ \A t \in Tickets : IF t \in ticketRows THEN ticket[t].status \in past[t] ELSE past[t] = {}
    /\ \A r \in Requests : CopyOK(r)
    /\ ~overlapped => \A r, s \in Requests : r # s => req[r].pc = "idle" \/ req[s].pc = "idle"

LEMMA InitJourney == Init => JourneyInv
<1> SUFFICES ASSUME Init PROVE JourneyInv
  OBVIOUS
<1>1. TypeInv /\ \A r \in Requests : req[r] = Idle
  BY InitTypeInv DEF Init
<1>2. ASSUME NEW t \in Tickets
      PROVE  IF t \in ticketRows THEN ticket[t].status \in past[t] ELSE past[t] = {}
  <2>1. ticket[t].status \in Statuses
    BY <1>1 DEF TypeInv, TypeOK, Row
  <2>2. \A s \in Statuses : s \in Journey[s]
    BY DEF Journey, Statuses
  <2>3. past[t] = IF t \in ticketRows THEN Journey[ticket[t].status] ELSE {}
    BY DEF Init
  <2>4. QED BY <2>1, <2>2, <2>3
<1>3. \A r \in Requests : CopyOK(r)
  BY <1>1, Constants DEF CopyOK, Carries
<1>4. QED BY <1>1, <1>2, <1>3, Constants DEF JourneyInv

(* r goes on: unless others are at work, they are idle.                    *)
LEMMA JourneyGoesOn ==
    ASSUME JourneyInv, TypeInv', NEW r \in Requests, Beside(r),
           \A s \in Requests \ {r} : req'[s] = req[s],
           \A t \in Tickets : past[t] \subseteq past'[t],
           \A t \in Tickets : IF t \in ticketRows' THEN ticket'[t].status \in past'[t]
                             ELSE past'[t] = {},
           CopyOK(r)'
    PROVE  JourneyInv'
<1>1. (overlapped => overlapped') /\ (~overlapped' => \A s \in Requests \ {r} : req[s].pc = "idle")
  BY DEF Beside
<1>2. ASSUME NEW s \in Requests \ {r} PROVE CopyOK(s)'
  <2>1. CASE overlapped'
    <3>1. Carries(s) => /\ req[s].copy.status \in past[req[s].ticket]
                        /\ req[s].ticket \in Tickets
      <4>1. Carries(s) => req[s].pc # "idle"
        BY DEF Carries
      <4>2. QED BY <4>1, Working DEF JourneyInv, CopyOK
    <3>2. QED BY <2>1, <3>1 DEF CopyOK, Carries
  <2>2. CASE ~overlapped'
    BY <1>1, <2>2 DEF CopyOK, Carries
  <2>3. QED BY <2>1, <2>2
<1>3. ~overlapped' => \A o, s \in Requests : o # s => req'[o].pc = "idle" \/ req'[s].pc = "idle"
  BY <1>1
<1>4. QED BY <1>2, <1>3 DEF JourneyInv

(* Without a new row or a move every ticket keeps its status.              *)
LEMMA JourneyPauses ==
    ASSUME JourneyInv, TypeInv', NEW r \in Requests, Beside(r), NEW q \in Request, Becomes(r, q),
           UNCHANGED <<ticketRows, past>>,
           \A t \in Tickets : ticket'[t].status = ticket[t].status,
           \/ q.pc \in {"idle", "deleting"}
           \/ /\ Carries(r) /\ q.ticket = req[r].ticket
              /\ q.copy.status = req[r].copy.status
           \/ q.ticket \in ticketRows /\ q.copy = ticket[q.ticket]
           \/ q.pc = "telling" /\ q.to = Null
    PROVE  JourneyInv'
<1>1. req'[r] = q /\ \A s \in Requests \ {r} : req'[s] = req[s]
  BY Moved DEF JourneyInv
<1>2. /\ \A t \in Tickets : IF t \in ticketRows THEN ticket[t].status \in past[t] ELSE past[t] = {}
      /\ CopyOK(r)
  BY DEF JourneyInv
<1>3. /\ overlapped => overlapped'
      /\ Carries(r) => req[r].ticket \in ticketRows /\ req[r].ticket \in Tickets
      /\ ticketRows \subseteq Tickets
  <2>1. overlapped => overlapped'
    BY DEF Beside
  <2>2. TypeInv /\ (Carries(r) => req[r].pc # "idle")
    BY DEF Carries, JourneyInv
  <2>3. QED BY <2>1, <2>2, Working
<1>4. CopyOK(r)'
  <2>1. CASE q.pc \in {"idle", "deleting"} \/ (q.pc = "telling" /\ q.to = Null)
    BY <1>1, <2>1 DEF CopyOK, Carries
  <2>2. CASE Carries(r) /\ q.ticket = req[r].ticket /\ q.copy.status = req[r].copy.status
    BY <1>1, <1>2, <1>3, <2>2 DEF CopyOK
  <2>3. CASE q.ticket \in ticketRows /\ q.copy = ticket[q.ticket]
    <3>1. q.ticket \in Tickets /\ ticket'[q.ticket].status = q.copy.status
      BY <1>3, <2>3
    <3>2. q.copy.status \in past'[q.ticket]
      BY <1>2, <2>3, <3>1
    <3>3. QED BY <1>1, <3>1, <3>2 DEF CopyOK
  <2>4. QED BY <2>1, <2>2, <2>3
<1>5. QED BY <1>1, <1>2, <1>4, JourneyGoesOn
(* A pause of the tickets is a pause of the promise.                       *)
LEMMA Pauses ==
    ASSUME NEW r \in Requests, Beside(r), UNCHANGED <<ticketRows, past>>,
           \A t \in Tickets : ticket'[t].status = ticket[t].status
    PROVE  Lifecycle!Next
<1>1. overlapped => overlapped'
  BY DEF Beside
<1>2. Lifecycle!Share
  BY DEF Lifecycle!Share
<1>3. QED BY <1>1, <1>2 DEF Lifecycle!Next

(* A ticket takes up a status.                                             *)
LEMMA Enters ==
    ASSUME NEW t \in Tickets, NEW s, TypeInv,
           past' = [past EXCEPT ![t] = @ \cup {s}],
           t \in ticketRows', ticket'[t].status = s,
           \A u \in Tickets \ {t} : /\ u \in ticketRows' <=> u \in ticketRows
                                    /\ ticket'[u].status = ticket[u].status
    PROVE  Lifecycle!Enter(t, s)
BY DEF Lifecycle!Enter

LEMMA CreateIsOpen ==
    ASSUME JourneyInv, TypeInv', NEW r \in Requests, Beside(r), NEW t \in Tickets,
           NEW m \in Members, NEW a \in Members \cup {Null}, Create(r, t, m, a)
    PROVE  JourneyInv' /\ Lifecycle!Next
<1>0. TypeInv /\ overlapped => overlapped'
  BY DEF JourneyInv, Beside
<1>1. /\ t \notin ticketRows /\ ticketRows' = ticketRows \cup {t}
      /\ ticket'[t].status = "open"
      /\ \A u \in Tickets \ {t} : ticket'[u] = ticket[u] /\ past'[u] = past[u]
      /\ past'[t] = {"open"} /\ req[r].pc = "idle"
  BY CreateFacts DEF JourneyInv
<1>2. past[t] = {} /\ past' = [past EXCEPT ![t] = @ \cup {"open"}]
  <2>1. past[t] = {}
    BY <1>1 DEF JourneyInv
  <2>2. past' = [past EXCEPT ![t] = {"open"}]
    BY DEF Create
  <2>3. QED BY <2>1, <2>2
<1>3. Lifecycle!Open(t)
  <2>1. Lifecycle!Enter(t, "open")
    BY <1>1, <1>2, Enters DEF JourneyInv
  <2>2. QED BY <1>1, <2>1 DEF Lifecycle!Open
<1>4. CopyOK(r)' /\ \A s \in Requests \ {r} : req'[s] = req[s]
  <2>1. CASE a = Null
    <3>1. req' = req
      BY <2>1 DEF Create
    <3>2. QED BY <1>1, <3>1 DEF CopyOK, Carries
  <2>2. CASE a # Null
    <3>1. Becomes(r, Telling(t, {<<a, "assigned">>})) /\ {<<a, "assigned">>} \in SUBSET Notice
      BY <2>2 DEF Create, Notice
    <3>2. PICK q \in Request : /\ q = Telling(t, {<<a, "assigned">>})
                               /\ q.pc = "telling" /\ q.to = Null
      BY <3>1, TellingType
    <3>3. req'[r] = q /\ \A s \in Requests \ {r} : req'[s] = req[s]
      BY <3>1, <3>2, Moved DEF JourneyInv
    <3>4. QED BY <3>2, <3>3 DEF CopyOK, Carries
  <2>3. QED BY <2>1, <2>2
<1>5. \A u \in Tickets : /\ past[u] \subseteq past'[u]
                         /\ IF u \in ticketRows' THEN ticket'[u].status \in past'[u]
                            ELSE past'[u] = {}
  BY <1>1, <1>2 DEF JourneyInv
<1>6. JourneyInv'
  BY <1>4, <1>5, JourneyGoesOn
<1>7. overlapped => overlapped'
  BY DEF Beside
<1>8. QED BY <1>3, <1>6, <1>7 DEF Lifecycle!Next

LEMMA MoveIsMove ==
    ASSUME JourneyInv, TypeInv', NEW r \in Requests, Beside(r), Move(r)
    PROVE  JourneyInv' /\ Lifecycle!Next
<1>0. TypeInv
  BY DEF JourneyInv
<1>1. PICK t \in Tickets, s \in Statuses :
           /\ req[r].pc = "moving" /\ t = req[r].ticket /\ s = req[r].to /\ t \in ticketRows
           /\ MayMove(r)
           /\ ticket' \in [Tickets -> Row]
           /\ ticket'[t].status = s /\ ticket'[t].created_by = ticket[t].created_by
           /\ \A u \in Tickets \ {t} : ticket'[u] = ticket[u]
           /\ past' = [past EXCEPT ![t] = @ \cup {s}]
           /\ past' \in [Tickets -> SUBSET Statuses]
           /\ moves' \in [Tickets -> Nat] /\ moves'[t] = moves[t] + 1
           /\ \A u \in Tickets \ {t} : moves'[u] = moves[u]
           /\ Recipients(req[r].copy) \X {"status"} \in SUBSET Notice
           /\ Becomes(r, Telling(t, Recipients(req[r].copy) \X {"status"}))
           /\ UNCHANGED <<ticketRows, told, begun, assigns, assignments, lost>>
  BY <1>0, MoveFacts, Zenon
<1>2. PICK from \in Statuses :
        /\ from = req[r].copy.status /\ from \in past[t]
        /\ ~overlapped => from = ticket[t].status
  <2>1. req[r].copy.status \in Statuses
    BY <1>0, Working DEF Row
  <2>2. CopyOK(r) /\ Carries(r)
    BY <1>1 DEF JourneyInv, Carries
  <2>3. QED BY <1>1, <2>1, <2>2 DEF CopyOK
<1>3. from \in DOMAIN Lifecycle!Successors /\ s \in Lifecycle!Successors[from]
  <2>1. s \in TICKET_STATUS_TRANSITIONS[from]
    BY <1>1, <1>2 DEF MayMove
  <2>2. TICKET_STATUS_TRANSITIONS = Lifecycle!Successors
    BY DEF TICKET_STATUS_TRANSITIONS, Lifecycle!Successors
  <2>3. from \in DOMAIN Lifecycle!Successors
    BY DEF Lifecycle!Successors, Statuses
  <2>4. QED BY <2>1, <2>2, <2>3
<1>4. overlapped => overlapped'
  BY DEF Beside
<1>5. Lifecycle!Move(t)
  <2>0. \A u \in Tickets \ {t} : /\ u \in ticketRows' <=> u \in ticketRows
                                /\ ticket'[u].status = ticket[u].status
    BY <1>1
  <2>1. Lifecycle!Enter(t, s)
    BY <1>0, <1>1, <2>0, Enters
  <2>2. from \in IF overlapped' THEN past[t]
                ELSE {IF t \in ticketRows THEN ticket[t].status ELSE Null}
    BY <1>1, <1>2, <1>4
  <2>3. from \in IF overlapped' THEN past[t]
                ELSE {[u \in Tickets |-> IF u \in ticketRows THEN ticket[u].status ELSE Null][t]}
    BY <2>2
  <2>4. QED BY <1>3, <2>1, <2>3 DEF Lifecycle!Move
<1>6. PICK q \in Request : Becomes(r, q) /\ q.pc = "telling" /\ q.to = Null
  BY <1>1, TellingType
<1>7. CopyOK(r)' /\ \A o \in Requests \ {r} : req'[o] = req[o]
  <2>1. req'[r] = q /\ \A o \in Requests \ {r} : req'[o] = req[o]
    BY <1>0, <1>1, <1>6, Moved
  <2>2. QED BY <1>6, <2>1 DEF CopyOK, Carries
<1>8. \A u \in Tickets : /\ past[u] \subseteq past'[u]
                         /\ IF u \in ticketRows' THEN ticket'[u].status \in past'[u]
                            ELSE past'[u] = {}
  BY <1>1 DEF JourneyInv, TypeInv, TypeOK
<1>9. JourneyInv'
  BY <1>7, <1>8, JourneyGoesOn
<1>10. QED BY <1>4, <1>5, <1>9 DEF Lifecycle!Next

(* Every step of the tickets is a step of the promise, or none.            *)
LEMMA LifecycleStep ==
    JourneyInv /\ [Next]_vars => JourneyInv' /\ [Lifecycle!Next]_(Lifecycle!vars)
<1> SUFFICES ASSUME JourneyInv, [Next]_vars
             PROVE  JourneyInv' /\ [Lifecycle!Next]_(Lifecycle!vars)
  OBVIOUS
<1>0. TypeInv /\ TypeInv'
  BY TypeStep DEF JourneyInv
<1> DEFINE Good == JourneyInv' /\ Lifecycle!Next
<1>1. ASSUME NEW r \in Requests, Beside(r), NEW q \in Request, Becomes(r, q),
             UNCHANGED <<ticketRows, past>>,
             \A t \in Tickets : ticket'[t].status = ticket[t].status,
             \/ q.pc \in {"idle", "deleting"}
             \/ /\ Carries(r) /\ q.ticket = req[r].ticket
                /\ q.copy.status = req[r].copy.status
             \/ q.ticket \in ticketRows /\ q.copy = ticket[q.ticket]
             \/ q.pc = "telling" /\ q.to = Null
      PROVE  Good
  BY <1>0, <1>1, JourneyPauses, Pauses
<1>2. ASSUME NEW r \in Requests, Beside(r), NEW t \in Tickets, NEW m \in Members,
             NEW a \in Members \cup {Null}, NEW to \in Statuses \cup {Null}, NEW names \in BOOLEAN,
             BeginPatch(r, t, m, names, a, to)
      PROVE  Good
  <2>1. PICK q \in Request : Becomes(r, q) /\ q.ticket = t /\ q.copy = ticket[t]
    BY <1>0, <1>2, BeginPatchFacts
  <2>2. t \in ticketRows /\ UNCHANGED <<table, told, history, lost>>
    BY <1>2 DEF BeginPatch, Sees
  <2>3. /\ UNCHANGED <<ticketRows, past>>
        /\ \A u \in Tickets : ticket'[u].status = ticket[u].status
        /\ q.ticket \in ticketRows /\ q.copy = ticket[q.ticket]
    BY <2>1, <2>2 DEF table, history
  <2>4. QED BY <1>1, <1>2, <2>1, <2>3
<1>3. ASSUME NEW r \in Requests, Beside(r), NEW t \in Tickets, NEW m \in Members,
             BeginDelete(r, t, m)
      PROVE  Good
  <2>1. PICK q \in Request : Becomes(r, q) /\ q.pc = "deleting"
    BY <1>0, <1>3, BeginDeleteFacts
  <2>2. UNCHANGED <<table, told, assigns, history, lost>>
    BY <1>0, <1>3, BeginDeleteFacts
  <2>3. QED BY <1>1, <1>3, <2>1, <2>2 DEF table, history
<1>4. ASSUME NEW r \in Requests, Beside(r), Becomes(r, Idle), UNCHANGED <<ticketRows, past>>,
             \A t \in Tickets : ticket'[t].status = ticket[t].status
      PROVE  Good
  BY <1>1, <1>4, Constants
<1>5. ASSUME NEW r \in Requests, Beside(r), RefuseMove(r) PROVE Good
  BY <1>4, <1>5 DEF RefuseMove, Finish, table, history
<1>6. ASSUME NEW r \in Requests, Beside(r), Delete(r) PROVE Good
  <2>1. /\ Becomes(r, Idle) /\ UNCHANGED <<ticketRows, told, begun, assigns, history, lost>>
        /\ \A t \in Tickets : ticket'[t].status = ticket[t].status
    BY <1>0, <1>6, DeleteFacts
  <2>2. QED BY <1>4, <1>6, <2>1 DEF history
<1>7. ASSUME NEW r \in Requests, Beside(r), Crash(r) PROVE Good
  <2>1. Becomes(r, Idle) /\ UNCHANGED <<table, told, begun, assigns, history>>
    BY <1>0, <1>7, CrashFacts
  <2>2. QED BY <1>4, <1>7, <2>1 DEF table, history
<1>8. ASSUME NEW r \in Requests, Beside(r), NEW t \in Tickets, Restore(r, t) PROVE Good
  <2>1. /\ req[r].pc = "idle" /\ UNCHANGED <<ticketRows, told, req, assigns, history, lost>>
        /\ \A u \in Tickets : ticket'[u].status = ticket[u].status
    BY <1>0, <1>8, RestoreFacts
  <2>2. PICK q \in Request : q = req[r] /\ q.pc = "idle"
    BY <1>0, <2>1, Working
  <2>3. Becomes(r, q)
    BY <1>0, <2>1, <2>2 DEF Becomes, TypeInv, TypeOK
  <2>4. QED BY <1>1, <1>8, <2>1, <2>2, <2>3 DEF history
<1>9. ASSUME NEW r \in Requests, Beside(r), SaveFields(r) PROVE Good
  <2>1. /\ req[r].pc = "saving" /\ UNCHANGED <<ticketRows, told, moves, lost>>
        /\ \A u \in Tickets : ticket'[u].status = ticket[u].status
    BY <1>0, <1>9, SaveFieldsFacts
  <2>2. past' = past
    BY <1>9 DEF SaveFields
  <2>3. PICK q \in Request :
           /\ q.to = req[r].to /\ q.ticket = req[r].ticket
           /\ q.copy.status = req[r].copy.status
           /\ Becomes(r, AfterTelling(q)) \/ (q.pc = "telling" /\ Becomes(r, q))
    BY <1>0, <1>9, SaveFieldsFacts
  <2>4. CASE q.to = Null /\ q.pc = "telling" /\ Becomes(r, q)
    BY <1>1, <1>9, <2>1, <2>2, <2>4
  <2>5. CASE q.to = Null /\ Becomes(r, AfterTelling(q))
    BY <1>4, <1>9, <2>1, <2>2, <2>5, AfterTellingType
  <2>6. CASE q.to # Null
    <3>1. Carries(r)
      BY <2>1, <2>3, <2>6 DEF Carries
    <3>2. PICK p \in Request : /\ p.ticket = req[r].ticket
                               /\ p.copy.status = req[r].copy.status /\ Becomes(r, p)
      BY <2>3, <2>6, AfterTellingType
    <3>3. QED BY <1>1, <1>9, <2>1, <2>2, <3>1, <3>2
  <2>7. QED BY <2>3, <2>4, <2>5, <2>6
<1>10. ASSUME NEW r \in Requests, Beside(r), Tell(r) PROVE Good
  <2>1. PICK q \in Request :
           /\ req[r].pc = "telling" /\ Becomes(r, q)
           /\ \/ q = Idle
              \/ q.ticket = req[r].ticket /\ q.to = req[r].to /\ q.copy = req[r].copy
                 /\ (q.pc = "telling" \/ (q.pc = "moving" /\ q.to # Null /\ q.tell = {}))
           /\ UNCHANGED <<table, history>>
    BY <1>0, <1>10, TellFacts
  <2>2. UNCHANGED <<ticketRows, past>> /\ \A u \in Tickets : ticket'[u].status = ticket[u].status
    BY <2>1 DEF table, history
  <2>3. CASE q = Idle
    BY <1>4, <1>10, <2>1, <2>2, <2>3
  <2>4. CASE q.to = Null /\ q.pc = "telling"
    BY <1>1, <1>10, <2>1, <2>2, <2>4
  <2>5. CASE q # Idle /\ q.to # Null
    <3>1. Carries(r)
      BY <2>1, <2>5 DEF Carries
    <3>2. q.ticket = req[r].ticket /\ q.copy.status = req[r].copy.status
      BY <2>1, <2>5
    <3>3. QED BY <1>1, <1>10, <2>1, <2>2, <3>1, <3>2
  <2>6. QED BY <2>1, <2>3, <2>4, <2>5
<1>11. CASE UNCHANGED vars
  <2>1. JourneyInv'
    BY <1>0, <1>11 DEF vars, JourneyInv, CopyOK, Carries
  <2>2. UNCHANGED Lifecycle!vars
    BY <1>11 DEF vars, Lifecycle!vars
  <2>3. QED BY <2>1, <2>2
<1>12. CASE Next
  <2>1. Good
    BY <1>0, <1>2, <1>3, <1>5, <1>6, <1>7, <1>8, <1>9, <1>10, <1>12, CreateIsOpen, MoveIsMove
       DEF Next, Serve
  <2>2. QED BY <2>1
<1>13. QED BY <1>11, <1>12

(* The tickets keep the promise of the life cycle, however requests        *)
(* overlap: the copy a request moves its ticket from has a status the      *)
(* ticket had, and has it still unless requests have overlapped.           *)
THEOREM ImplementsTheLifecycle == Spec => ImplementsLifecycle
<1>1. Init => Lifecycle!Init
  <2> SUFFICES ASSUME Init PROVE Lifecycle!Init
    OBVIOUS
  <2>1. JourneyInv /\ overlapped = FALSE
    BY InitJourney DEF Init
  <2>2. DOMAIN Lifecycle!Successors = Statuses /\ Null \notin Statuses
    BY NullAssumption DEF Lifecycle!Successors, Statuses
  <2>3. /\ past \in [Tickets -> SUBSET Statuses]
        /\ \A t \in Tickets : /\ ticket[t].status \in Statuses
                              /\ IF t \in ticketRows THEN ticket[t].status \in past[t]
                                 ELSE past[t] = {}
    BY <2>1 DEF JourneyInv, TypeInv, TypeOK, Row
  <2>4. QED BY <2>1, <2>2, <2>3 DEF Lifecycle!Init
<1>2. QED BY <1>1, InitJourney, LifecycleStep, PTL DEF Spec, ImplementsLifecycle, Lifecycle!Spec

-------------------------------------------------------------------------------
(* What follows for a ticket                                               *)

(* However requests overlap, a ticket has only statuses it earned: it was  *)
(* opened before anything else, in progress before it was resolved, and    *)
(* resolved before it was closed or reopened.  A move from an outdated     *)
(* copy cannot skip the work (Business Rules 7.3).                         *)
StatusEarned ==
    \A t \in Tickets :
        /\ t \in ticketRows => ticket[t].status \in past[t]
        /\ past[t] # {} => "open" \in past[t]
        /\ "resolved" \in past[t] => "in_progress" \in past[t]
        /\ past[t] \cap {"closed", "reopened"} # {} => "resolved" \in past[t]

(* A status is entered from one that is in the past.                       *)
LEMMA EnterEarned ==
    ASSUME NEW P, NEW from \in P, from \in DOMAIN Lifecycle!Successors,
           NEW to \in Lifecycle!Successors[from],
           P # {} => "open" \in P,
           "resolved" \in P => "in_progress" \in P,
           P \cap {"closed", "reopened"} # {} => "resolved" \in P
    PROVE  /\ "open" \in P \cup {to}
           /\ "resolved" \in P \cup {to} => "in_progress" \in P \cup {to}
           /\ (P \cup {to}) \cap {"closed", "reopened"} # {} => "resolved" \in P \cup {to}
<1>1. from \in {"open", "in_progress", "resolved", "closed", "reopened"}
  BY DEF Lifecycle!Successors
<1>2. \/ from = "open" /\ to = "in_progress"
      \/ from \in {"in_progress", "reopened"} /\ to \in {"in_progress", "resolved"}
      \/ from \in {"resolved", "closed"} /\ to \in {"closed", "reopened"}
  BY <1>1 DEF Lifecycle!Successors
<1>3. "in_progress" \notin {"closed", "reopened", "resolved"} /\ "resolved" \notin {"closed", "reopened"}
  OBVIOUS
<1>4. QED BY <1>2, <1>3

LEMMA EarnedStep ==
    ASSUME JourneyInv, JourneyInv', StatusEarned, [Lifecycle!Next]_(Lifecycle!vars)
    PROVE  StatusEarned'
<1>1. past \in [Tickets -> SUBSET Statuses] /\ Null \notin Statuses
      /\ \A t \in Tickets : ticket[t].status \in Statuses
  BY Constants DEF JourneyInv, TypeInv, TypeOK, Row
<1> DEFINE Earned(P) == /\ P # {} => "open" \in P
                        /\ "resolved" \in P => "in_progress" \in P
                        /\ P \cap {"closed", "reopened"} # {} => "resolved" \in P
<1>2. ASSUME NEW u \in Tickets PROVE Earned(past[u])
  BY DEF StatusEarned
<1>3. ASSUME NEW t \in Tickets, Lifecycle!Open(t), NEW u \in Tickets PROVE Earned(past'[u])
  <2>1. past' = [past EXCEPT ![t] = @ \cup {"open"}] /\ past[t] = {}
    BY <1>1, <1>3 DEF Lifecycle!Open, Lifecycle!Enter, JourneyInv
  <2>2. past'[u] = past[u] \/ past'[u] = {"open"}
    BY <1>1, <2>1
  <2>3. QED BY <1>2, <2>2
<1>4. ASSUME NEW t \in Tickets, Lifecycle!Move(t), NEW u \in Tickets PROVE Earned(past'[u])
  <2>1. PICK from, to :
           /\ from \in past[t]
           /\ from \in DOMAIN Lifecycle!Successors /\ to \in Lifecycle!Successors[from]
           /\ past' = [past EXCEPT ![t] = @ \cup {to}]
    <3>1. PICK from : /\ from \in DOMAIN Lifecycle!Successors
                      /\ \/ from \in past[t]
                         \/ from = IF t \in ticketRows THEN ticket[t].status ELSE Null
                      /\ \E to \in Lifecycle!Successors[from] : Lifecycle!Enter(t, to)
      BY <1>4 DEF Lifecycle!Move
    <3>2. from # Null
      BY <1>1, <3>1 DEF Lifecycle!Successors, Statuses
    <3>3. from \in past[t]
      BY <3>1, <3>2 DEF StatusEarned
    <3>4. QED BY <3>1, <3>3 DEF Lifecycle!Enter
  <2>2. CASE u # t
    BY <1>1, <1>2, <2>1, <2>2
  <2>3. CASE u = t
    <3>1. past'[t] = past[t] \cup {to} /\ Earned(past[t])
      BY <1>1, <1>2, <2>1
    <3>2. QED BY <2>1, <2>3, <3>1, EnterEarned
  <2>4. QED BY <2>2, <2>3
<1> HIDE DEF Earned
<1>5. ASSUME NEW u \in Tickets PROVE Earned(past'[u])
  <2>1. CASE UNCHANGED past
    BY <1>2, <2>1
  <2>2. CASE ~UNCHANGED past
    BY <1>3, <1>4, <2>2 DEF Lifecycle!Next, Lifecycle!Share, Lifecycle!vars
  <2>3. QED BY <2>1, <2>2
<1>6. \A u \in Tickets : u \in ticketRows' => ticket'[u].status \in past'[u]
  BY DEF JourneyInv
<1>7. QED BY <1>5, <1>6 DEF Earned, StatusEarned

(* A closed or a reopened ticket was resolved, and a resolved one was in   *)
(* progress, although statuses are written from copies.                    *)
THEOREM StatusesAreEarned == Spec => []StatusEarned
<1>1. Init => StatusEarned
  <2> SUFFICES ASSUME Init, NEW t \in Tickets
               PROVE  /\ t \in ticketRows => ticket[t].status \in past[t]
                      /\ past[t] # {} => "open" \in past[t]
                      /\ "resolved" \in past[t] => "in_progress" \in past[t]
                      /\ past[t] \cap {"closed", "reopened"} # {} => "resolved" \in past[t]
    BY DEF StatusEarned
  <2>1. t \in ticketRows => ticket[t].status \in past[t]
    BY InitJourney DEF JourneyInv
  <2>2. ticket[t].status \in Statuses
    BY DEF Init, Row
  <2>3. past[t] = IF t \in ticketRows THEN Journey[ticket[t].status] ELSE {}
    BY DEF Init
  <2>4. \A s \in Statuses : /\ "open" \in Journey[s]
                            /\ "resolved" \in Journey[s] => "in_progress" \in Journey[s]
                            /\ Journey[s] \cap {"closed", "reopened"} # {} => "resolved" \in Journey[s]
    BY DEF Journey, Statuses
  <2>5. QED BY <2>1, <2>2, <2>3, <2>4
<1>2. JourneyInv /\ JourneyInv' /\ StatusEarned /\ [Lifecycle!Next]_(Lifecycle!vars) => StatusEarned'
  BY EarnedStep
<1>3. QED BY <1>1, <1>2, InitJourney, LifecycleStep, PTL DEF Spec
===============================================================================
