-------------------------- MODULE ActivitySweepProofs --------------------------
(***************************************************************************)
(* Proofs about ActivitySweep, for any organisations, activities, members, *)
(* workers, due dates and bounds.                                          *)
(***************************************************************************)
EXTENDS ActivitySweep, FiniteSetTheorems, TLAPS

(* A notice of kind k about activity a is in time.                         *)
Timely(k, a) == activity[a].due <= IF k = "soon" THEN now + Soon ELSE now

(* A sweep looks back in time and at activities there are, and has a       *)
(* notice to write only between the search and the insert.                 *)
SweepOK(w) ==
    /\ sweep[w].at <= now
    /\ sweep[w].pc # "insert" => sweep[w].next = {}
    /\ \A c \in sweep[w].todo \cup sweep[w].next : c.id \in activityRows

ReqOK(r) == /\ req[r].pc # "idle" => req[r].id \in activityRows
            /\ req[r].pc = "status" => req[r].to # Null

TypeInv ==
    /\ TypeOK
    /\ \A w \in Sweepers : SweepOK(w)
    /\ \A r \in Requests : ReqOK(r)
    /\ \A a \in Activities, k \in Kinds, m \in Members :
         told[a][k][m] > 0 => a \in activityRows

-------------------------------------------------------------------------------
LEMMA Constants ==
    /\ NoSweep \in Sweep /\ NoSweep.todo = {} /\ NoSweep.next = {} /\ NoSweep.at = 0
    /\ NoSweep.pc = "idle"
    /\ Idle \in Request /\ Idle.pc = "idle"
    /\ NoActivity \in Row
    /\ Soon \in Nat /\ Dates \subseteq Nat
    /\ Null \notin Activities \cup Members \cup Nat /\ Null # "done"
BY NullAssumption, BoundAssumption
   DEF NoSweep, Sweep, Idle, Request, NoActivity, Row, Kinds, Statuses

LEMMA Swept ==
    ASSUME TypeInv, NEW w \in Sweepers, NEW q \in Sweep, Goes(w, q)
    PROVE  /\ sweep' \in [Sweepers -> Sweep] /\ sweep'[w] = q
           /\ \A v \in Sweepers \ {w} : sweep'[v] = sweep[v]
BY DEF TypeInv, TypeOK, Goes

LEMMA Sweeping ==
    ASSUME TypeInv, NEW w \in Sweepers
    PROVE  sweep[w] \in Sweep /\ SweepOK(w) /\ now \in Nat /\ activityRows \subseteq Activities
BY DEF TypeInv, TypeOK

(* What a sweep reads of the activities as.                                *)
LEMMA CopiesFacts ==
    ASSUME TypeInv, NEW as \in SUBSET activityRows
    PROVE  /\ Copies(as) \in SUBSET Copy
           /\ \A c \in Copies(as) : c.id \in as /\ c.assignee = activity[c.id].assignee
<1>1. \A a \in as : a \in Activities /\ activity[a].assignee \in Members \cup {Null}
  BY DEF TypeInv, TypeOK, Row
<1>2. ASSUME NEW a \in as, NEW c, c = [id |-> a, assignee |-> activity[a].assignee]
      PROVE  c \in Copy /\ c.id \in as /\ c.assignee = activity[c.id].assignee
  BY <1>1, <1>2 DEF Copy
<1>3. QED BY <1>2 DEF Copies

LEMMA StartFacts ==
    ASSUME TypeInv, NEW w \in Sweepers, StartSweep(w)
    PROVE  \E q \in Sweep : /\ Goes(w, q) /\ q.at <= now /\ q.todo = {} /\ q.next = {}
                            /\ UNCHANGED told
<1>1. DEFINE q == [NoSweep EXCEPT !.pc = "orgs", !.at = now, !.orgs = Orgs]
<1>2. now \in Nat /\ now <= now /\ Orgs \in SUBSET Orgs
  BY DEF TypeInv, TypeOK
<1>3. q \in Sweep /\ q.at <= now /\ q.todo = {} /\ q.next = {}
  BY <1>2, Constants DEF NoSweep, Sweep
<1>4. QED BY <1>3 DEF StartSweep

LEMMA RestFacts ==
    ASSUME TypeInv, NEW w \in Sweepers, LeaveOrg(w) \/ Fail(w)
    PROVE  \E q \in Sweep : /\ Goes(w, q) /\ q.at <= now /\ q.todo = {} /\ q.next = {}
                            /\ UNCHANGED told
<1>1. CASE Goes(w, NoSweep) /\ UNCHANGED told
  BY <1>1, Constants, Sweeping
<1>2. CASE ~Goes(w, NoSweep) /\ LeaveOrg(w)
  <2>1. PICK p \in Sweep : p = sweep[w] /\ p.todo = {} /\ p.next = {} /\ p.at <= now
    BY <1>2, Sweeping DEF LeaveOrg, SweepOK
  <2>2. DEFINE q == [p EXCEPT !.pc = "orgs", !.org = Null, !.kind = "soon"]
  <2>3. q \in Sweep /\ q.at <= now /\ q.todo = {} /\ q.next = {}
    BY <2>1 DEF Sweep, Kinds
  <2>4. Goes(w, q) /\ UNCHANGED told
    BY <1>2, <2>1 DEF LeaveOrg
  <2>5. QED BY <2>3, <2>4
<1>3. QED BY <1>1, <1>2 DEF LeaveOrg, Fail

(* The copies a query gives are those of activities to be told of.         *)
LEMMA ReadFacts ==
    ASSUME TypeInv, NEW w \in Sweepers, ReadSoon(w) \/ ReadOverdue(w)
    PROVE  \E q \in Sweep :
             /\ Goes(w, q) /\ q.at <= now /\ q.next = {} /\ q.pc = "tell"
             /\ \A c \in q.todo : /\ c.id \in Pending /\ Timely(q.kind, c.id)
                                  /\ c.assignee = activity[c.id].assignee
             /\ UNCHANGED told
<1>1. PICK p \in Sweep : p = sweep[w] /\ p.at <= now
  BY Sweeping DEF SweepOK
<1>2. p.next = {}
  BY <1>1, Sweeping DEF SweepOK, ReadSoon, ReadOverdue
<1>3. /\ now \in Nat /\ p.at \in Nat /\ Soon \in Nat
      /\ \A a \in activityRows : activity[a].due \in Nat
  BY <1>1, Constants DEF TypeInv, TypeOK, Row, Sweep
<1>4. CASE ReadSoon(w)
  <2>1. PICK g \in p.orgs :
          Goes(w, [p EXCEPT
           !.pc = "tell", !.kind = "soon", !.org = g, !.orgs = @ \ {g},
           !.todo = Copies({a \in Pending : OrgOf[a] = g /\ DueSoon(p.at, a)})])
    BY <1>1, <1>4 DEF ReadSoon
  <2>2. PICK as \in SUBSET activityRows : as = {a \in Pending : OrgOf[a] = g /\ DueSoon(p.at, a)}
    BY DEF Pending, Active
  <2>3. DEFINE q == [p EXCEPT !.pc = "tell", !.kind = "soon", !.org = g, !.orgs = @ \ {g},
                              !.todo = Copies(as)]
  <2>4. Copies(as) \in SUBSET Copy
    BY CopiesFacts
  <2>5. /\ q \in Sweep /\ q.at = p.at /\ q.next = p.next /\ q.todo = Copies(as)
        /\ q.kind = "soon" /\ q.pc = "tell"
    BY <2>4 DEF Sweep, Kinds
  <2>6. Goes(w, q) /\ UNCHANGED told
    BY <1>4, <2>1, <2>2 DEF ReadSoon
  <2> HIDE DEF q
  <2>7. \A a \in as : a \in Pending /\ Timely("soon", a)
    BY <1>1, <1>3, <2>2 DEF Timely, DueSoon
  <2>8. \A c \in Copies(as) : c.id \in as /\ c.assignee = activity[c.id].assignee
    BY CopiesFacts
  <2>9. QED BY <1>1, <1>2, <2>5, <2>6, <2>7, <2>8
<1>5. CASE ReadOverdue(w)
  <2>1. Goes(w, [p EXCEPT !.kind = "overdue",
           !.todo = Copies({a \in Pending : OrgOf[a] = p.org /\ Overdue(p.at, a)})])
    BY <1>1, <1>5 DEF ReadOverdue
  <2>2. PICK as \in SUBSET activityRows : as = {a \in Pending : OrgOf[a] = p.org /\ Overdue(p.at, a)}
    BY DEF Pending, Active
  <2>3. DEFINE q == [p EXCEPT !.kind = "overdue", !.todo = Copies(as)]
  <2>4. Copies(as) \in SUBSET Copy
    BY CopiesFacts
  <2>5. /\ q \in Sweep /\ q.at = p.at /\ q.next = p.next /\ q.todo = Copies(as)
        /\ q.kind = "overdue" /\ q.pc = p.pc
    BY <2>4 DEF Sweep, Kinds
  <2>6. Goes(w, q) /\ p.pc = "tell" /\ UNCHANGED told
    BY <1>1, <1>5, <2>1, <2>2 DEF ReadOverdue
  <2> HIDE DEF q
  <2>7. \A a \in as : a \in Pending /\ Timely("overdue", a)
    BY <1>1, <1>3, <2>2 DEF Timely, Overdue
  <2>8. \A c \in Copies(as) : c.id \in as /\ c.assignee = activity[c.id].assignee
    BY CopiesFacts
  <2>9. QED BY <1>1, <1>2, <2>5, <2>6, <2>7, <2>8
<1>6. QED BY <1>4, <1>5

LEMMA CheckFacts ==
    ASSUME TypeInv, NEW w \in Sweepers, Check(w)
    PROVE  \E q \in Sweep, c \in sweep[w].todo :
             /\ Goes(w, q) /\ q.at <= now /\ q.kind = sweep[w].kind /\ sweep[w].next = {}
             /\ q.todo = sweep[w].todo \ {c}
             /\ \/ q.pc = "tell" /\ q.next = {}
                \/ q.pc = "insert" /\ q.next = {c} /\ ~(told[c.id][q.kind][c.assignee] > 0)
             /\ UNCHANGED told
<1>1. PICK p \in Sweep : /\ p = sweep[w] /\ p.at <= now /\ p.pc = "tell" /\ p.next = {}
  BY Sweeping DEF SweepOK, Check
<1>2. PICK c \in p.todo :
         Goes(w, IF AlreadySent(c, p.kind) THEN [p EXCEPT !.todo = @ \ {c}]
                 ELSE [p EXCEPT !.pc = "insert", !.todo = @ \ {c}, !.next = {c}])
  BY <1>1 DEF Check
<1>3. c \in Copy /\ p.todo \in SUBSET Copy /\ UNCHANGED told
  BY <1>1 DEF Sweep, Check
<1>4. CASE AlreadySent(c, p.kind)
  <2>1. DEFINE q == [p EXCEPT !.todo = @ \ {c}]
  <2>2. /\ q \in Sweep /\ q.at = p.at /\ q.kind = p.kind /\ q.next = p.next /\ q.pc = p.pc
        /\ q.todo = p.todo \ {c}
    BY <1>3 DEF Sweep
  <2>3. Goes(w, q)
    BY <1>2, <1>4
  <2> HIDE DEF q
  <2>4. QED BY <1>1, <1>3, <2>2, <2>3
<1>5. CASE ~AlreadySent(c, p.kind)
  <2>1. DEFINE q == [p EXCEPT !.pc = "insert", !.todo = @ \ {c}, !.next = {c}]
  <2>2. /\ q \in Sweep /\ q.at = p.at /\ q.kind = p.kind /\ q.next = {c} /\ q.pc = "insert"
        /\ q.todo = p.todo \ {c}
    BY <1>3 DEF Sweep
  <2>3. Goes(w, q) /\ ~(told[c.id][q.kind][c.assignee] > 0)
    BY <1>2, <1>5, <2>2 DEF AlreadySent
  <2> HIDE DEF q
  <2>4. QED BY <1>1, <1>3, <2>2, <2>3
<1>6. QED BY <1>4, <1>5

LEMMA InsertFacts ==
    ASSUME TypeInv, NEW w \in Sweepers, Insert(w)
    PROVE  \E q \in Sweep, c \in sweep[w].next :
             /\ Goes(w, q) /\ q.at <= now /\ q.kind = sweep[w].kind
             /\ q.todo = sweep[w].todo /\ q.next = {} /\ q.pc = "tell"
             /\ Notify(c.id, sweep[w].kind, c.assignee)
<1>1. PICK p \in Sweep : p = sweep[w] /\ p.at <= now
  BY Sweeping DEF SweepOK
<1>2. PICK c \in p.next : Notify(c.id, p.kind, c.assignee)
  BY <1>1 DEF Insert
<1>3. DEFINE q == [p EXCEPT !.pc = "tell", !.next = {}]
<1>4. /\ q \in Sweep /\ q.at = p.at /\ q.kind = p.kind /\ q.next = {} /\ q.pc = "tell"
      /\ q.todo = p.todo
  BY DEF Sweep
<1>5. Goes(w, q)
  BY <1>1 DEF Insert
<1> HIDE DEF q
<1>6. QED BY <1>1, <1>2, <1>4, <1>5

(* A notice is counted where it belongs.                                   *)
LEMMA Noticed ==
    ASSUME told \in [Activities -> [Kinds -> [Members -> Nat]]],
           NEW a \in Activities, NEW k \in Kinds, NEW n \in Members \cup {Null}, Notify(a, k, n)
    PROVE  /\ told' \in [Activities -> [Kinds -> [Members -> Nat]]]
           /\ \A b \in Activities, j \in Kinds, m \in Members :
                told'[b][j][m] = IF b = a /\ j = k /\ m = n THEN told[b][j][m] + 1
                                 ELSE told[b][j][m]
<1>0. PICK h \in [Members -> Nat] : h = told[a][k]
  OBVIOUS
<1>1. PICK f \in [Members -> Nat] : f = [told[a][k] EXCEPT ![n] = @ + 1]
  <2>1. n \in Members => h[n] \in Nat /\ h[n] + 1 \in Nat
    OBVIOUS
  <2>2. [h EXCEPT ![n] = h[n] + 1] \in [Members -> Nat]
    BY <2>1
  <2>3. QED BY <1>0, <2>2
<1>2. \A m \in Members : f[m] = IF m = n THEN told[a][k][m] + 1 ELSE told[a][k][m]
  BY <1>0, <1>1
<1>3. PICK g \in [Kinds -> [Members -> Nat]] : g = [told[a] EXCEPT ![k] = f]
  <2>1. told[a] \in [Kinds -> [Members -> Nat]]
    OBVIOUS
  <2>2. [told[a] EXCEPT ![k] = f] \in [Kinds -> [Members -> Nat]]
    BY <2>1
  <2>3. QED BY <2>2
<1>4. g[k] = f /\ \A j \in Kinds \ {k} : g[j] = told[a][j]
  BY <1>3
<1>5. told' = [told EXCEPT ![a] = g]
  BY <1>1, <1>3 DEF Notify
<1>6. told' \in [Activities -> [Kinds -> [Members -> Nat]]]
  BY <1>5
<1>7. told'[a] = g /\ \A b \in Activities \ {a} : told'[b] = told[b]
  BY <1>5
<1>8. ASSUME NEW b \in Activities, NEW j \in Kinds, NEW m \in Members
      PROVE  told'[b][j][m] = IF b = a /\ j = k /\ m = n THEN told[b][j][m] + 1
                              ELSE told[b][j][m]
  <2>1. CASE b # a
    BY <1>7, <2>1
  <2>2. CASE b = a /\ j # k
    BY <1>4, <1>7, <2>2
  <2>3. CASE b = a /\ j = k
    BY <1>2, <1>4, <1>7, <2>3
  <2>4. QED BY <2>1, <2>2, <2>3
<1>9. QED BY <1>6, <1>8

(* Requests write activities there are, and leave sweeps alone.            *)
LEMMA RowWrites ==
    ASSUME NEW row \in Row, NEW n \in Members \cup {Null}, NEW due \in Nat,
           NEW s \in Statuses, NEW d \in BOOLEAN
    PROVE  /\ [row EXCEPT !.assignee = n, !.due = due] \in Row
           /\ [row EXCEPT !.status = s] \in Row
           /\ [row EXCEPT !.status = s].assignee = row.assignee
           /\ [row EXCEPT !.status = s].due = row.due
           /\ [row EXCEPT !.deleted = d] \in Row
           /\ [row EXCEPT !.deleted = d].assignee = row.assignee
           /\ [row EXCEPT !.deleted = d].due = row.due
BY DEF Row

LEMMA Written ==
    ASSUME TypeInv, NEW a \in Activities, NEW row \in Row, activity' = [activity EXCEPT ![a] = row]
    PROVE  /\ activity' \in [Activities -> Row] /\ activity'[a] = row
           /\ \A b \in Activities \ {a} : activity'[b] = activity[b]
BY DEF TypeInv, TypeOK

LEMMA CreateFacts ==
    ASSUME TypeInv, NEW a \in Activities, NEW m \in Members, NEW n \in Members,
           NEW due \in Dates, Create(a, m, n, due)
    PROVE  /\ a \notin activityRows /\ activityRows' = activityRows \cup {a}
           /\ activity' \in [Activities -> Row]
           /\ \A b \in activityRows : activity'[b] = activity[b]
           /\ edits' \in Nat
           /\ UNCHANGED <<now, told, sweep, req, faults>>
<1>1. PICK row \in Row : row = [assignee |-> n, due |-> due, status |-> "pending", deleted |-> FALSE]
  <2>1. n \in Members \cup {Null} /\ due \in Nat /\ "pending" \in Statuses /\ FALSE \in BOOLEAN
    BY Constants DEF Statuses
  <2>2. QED BY <2>1 DEF Row
<1>2. /\ a \notin activityRows /\ activityRows' = activityRows \cup {a}
      /\ activity' = [activity EXCEPT ![a] = row] /\ edits' = edits + 1
      /\ UNCHANGED <<now, told, sweep, req, faults>>
  BY <1>1 DEF Create
<1>3. activityRows \subseteq Activities /\ edits \in Nat
  BY DEF TypeInv, TypeOK
<1>4. activity' \in [Activities -> Row] /\ \A b \in Activities \ {a} : activity'[b] = activity[b]
  BY <1>2, Written
<1>5. edits' \in Nat /\ \A b \in activityRows : b \in Activities \ {a}
  BY <1>2, <1>3
<1>6. QED BY <1>2, <1>4, <1>5

(* What a request does to an activity it finds.                            *)
LEMMA SaveFacts ==
    ASSUME TypeInv, NEW r \in Requests, SaveFields(r) \/ SaveStatus(r)
    PROVE  /\ activity' \in [Activities -> Row] /\ req' \in [Requests -> Request]
           /\ \A s \in Requests : ReqOK(s)'
           /\ UNCHANGED <<now, activityRows, told, sweep, edits, faults>>
<1>1. PICK q \in Request : q = req[r]
  BY DEF TypeInv, TypeOK
<1>2. q.id \in activityRows /\ q.id \in Activities /\ (q.pc = "status" => q.to = "done")
  BY <1>1 DEF TypeInv, TypeOK, ReqOK, SaveFields, SaveStatus, Request
<1>3. UNCHANGED <<now, activityRows, told, sweep, edits, faults>>
  BY DEF SaveFields, SaveStatus
<1>4. PICK row \in Row : row = activity[q.id]
  BY <1>2 DEF TypeInv, TypeOK
<1>5. PICK p \in Request : req' = [req EXCEPT ![r] = p] /\
            (p.pc # "idle" => p.id = q.id) /\ (p.pc = "status" => p.to # Null)
  <2>1. CASE SaveStatus(r) \/ (SaveFields(r) /\ q.to = Null)
    BY <1>1, <2>1, Constants DEF SaveStatus, SaveFields
  <2>2. CASE SaveFields(r) /\ q.to # Null
    <3>1. DEFINE p == [q EXCEPT !.pc = "status", !.assignee = Null, !.due = Null]
    <3>2. p \in Request /\ p.id = q.id /\ p.to = q.to /\ p.pc = "status"
      BY DEF Request
    <3>3. req' = [req EXCEPT ![r] = p]
      BY <1>1, <2>2 DEF SaveFields
    <3> HIDE DEF p
    <3>4. QED BY <2>2, <3>2, <3>3
  <2>3. QED BY <2>1, <2>2
<1>6. req' \in [Requests -> Request] /\ \A s \in Requests : ReqOK(s)'
  BY <1>2, <1>3, <1>5 DEF TypeInv, TypeOK, ReqOK
<1>7. CASE SaveFields(r)
  <2>1. PICK n \in Members \cup {Null}, due \in Nat :
          /\ n = IF q.assignee = Null THEN row.assignee ELSE q.assignee
          /\ due = IF q.due = Null THEN row.due ELSE q.due
    BY DEF Row, Request
  <2>2. activity' = [activity EXCEPT ![q.id] = [row EXCEPT !.assignee = n, !.due = due]]
    BY <1>1, <1>2, <1>4, <1>7, <2>1 DEF SaveFields, TypeInv, TypeOK
  <2>3. [row EXCEPT !.assignee = n, !.due = due] \in Row
    BY Constants, RowWrites DEF Statuses
  <2>4. activity' \in [Activities -> Row]
    BY <1>2, <2>2, <2>3, Written
  <2>5. QED BY <1>3, <1>6, <2>4
<1>8. CASE SaveStatus(r) /\ q.was = "pending"
  <2>1. activity' = [activity EXCEPT ![q.id] = [row EXCEPT !.status = "done"]]
    BY <1>1, <1>2, <1>4, <1>8 DEF SaveStatus
  <2>2. [row EXCEPT !.status = "done"] \in Row
    BY DEF Row, Statuses
  <2>4. activity' \in [Activities -> Row]
    BY <1>2, <2>1, <2>2, Written
  <2>5. QED BY <1>3, <1>6, <2>4
<1>9. CASE SaveStatus(r) /\ q.was # "pending"
  BY <1>1, <1>3, <1>6, <1>9 DEF SaveStatus, TypeInv, TypeOK
<1>10. QED BY <1>7, <1>8, <1>9

LEMMA BeginFacts ==
    ASSUME TypeInv, NEW r \in Requests, NEW a \in Activities, NEW m \in Members,
           NEW n \in Members \cup {Null}, NEW due \in Dates \cup {Null}, NEW to \in {"done", Null},
           BeginPatch(r, a, m, n, due, to)
    PROVE  /\ req' \in [Requests -> Request] /\ \A s \in Requests : ReqOK(s)'
           /\ edits' \in Nat
           /\ UNCHANGED <<now, table, told, sweep, faults>>
<1>1. DEFINE q == [pc |-> IF n = Null /\ due = Null THEN "status" ELSE "fields",
                   id |-> a, was |-> activity[a].status,
                   assignee |-> n, due |-> due, to |-> to]
<1>2. a \in activityRows /\ UNCHANGED <<now, table, told, sweep, faults>> /\ edits' = edits + 1
      /\ req' = [req EXCEPT ![r] = q] /\ <<n, due, to>> # <<Null, Null, Null>>
  BY DEF BeginPatch, Sees, Active
<1>3. activity[a].status \in Statuses /\ due \in Nat \cup {Null}
  BY Constants DEF TypeInv, TypeOK, Row
<1>4. q \in Request /\ q.id = a /\ (q.pc = "status" => q.to # Null)
  BY <1>2, <1>3 DEF Request
<1> HIDE DEF q
<1>5. activityRows' = activityRows
  BY <1>2 DEF table
<1>6. QED BY <1>2, <1>4, <1>5 DEF TypeInv, TypeOK, ReqOK

LEMMA MarkFacts ==
    ASSUME TypeInv, NEW a \in Activities, NEW m \in Members, Delete(a, m) \/ Restore(a, m)
    PROVE  /\ activity' \in [Activities -> Row]
           /\ \A b \in Activities : /\ activity'[b].assignee = activity[b].assignee
                                     /\ activity'[b].due = activity[b].due
           /\ edits' \in Nat
           /\ UNCHANGED <<now, activityRows, told, sweep, req, faults>>
<1>1. PICK row \in Row : row = activity[a]
  BY DEF TypeInv, TypeOK
<1>2. PICK d \in BOOLEAN : activity' = [activity EXCEPT ![a] = [row EXCEPT !.deleted = d]]
  BY <1>1 DEF Delete, Restore
<1>3. /\ [row EXCEPT !.deleted = d] \in Row
      /\ [row EXCEPT !.deleted = d].assignee = row.assignee
      /\ [row EXCEPT !.deleted = d].due = row.due
  BY DEF Row
<1>4. /\ activity' \in [Activities -> Row] /\ activity'[a] = [row EXCEPT !.deleted = d]
      /\ \A b \in Activities \ {a} : activity'[b] = activity[b]
  BY <1>2, <1>3, Written
<1>5. /\ edits' = edits + 1
      /\ UNCHANGED <<now, activityRows, told, sweep, req, faults>>
  BY DEF Delete, Restore
<1>6. \A b \in Activities : /\ activity'[b].assignee = activity[b].assignee
                              /\ activity'[b].due = activity[b].due
  BY <1>1, <1>3, <1>4
<1>7. edits \in Nat
  BY DEF TypeInv, TypeOK
<1>8. edits' \in Nat
  BY <1>5, <1>7
<1>9. QED BY <1>4, <1>5, <1>6, <1>8

(* A sweep goes on, as long as its notices are of activities there are.    *)
LEMMA GoesOn ==
    ASSUME TypeInv, NEW w \in Sweepers, NEW q \in Sweep, Goes(w, q), q.at <= now,
           q.pc # "insert" => q.next = {},
           \A c \in q.todo \cup q.next : c.id \in activityRows,
           UNCHANGED <<now, table, req, edits>>, faults' \in Nat, overlapped' \in BOOLEAN, UNCHANGED wasDue,
           told' \in [Activities -> [Kinds -> [Members -> Nat]]],
           \A a \in Activities, k \in Kinds, m \in Members :
             told'[a][k][m] > 0 => a \in activityRows
    PROVE  TypeInv'
<1>1. /\ sweep' \in [Sweepers -> Sweep] /\ sweep'[w] = q
      /\ \A v \in Sweepers \ {w} : sweep'[v] = sweep[v]
  BY Swept
<1>2. UNCHANGED <<now, activityRows, activity, wasDue, req, edits>>
  BY DEF table
<1>3. TypeOK'
  BY <1>1, <1>2 DEF TypeInv, TypeOK
<1>4. ASSUME NEW v \in Sweepers PROVE SweepOK(v)'
  <2>1. CASE v = w
    BY <1>1, <1>2, <2>1 DEF SweepOK
  <2>2. CASE v # w
    BY <1>1, <1>2, <2>2 DEF SweepOK, TypeInv
  <2>3. QED BY <2>1, <2>2
<1>5. \A r \in Requests : ReqOK(r)'
  BY <1>2 DEF ReqOK, TypeInv
<1>6. QED BY <1>2, <1>3, <1>4, <1>5 DEF TypeInv

(* Requests and the clock leave sweeps and notices alone.                  *)
LEMMA Meanwhile ==
    ASSUME TypeInv, UNCHANGED <<sweep, told, overlapped, faults>>, now' \in Nat, now <= now',
           activityRows \subseteq activityRows', activityRows' \subseteq Activities,
           activity' \in [Activities -> Row], edits' \in Nat,
           wasDue' \subseteq Activities \X Kinds \X Members,
           req' \in [Requests -> Request], \A r \in Requests : ReqOK(r)'
    PROVE  TypeInv'
<1>1. TypeOK'
  BY DEF TypeInv, TypeOK
<1>2. ASSUME NEW w \in Sweepers PROVE SweepOK(w)'
  <2>1. sweep[w].at \in Nat /\ now \in Nat /\ SweepOK(w)
    BY DEF TypeInv, TypeOK, Sweep
  <2>2. QED BY <2>1 DEF SweepOK
<1>3. QED BY <1>1, <1>2 DEF TypeInv

LEMMA InitTypeInv == Init => TypeInv
<1> SUFFICES ASSUME Init PROVE TypeInv
  OBVIOUS
<1>1. activity \in [Activities -> Row]
  <2>1. ASSUME NEW row \in [assignee : Members, due : Dates, status : {"pending"}, deleted : BOOLEAN]
        PROVE  row \in Row
    BY Constants DEF Row, Statuses
  <2>2. QED BY <2>1, Constants DEF Init
<1>2. TypeOK
  <2>1. told \in [Activities -> [Kinds -> [Members -> Nat]]]
    BY DEF Init
  <2>2. sweep \in [Sweepers -> Sweep] /\ req \in [Requests -> Request]
    BY Constants DEF Init
  <2>3. now = 0 /\ edits = 0 /\ faults = 0 /\ overlapped = FALSE
    BY DEF Init
  <2>4. activityRows \subseteq Activities /\ wasDue \subseteq Activities \X Kinds \X Members
    BY DEF Init, Reasons
  <2>5. now \in Nat /\ {edits, faults} \subseteq Nat
    BY <2>3
  <2>6. overlapped \in BOOLEAN
    BY <2>3
  <2>7. QED BY <1>1, <2>1, <2>2, <2>4, <2>5, <2>6 DEF TypeOK
<1>3. QED BY <1>2, Constants DEF Init, TypeInv, SweepOK, ReqOK

(* A step of a sweep: it stops, reads, skips an activity, takes one up, or *)
(* tells of the one it has taken up.                                       *)
Stops(w, q) == q.todo = {} /\ q.next = {} /\ told' = told

Reads(w, q) == /\ q.next = {} /\ q.pc = "tell" /\ told' = told
               /\ \A c \in q.todo : /\ c.id \in Pending /\ Timely(q.kind, c.id)
                                    /\ c.assignee = activity[c.id].assignee

Skips(w, q) == /\ q.kind = sweep[w].kind /\ q.todo \subseteq sweep[w].todo
               /\ q.pc = "tell" /\ q.next = {} /\ told' = told

TakesUp(w, q) == /\ q.kind = sweep[w].kind /\ sweep[w].next = {} /\ q.todo \subseteq sweep[w].todo
                 /\ \E c \in sweep[w].todo : /\ q.next = {c}
                                             /\ ~(told[c.id][q.kind][c.assignee] > 0)
                 /\ q.pc = "insert" /\ told' = told

Tells(w, q) == /\ q.kind = sweep[w].kind /\ q.todo = sweep[w].todo
               /\ q.next = {} /\ q.pc = "tell"
               /\ \E c \in sweep[w].next :
                    Notify(c.id, sweep[w].kind, c.assignee)

LEMMA SweepSteps ==
    ASSUME TypeInv, NEW w \in Sweepers, StartSweep(w) \/ Work(w) \/ Fail(w)
    PROVE  /\ \E q \in Sweep :
                /\ Goes(w, q) /\ q.at <= now
                /\ Stops(w, q) \/ Reads(w, q) \/ Skips(w, q) \/ TakesUp(w, q) \/ Tells(w, q)
           /\ UNCHANGED <<now, table, req, edits>> /\ faults' \in Nat
<1>1. faults \in Nat
  BY DEF TypeInv, TypeOK
<1>2. UNCHANGED <<now, table, req, edits>> /\ faults' \in Nat
  <2>1. CASE Fail(w)
    BY <1>1, <2>1 DEF Fail
  <2>2. CASE StartSweep(w) \/ ReadSoon(w) \/ ReadOverdue(w)
    BY <1>1, <2>2 DEF StartSweep, ReadSoon, ReadOverdue
  <2>3. CASE Check(w) \/ Insert(w) \/ LeaveOrg(w)
    BY <1>1, <2>3 DEF Check, Insert, LeaveOrg
  <2>4. QED BY <2>1, <2>2, <2>3 DEF Work
<1>3. CASE StartSweep(w) \/ LeaveOrg(w) \/ Fail(w)
  <2>1. \E q \in Sweep : Goes(w, q) /\ q.at <= now /\ Stops(w, q)
    BY <1>3, StartFacts, RestFacts DEF Stops
  <2>2. QED BY <1>2, <2>1
<1>4. CASE ReadSoon(w) \/ ReadOverdue(w)
  <2>1. \E q \in Sweep : Goes(w, q) /\ q.at <= now /\ Reads(w, q)
    BY <1>4, ReadFacts DEF Reads
  <2>2. QED BY <1>2, <2>1
<1>5. CASE Check(w)
  <2>1. \E q \in Sweep : Goes(w, q) /\ q.at <= now /\ (Skips(w, q) \/ TakesUp(w, q))
    BY <1>5, CheckFacts DEF Skips, TakesUp
  <2>2. QED BY <1>2, <2>1
<1>6. CASE Insert(w)
  <2>1. \E q \in Sweep : Goes(w, q) /\ q.at <= now /\ Tells(w, q)
    BY <1>6, InsertFacts DEF Tells
  <2>2. QED BY <1>2, <2>1
<1>7. QED BY <1>3, <1>4, <1>5, <1>6 DEF Work

(* The notice a sweep writes is of an activity there is.                   *)
LEMMA TellsFacts ==
    ASSUME TypeInv, NEW w \in Sweepers, NEW q \in Sweep, Tells(w, q)
    PROVE  \E c \in sweep[w].next :
             /\ c \in Copy /\ c.id \in activityRows /\ sweep[w].kind \in Kinds
             /\ told' \in [Activities -> [Kinds -> [Members -> Nat]]]
             /\ \A b \in Activities, j \in Kinds, m \in Members :
                  told'[b][j][m] =
                    IF b = c.id /\ j = sweep[w].kind /\ m = c.assignee THEN told[b][j][m] + 1
                    ELSE told[b][j][m]
<1>1. PICK c \in sweep[w].next :
        Notify(c.id, sweep[w].kind, c.assignee)
  BY DEF Tells
<1>2. c \in Copy /\ sweep[w].kind \in Kinds /\ c.id \in activityRows
  BY Sweeping DEF Sweep, SweepOK
<1>3. PICK a \in Activities, k \in Kinds, n \in Members \cup {Null} :
        a = c.id /\ k = sweep[w].kind /\ n = c.assignee
  BY <1>2 DEF Copy
<1>4. told \in [Activities -> [Kinds -> [Members -> Nat]]]
  BY DEF TypeInv, TypeOK
<1>5. Notify(a, k, n)
  BY <1>1, <1>3
<1>6. /\ told' \in [Activities -> [Kinds -> [Members -> Nat]]]
      /\ \A b \in Activities, j \in Kinds, m \in Members :
           told'[b][j][m] = IF b = a /\ j = k /\ m = n THEN told[b][j][m] + 1
                            ELSE told[b][j][m]
  BY <1>4, <1>5, Noticed
<1>7. QED BY <1>2, <1>3, <1>6

(* The history goes on beside requests and the clock.                      *)
Recorded == wasDue' = wasDue \cup Reasons' /\ UNCHANGED overlapped

LEMMA RecordedFacts ==
    ASSUME TypeInv, Recorded
    PROVE  wasDue' \subseteq Activities \X Kinds \X Members /\ UNCHANGED overlapped
BY DEF TypeInv, TypeOK, Recorded, Reasons

LEMMA TypeStep == TypeInv /\ [Next]_vars => TypeInv'
<1> SUFFICES ASSUME TypeInv, [Next]_vars PROVE TypeInv'
  OBVIOUS
<1>0. /\ now \in Nat /\ overlapped \in BOOLEAN /\ activityRows \subseteq Activities
      /\ activity \in [Activities -> Row] /\ edits \in Nat
      /\ req \in [Requests -> Request] /\ \A r \in Requests : ReqOK(r)
  BY DEF TypeInv, TypeOK
<1>1. ASSUME NEW w \in Sweepers, StartSweep(w) \/ Work(w) \/ Fail(w), Beside(w) PROVE TypeInv'
  <2>1. overlapped' \in BOOLEAN /\ UNCHANGED wasDue
    BY <1>1 DEF Beside
  <2>2. PICK q \in Sweep :
          /\ Goes(w, q) /\ q.at <= now
          /\ Stops(w, q) \/ Reads(w, q) \/ Skips(w, q) \/ TakesUp(w, q) \/ Tells(w, q)
    BY <1>1, SweepSteps
  <2>3. UNCHANGED <<now, table, req, edits>> /\ faults' \in Nat
    BY <1>1, SweepSteps
  <2>4. /\ q.pc # "insert" => q.next = {}
        /\ \A c \in q.todo \cup q.next : c.id \in activityRows
    BY <2>2, Sweeping DEF Stops, Reads, Skips, TakesUp, Tells, SweepOK, Pending, Active
  <2>5. /\ told' \in [Activities -> [Kinds -> [Members -> Nat]]]
        /\ \A a \in Activities, k \in Kinds, m \in Members :
             told'[a][k][m] > 0 => a \in activityRows
    <3>1. CASE told' = told
      BY <3>1 DEF TypeInv, TypeOK
    <3>2. CASE Tells(w, q)
      BY <3>2, TellsFacts DEF TypeInv
    <3>3. QED BY <2>2, <3>1, <3>2 DEF Stops, Reads, Skips, TakesUp
  <2>6. QED BY <2>1, <2>2, <2>3, <2>4, <2>5, GoesOn
<1>2. ASSUME NEW a \in Activities, NEW m \in Members, NEW n \in Members, NEW due \in Dates,
             Create(a, m, n, due), Recorded
      PROVE  TypeInv'
  <2>1. \A r \in Requests : ReqOK(r)'
    BY <1>0, <1>2, CreateFacts DEF ReqOK
  <2>2. QED BY <1>0, <1>2, <2>1, CreateFacts, Meanwhile, RecordedFacts
<1>3. ASSUME NEW r \in Requests, NEW a \in Activities, NEW m \in Members,
             NEW n \in Members \cup {Null}, NEW due \in Dates \cup {Null}, NEW to \in {"done", Null},
             BeginPatch(r, a, m, n, due, to), Recorded
      PROVE  TypeInv'
  <2>1. /\ req' \in [Requests -> Request] /\ \A s \in Requests : ReqOK(s)'
        /\ edits' \in Nat
        /\ UNCHANGED <<now, activityRows, activity, told, sweep, faults>>
    BY <1>3, BeginFacts DEF table
  <2>2. QED BY <1>0, <1>3, <2>1, Meanwhile, RecordedFacts
<1>4. ASSUME NEW r \in Requests, SaveFields(r) \/ SaveStatus(r), Recorded
      PROVE  TypeInv'
  BY <1>0, <1>4, SaveFacts, Meanwhile, RecordedFacts
<1>5. ASSUME NEW a \in Activities, NEW m \in Members, Delete(a, m) \/ Restore(a, m),
             Recorded
      PROVE  TypeInv'
  <2>1. \A r \in Requests : ReqOK(r)'
    BY <1>0, <1>5, MarkFacts DEF ReqOK
  <2>2. QED BY <1>0, <1>5, <2>1, MarkFacts, Meanwhile, RecordedFacts
<1>6. CASE Tick /\ Recorded
  <2>1. now' \in Nat /\ now <= now'
    BY <1>0, <1>6 DEF Tick
  <2>2. UNCHANGED <<activityRows, activity, told, sweep, req, edits, faults>>
    BY <1>6 DEF Tick, table
  <2>3. \A r \in Requests : ReqOK(r)'
    BY <1>0, <2>2 DEF ReqOK
  <2>4. QED BY <1>0, <1>6, <2>1, <2>2, <2>3, Meanwhile, RecordedFacts
<1>7. CASE UNCHANGED vars
  BY <1>7 DEF vars, TypeInv, TypeOK, SweepOK, ReqOK
<1>8. QED
  BY <1>1, <1>2, <1>3, <1>4, <1>5, <1>6, <1>7 DEF Next, Edit, Recorded

(* Rows, sweeps, requests and notices stay within their types.             *)
THEOREM TypeCorrect == Spec => []TypeOK
<1>1. TypeInv => TypeOK
  BY DEF TypeInv
<1>2. QED BY InitTypeInv, TypeStep, <1>1, PTL DEF Spec
-------------------------------------------------------------------------------
(* Once                                                                    *)

(* The sweeps about to tell m of a.                                        *)
Telling(a, k, m) == {w \in Sweepers : sweep[w].kind = k
                       /\ \E c \in sweep[w].next : c.id = a /\ c.assignee = m}

Bounded(a, k, m) ==
    told[a][k][m] + Cardinality(Telling(a, k, m))
      <= IF overlapped THEN Cardinality(Sweepers) ELSE 1

NoticeInv == TypeInv /\ \A a \in Activities, k \in Kinds, m \in Members : Bounded(a, k, m)

LEMMA Numbers ==
    ASSUME TypeInv
    PROVE  /\ Cardinality(Sweepers) \in Nat
           /\ \A w \in Sweepers : Cardinality(Sweepers) >= 1
           /\ \A a \in Activities, k \in Kinds, m \in Members :
                /\ told[a][k][m] \in Nat
                /\ Telling(a, k, m) \in SUBSET Sweepers /\ IsFiniteSet(Telling(a, k, m))
                /\ Cardinality(Telling(a, k, m)) \in Nat
                /\ Cardinality(Telling(a, k, m)) <= Cardinality(Sweepers)
<1>1. Cardinality(Sweepers) \in Nat /\ (Cardinality(Sweepers) = 0 <=> Sweepers = {})
  BY SweeperAssumption, FS_CardinalityType, FS_EmptySet
<1>2. ASSUME NEW a \in Activities, NEW k \in Kinds, NEW m \in Members
      PROVE  /\ told[a][k][m] \in Nat
             /\ Telling(a, k, m) \in SUBSET Sweepers /\ IsFiniteSet(Telling(a, k, m))
             /\ Cardinality(Telling(a, k, m)) \in Nat
             /\ Cardinality(Telling(a, k, m)) <= Cardinality(Sweepers)
  <2>1. told[a][k][m] \in Nat
    BY DEF TypeInv, TypeOK
  <2>2. Telling(a, k, m) \in SUBSET Sweepers
    BY DEF Telling
  <2>3. IsFiniteSet(Telling(a, k, m)) /\ Cardinality(Telling(a, k, m)) <= Cardinality(Sweepers)
    BY <2>2, SweeperAssumption, FS_Subset
  <2>4. QED BY <2>1, <2>2, <2>3, FS_CardinalityType
<1>3. QED BY <1>1, <1>2

(* No more notices and no more sweeps about to write one.                  *)
LEMMA NoMore ==
    ASSUME NoticeInv, TypeInv', NEW a \in Activities, NEW k \in Kinds, NEW m \in Members,
           told'[a][k][m] = told[a][k][m], Telling(a, k, m)' \subseteq Telling(a, k, m),
           overlapped => overlapped', overlapped' => overlapped \/ Sweepers # {}
    PROVE  Bounded(a, k, m)'
<1>1. TypeInv /\ Bounded(a, k, m)
  BY DEF NoticeInv
<1>2. Cardinality(Telling(a, k, m)') <= Cardinality(Telling(a, k, m))
      /\ Cardinality(Telling(a, k, m)') \in Nat
  BY <1>1, Numbers, FS_Subset, FS_CardinalityType
<1>3. /\ Cardinality(Telling(a, k, m)) \in Nat /\ told[a][k][m] \in Nat
      /\ Cardinality(Sweepers) \in Nat /\ (Sweepers # {} => Cardinality(Sweepers) >= 1)
  BY <1>1, Numbers
<1>4. told[a][k][m] + Cardinality(Telling(a, k, m)')
        <= IF overlapped THEN Cardinality(Sweepers) ELSE 1
  BY <1>1, <1>2, <1>3 DEF Bounded
<1>5. told'[a][k][m] + Cardinality(Telling(a, k, m)')
        <= IF overlapped' THEN Cardinality(Sweepers) ELSE 1
  <2>1. CASE overlapped
    BY <1>3, <1>4, <2>1
  <2>2. CASE ~overlapped /\ overlapped'
    <3>1. Sweepers # {}
      BY <2>2
    <3>2. QED BY <1>2, <1>3, <1>4, <2>2, <3>1
  <2>3. CASE ~overlapped /\ ~overlapped'
    BY <1>3, <1>4, <2>3
  <2>4. QED BY <2>1, <2>2, <2>3
<1>6. QED BY <1>5 DEF Bounded

(* A sweep that has found no notice may be one of several, unless no other *)
(* is running.                                                             *)
LEMMA OneMore ==
    ASSUME NoticeInv, TypeInv', NEW w \in Sweepers, Beside(w), NEW q \in Sweep, Goes(w, q),
           NEW a \in Activities, NEW k \in Kinds, NEW m \in Members,
           told'[a][k][m] = told[a][k][m], ~(told[a][k][m] > 0)
    PROVE  Bounded(a, k, m)'
<1>1. TypeInv /\ told[a][k][m] = 0
  BY Numbers DEF NoticeInv
<1>2. /\ Cardinality(Sweepers) \in Nat
      /\ Cardinality(Telling(a, k, m)') \in Nat
      /\ Cardinality(Telling(a, k, m)') <= Cardinality(Sweepers)
      /\ Telling(a, k, m)' \in SUBSET Sweepers /\ IsFiniteSet(Telling(a, k, m)')
  <2>1. Telling(a, k, m)' \in SUBSET Sweepers
    BY DEF Telling
  <2>2. IsFiniteSet(Telling(a, k, m)') /\ Cardinality(Telling(a, k, m)') <= Cardinality(Sweepers)
    BY <2>1, SweeperAssumption, FS_Subset
  <2>3. QED BY <1>1, <2>1, <2>2, Numbers, FS_CardinalityType
<1>3. CASE overlapped'
  BY <1>1, <1>2, <1>3 DEF Bounded
<1>4. CASE ~overlapped'
  <2>1. \A v \in Sweepers \ {w} : sweep[v].pc = "idle" /\ sweep[v].next = {} /\ sweep'[v] = sweep[v]
    BY <1>1, <1>4, Swept, Sweeping DEF Beside, SweepOK
  <2>2. Telling(a, k, m)' \subseteq {w}
    BY <2>1 DEF Telling
  <2>3. IsFiniteSet({w}) /\ Cardinality({w}) = 1
    BY FS_Singleton
  <2>4. Cardinality(Telling(a, k, m)') <= 1
    BY <2>2, <2>3, FS_Subset
  <2>5. QED BY <1>1, <1>2, <1>4, <2>4 DEF Bounded
<1>5. QED BY <1>3, <1>4

LEMMA NoticeStep == NoticeInv /\ [Next]_vars => NoticeInv'
<1> SUFFICES ASSUME NoticeInv, [Next]_vars PROVE NoticeInv'
  OBVIOUS
<1>0. TypeInv /\ TypeInv'
  BY TypeStep DEF NoticeInv
<1>1. ASSUME UNCHANGED <<sweep, told, overlapped>>, NEW a \in Activities, NEW k \in Kinds,
             NEW m \in Members
      PROVE  Bounded(a, k, m)'
  BY <1>1 DEF NoticeInv, Bounded, Telling
<1>2. ASSUME NEW w \in Sweepers, StartSweep(w) \/ Work(w) \/ Fail(w), Beside(w),
             NEW a \in Activities, NEW k \in Kinds, NEW m \in Members
      PROVE  Bounded(a, k, m)'
  <2>1. PICK q \in Sweep :
          /\ Goes(w, q) /\ q.at <= now
          /\ Stops(w, q) \/ Reads(w, q) \/ Skips(w, q) \/ TakesUp(w, q) \/ Tells(w, q)
    BY <1>0, <1>2, SweepSteps
  <2>2. sweep'[w] = q /\ \A v \in Sweepers \ {w} : sweep'[v] = sweep[v]
    BY <1>0, <2>1, Swept
  <2>3. (overlapped => overlapped') /\ Sweepers # {}
    BY <1>2 DEF Beside
  <2>4. CASE q.next = {} /\ told' = told
    <3>1. Telling(a, k, m)' \subseteq Telling(a, k, m)
      BY <2>2, <2>4 DEF Telling
    <3>2. told'[a][k][m] = told[a][k][m]
      BY <2>4
    <3>3. QED BY <1>0, <2>3, <3>1, <3>2, NoMore
  <2>5. CASE TakesUp(w, q)
    <3>1. PICK c \in sweep[w].todo : /\ q.next = {c} /\ ~(told[c.id][q.kind][c.assignee] > 0)
                                     /\ told' = told
      BY <2>5 DEF TakesUp
    <3>2. CASE a = c.id /\ k = q.kind /\ m = c.assignee
      BY <1>0, <1>2, <2>1, <3>1, <3>2, OneMore
    <3>3. CASE ~(a = c.id /\ k = q.kind /\ m = c.assignee)
      <4>1. Telling(a, k, m)' \subseteq Telling(a, k, m)
        BY <2>2, <3>1, <3>3 DEF Telling
      <4>2. QED BY <1>0, <2>3, <3>1, <4>1, NoMore
    <3>4. QED BY <3>2, <3>3
  <2>6. CASE Tells(w, q)
    <3>1. PICK c \in sweep[w].next :
             \A b \in Activities, j \in Kinds, n \in Members :
               told'[b][j][n] =
                 IF b = c.id /\ j = sweep[w].kind /\ n = c.assignee THEN told[b][j][n] + 1
                 ELSE told[b][j][n]
      BY <1>0, <2>6, TellsFacts
    <3>2. q.next = {}
      BY <2>6 DEF Tells
    <3>3. Telling(a, k, m)' = Telling(a, k, m) \ {w}
      BY <2>2, <3>2 DEF Telling
    <3>4. CASE a = c.id /\ k = sweep[w].kind /\ m = c.assignee
      <4>1. w \in Telling(a, k, m)
        BY <3>1, <3>4 DEF Telling
      <4>2. Cardinality(Telling(a, k, m)') = Cardinality(Telling(a, k, m)) - 1
        <5>1. IsFiniteSet(Telling(a, k, m))
          BY <1>0, Numbers
        <5>2. QED BY <3>3, <4>1, <5>1, FS_RemoveElement
      <4>3. told'[a][k][m] = told[a][k][m] + 1
        BY <3>1, <3>4
      <4>4. /\ Cardinality(Telling(a, k, m)) \in Nat /\ told[a][k][m] \in Nat
            /\ Cardinality(Sweepers) \in Nat /\ Cardinality(Sweepers) >= 1
        BY <1>0, Numbers
      <4>5. Bounded(a, k, m)
        BY DEF NoticeInv
      <4>6. told[a][k][m] + Cardinality(Telling(a, k, m))
              <= IF overlapped' THEN Cardinality(Sweepers) ELSE 1
        BY <2>3, <4>4, <4>5 DEF Bounded
      <4>7. QED BY <4>2, <4>3, <4>4, <4>6 DEF Bounded
    <3>5. CASE ~(a = c.id /\ k = sweep[w].kind /\ m = c.assignee)
      <4>1. told'[a][k][m] = told[a][k][m]
        BY <3>1, <3>5
      <4>2. QED BY <1>0, <2>3, <3>3, <4>1, NoMore
    <3>6. QED BY <3>4, <3>5
  <2>7. QED BY <2>1, <2>4, <2>5, <2>6 DEF Stops, Reads, Skips
<1>3. CASE UNCHANGED <<sweep, told, overlapped>>
  BY <1>0, <1>1, <1>3 DEF NoticeInv
<1>4. CASE \E w \in Sweepers : (StartSweep(w) \/ Work(w) \/ Fail(w)) /\ Beside(w)
  BY <1>0, <1>2, <1>4 DEF NoticeInv
<1>5. CASE (Edit \/ Tick) /\ UNCHANGED overlapped
  <2>1. UNCHANGED <<sweep, told>>
    <3>1. CASE Tick
      BY <3>1 DEF Tick
    <3>2. CASE Edit
      BY <1>0, <3>2, CreateFacts, BeginFacts, SaveFacts, MarkFacts DEF Edit
    <3>3. QED BY <1>5, <3>1, <3>2
  <2>2. QED BY <1>3, <1>5, <2>1
<1>6. QED BY <1>3, <1>4, <1>5 DEF Next, vars

(* A member is told once of an activity, however often sweeps fail and     *)
(* whatever requests change: a sweep about to write has found no notice,   *)
(* and if no other is running then none is written before its own.         *)
THEOREM ToldOnce == Spec => []NoticedOnce
<1>1. Init => NoticeInv
  <2> SUFFICES ASSUME Init PROVE NoticeInv
    OBVIOUS
  <2>1. TypeInv /\ \A w \in Sweepers : sweep[w] = NoSweep
    BY InitTypeInv DEF Init
  <2>2. overlapped = FALSE
    BY DEF Init
  <2>3. ASSUME NEW a \in Activities, NEW k \in Kinds, NEW m \in Members PROVE Bounded(a, k, m)
    <3>1. told[a][k][m] = 0
      BY DEF Init
    <3>2. Telling(a, k, m) = {}
      BY <2>1, Constants DEF Telling
    <3>3. QED BY <2>2, <3>1, <3>2, FS_EmptySet DEF Bounded
  <2>4. QED BY <2>1, <2>3 DEF NoticeInv
<1>2. NoticeInv => NoticedOnce
  <2> SUFFICES ASSUME NoticeInv, NEW a \in Activities, NEW k \in Kinds, NEW m \in Members
               PROVE  told[a][k][m] <= IF overlapped THEN Cardinality(Sweepers) ELSE 1
    BY DEF NoticedOnce
  <2>1. Bounded(a, k, m) /\ TypeInv
    BY DEF NoticeInv
  <2>2. QED BY <2>1, Numbers DEF Bounded
<1>3. QED BY <1>1, <1>2, NoticeStep, PTL DEF Spec
-------------------------------------------------------------------------------
(* In time                                                                 *)

(* Every notice, and every one that a sweep may still write, had a reason. *)
TimeInv ==
    /\ TypeInv
    /\ Reasons \subseteq wasDue
    /\ ToldOnlyWhenDue
    /\ \A w \in Sweepers : \A c \in sweep[w].todo \cup sweep[w].next :
         c.assignee \in Members => <<c.id, sweep[w].kind, c.assignee>> \in wasDue

LEMMA SweepHasReason ==
    ASSUME TimeInv, NEW w \in Sweepers, StartSweep(w) \/ Work(w) \/ Fail(w), Beside(w)
    PROVE  TimeInv'
<1>0. TypeInv /\ wasDue' = wasDue
  BY DEF TimeInv, Beside
<1>1. PICK q \in Sweep :
        /\ Goes(w, q) /\ q.at <= now
        /\ Stops(w, q) \/ Reads(w, q) \/ Skips(w, q) \/ TakesUp(w, q) \/ Tells(w, q)
  BY <1>0, SweepSteps
<1>2. sweep'[w] = q /\ \A v \in Sweepers \ {w} : sweep'[v] = sweep[v]
  BY <1>0, <1>1, Swept
<1>3. Reasons' \subseteq wasDue'
  <2>1. now' = now /\ activity' = activity /\ activityRows' = activityRows
    BY <1>0, SweepSteps DEF table
  <2>2. Reasons' = Reasons
    BY <2>1 DEF Reasons, DueFor, Pending, Active
  <2>3. QED BY <1>0, <2>2 DEF TimeInv
<1>4. ASSUME NEW c \in q.todo \cup q.next, c.assignee \in Members
      PROVE  <<c.id, q.kind, c.assignee>> \in wasDue
  <2>1. CASE Stops(w, q)
    BY <1>4, <2>1 DEF Stops
  <2>2. CASE Reads(w, q)
    <3>1. /\ c.id \in Pending /\ Timely(q.kind, c.id) /\ c.assignee = activity[c.id].assignee
      BY <1>4, <2>2 DEF Reads
    <3>2. c.id \in Activities /\ q.kind \in Kinds
      BY <1>0, <3>1 DEF Pending, Active, TypeInv, TypeOK, Sweep
    <3>3. DueFor(c.id, q.kind, c.assignee)
      BY <3>1 DEF DueFor, Timely
    <3>4. QED BY <1>4, <3>2, <3>3 DEF TimeInv, Reasons
  <2>3. CASE Skips(w, q) \/ TakesUp(w, q) \/ Tells(w, q)
    <3>1. q.kind = sweep[w].kind /\ c \in sweep[w].todo \cup sweep[w].next
      BY <1>4, <2>3 DEF Skips, TakesUp, Tells
    <3>2. QED BY <1>4, <3>1 DEF TimeInv
  <2>4. QED BY <1>1, <2>1, <2>2, <2>3
<1>5. ASSUME NEW a \in Activities, NEW k \in Kinds, NEW m \in Members, told'[a][k][m] > 0
      PROVE  <<a, k, m>> \in wasDue
  <2>1. CASE told' = told
    BY <1>5, <2>1 DEF TimeInv, ToldOnlyWhenDue
  <2>2. CASE Tells(w, q)
    <3>1. PICK c \in sweep[w].next :
             \A b \in Activities, j \in Kinds, n \in Members :
               told'[b][j][n] =
                 IF b = c.id /\ j = sweep[w].kind /\ n = c.assignee THEN told[b][j][n] + 1
                 ELSE told[b][j][n]
      BY <1>0, <2>2, TellsFacts
    <3>2. CASE a = c.id /\ k = sweep[w].kind /\ m = c.assignee
      BY <3>2 DEF TimeInv
    <3>3. CASE ~(a = c.id /\ k = sweep[w].kind /\ m = c.assignee)
      BY <1>5, <3>1, <3>3 DEF TimeInv, ToldOnlyWhenDue
    <3>4. QED BY <3>2, <3>3
  <2>3. QED BY <1>1, <2>1, <2>2 DEF Stops, Reads, Skips, TakesUp
<1>6. ASSUME NEW v \in Sweepers, NEW c \in sweep'[v].todo \cup sweep'[v].next,
             c.assignee \in Members
      PROVE  <<c.id, sweep'[v].kind, c.assignee>> \in wasDue
  <2>1. CASE v = w
    BY <1>2, <1>4, <1>6, <2>1
  <2>2. CASE v # w
    BY <1>2, <1>6, <2>2 DEF TimeInv
  <2>3. QED BY <2>1, <2>2
<1>7. TypeInv'
  BY <1>0, TypeStep DEF Next
<1>8. QED BY <1>0, <1>3, <1>5, <1>6, <1>7 DEF TimeInv, ToldOnlyWhenDue

LEMMA TimeStep == TimeInv /\ [Next]_vars => TimeInv'
<1> SUFFICES ASSUME TimeInv, [Next]_vars PROVE TimeInv'
  OBVIOUS
<1>0. TypeInv /\ TypeInv'
  BY TypeStep DEF TimeInv
<1>1. ASSUME NEW w \in Sweepers, StartSweep(w) \/ Work(w) \/ Fail(w), Beside(w) PROVE TimeInv'
  BY <1>1, SweepHasReason
<1>2. CASE (Edit \/ Tick) /\ Recorded
  <2>1. UNCHANGED <<sweep, told>>
    <3>1. CASE Tick
      BY <3>1 DEF Tick
    <3>2. CASE Edit
      BY <1>0, <3>2, CreateFacts, BeginFacts, SaveFacts, MarkFacts DEF Edit
    <3>3. QED BY <1>2, <3>1, <3>2
  <2>2. wasDue \subseteq wasDue' /\ Reasons' \subseteq wasDue'
    BY <1>2 DEF Recorded
  <2>3. QED BY <1>0, <2>1, <2>2 DEF TimeInv, ToldOnlyWhenDue
<1>3. CASE UNCHANGED vars
  <2>1. Reasons' = Reasons
    BY <1>3 DEF vars, Reasons, DueFor, Pending, Active
  <2>2. QED BY <1>0, <1>3, <2>1 DEF vars, TimeInv, ToldOnlyWhenDue
<1>4. QED BY <1>1, <1>2, <1>3 DEF Next, Recorded

(* Nobody is told of what was never due for them: an activity a sweep has  *)
(* read was its assignee's, pending and due at that moment, whatever has   *)
(* become of it when the notice is written.                                *)
THEOREM NeverWithoutReason == Spec => []ToldOnlyWhenDue
<1>1. Init => TimeInv
  <2> SUFFICES ASSUME Init PROVE TimeInv
    OBVIOUS
  <2>1. TypeInv /\ \A w \in Sweepers : sweep[w] = NoSweep
    BY InitTypeInv DEF Init
  <2>2. ToldOnlyWhenDue
    BY DEF Init, ToldOnlyWhenDue
  <2>3. Reasons \subseteq wasDue
    BY DEF Init
  <2>4. QED BY <2>1, <2>2, <2>3, Constants DEF TimeInv
<1>2. TimeInv => ToldOnlyWhenDue
  BY DEF TimeInv
<1>3. QED BY <1>1, <1>2, TimeStep, PTL DEF Spec
-------------------------------------------------------------------------------
(* None skipped                                                            *)

(* What sweep w has read and not dealt with yet.                           *)
Due(w) == sweep[w].todo \cup sweep[w].next

(* It has copies only while it serves an organisation, takes up one at a   *)
(* time, and each has an assignee.                                         *)
CopiesOK(w) ==
    /\ sweep[w].pc \in {"idle", "orgs"} => sweep[w].todo = {}
    /\ \A c, d \in sweep[w].next : c = d
    /\ \A c \in Due(w) : c.assignee \in Members

AssignInv ==
    /\ TypeInv
    /\ \A a \in activityRows : activity[a].assignee \in Members
    /\ \A w \in Sweepers : CopiesOK(w)

LEMMA InitAssign == Init => AssignInv
<1> SUFFICES ASSUME Init PROVE AssignInv
  OBVIOUS
<1>1. \A a \in activityRows : activity[a].assignee \in Members
  BY DEF Init, Mates
<1>2. ASSUME NEW w \in Sweepers PROVE CopiesOK(w)
  <2>1. sweep[w] = NoSweep
    BY DEF Init
  <2>2. QED BY <2>1, Constants DEF CopiesOK, Due
<1>3. QED BY <1>1, <1>2, InitTypeInv DEF AssignInv

(* Requests leave an activity with an assignee.                            *)
LEMMA SaveAssigns ==
    ASSUME AssignInv, NEW r \in Requests, SaveFields(r) \/ SaveStatus(r)
    PROVE  \A a \in activityRows : activity'[a].assignee \in Members
<1>1. PICK q \in Request : q = req[r]
  BY DEF AssignInv, TypeInv, TypeOK
<1>2. q.id \in activityRows /\ activityRows \subseteq Activities /\ activity \in [Activities -> Row]
  BY <1>1 DEF AssignInv, TypeInv, TypeOK, ReqOK, SaveFields, SaveStatus
<1>3. PICK row \in Row : row = activity[q.id]
  BY <1>2
<1>4. row.assignee \in Members /\ q.assignee \in Members \cup {Null}
  BY <1>2, <1>3 DEF AssignInv, Request
<1>5. ASSUME NEW new \in Row, new.assignee \in Members,
             activity' = [activity EXCEPT ![q.id] = new]
      PROVE  \A a \in activityRows : activity'[a].assignee \in Members
  BY <1>2, <1>5 DEF AssignInv
<1>6. CASE SaveFields(r)
  <2>1. PICK n \in Members, due \in Nat :
          /\ n = IF q.assignee = Null THEN row.assignee ELSE q.assignee
          /\ due = IF q.due = Null THEN row.due ELSE q.due
    BY <1>4 DEF Row, Request
  <2>2. activity' = [activity EXCEPT ![q.id] = [row EXCEPT !.assignee = n, !.due = due]]
    BY <1>1, <1>2, <1>3, <1>6, <2>1 DEF SaveFields
  <2>3. DEFINE new == [row EXCEPT !.assignee = n, !.due = due]
  <2>4. new \in Row /\ new.assignee = n
    BY DEF Row
  <2> HIDE DEF new
  <2>5. activity' = [activity EXCEPT ![q.id] = new]
    BY <2>2 DEF new
  <2>6. QED BY <1>5, <2>4, <2>5
<1>7. CASE SaveStatus(r) /\ q.was = "pending"
  <2>1. q.to = "done"
    BY <1>1, <1>7 DEF AssignInv, TypeInv, ReqOK, SaveStatus, Request
  <2>2. activity' = [activity EXCEPT ![q.id] = [row EXCEPT !.status = "done"]]
    BY <1>1, <1>2, <1>3, <1>7, <2>1 DEF SaveStatus
  <2>3. DEFINE new == [row EXCEPT !.status = "done"]
  <2>4. new \in Row /\ new.assignee = row.assignee
    BY DEF Row, Statuses
  <2> HIDE DEF new
  <2>5. activity' = [activity EXCEPT ![q.id] = new]
    BY <2>2 DEF new
  <2>6. QED BY <1>4, <1>5, <2>4, <2>5
<1>8. CASE SaveStatus(r) /\ q.was # "pending"
  BY <1>1, <1>8 DEF SaveStatus, AssignInv
<1>9. QED BY <1>6, <1>7, <1>8

LEMMA AssignStep == AssignInv /\ [Next]_vars => AssignInv'
<1> SUFFICES ASSUME AssignInv, [Next]_vars PROVE AssignInv'
  OBVIOUS
<1>0. TypeInv /\ TypeInv' /\ activityRows \subseteq Activities
  BY TypeStep DEF AssignInv, TypeInv, TypeOK
<1> DEFINE Good == /\ \A a \in activityRows' : activity'[a].assignee \in Members
                   /\ \A w \in Sweepers : CopiesOK(w)'
<1>1. ASSUME NEW w \in Sweepers, StartSweep(w) \/ Work(w) \/ Fail(w) PROVE Good
  <2>1. PICK q \in Sweep :
          /\ Goes(w, q)
          /\ Stops(w, q) \/ Reads(w, q) \/ Skips(w, q) \/ TakesUp(w, q) \/ Tells(w, q)
    BY <1>0, <1>1, SweepSteps
  <2>2. sweep'[w] = q /\ \A v \in Sweepers \ {w} : sweep'[v] = sweep[v]
    BY <1>0, <2>1, Swept
  <2>3. UNCHANGED <<activityRows, activity>>
    BY <1>0, <1>1, SweepSteps DEF table
  <2>4. /\ q.pc \in {"idle", "orgs"} => q.todo = {}
        /\ \A c, d \in q.next : c = d
    BY <2>1 DEF Stops, Reads, Skips, TakesUp, Tells
  <2>5. ASSUME NEW c \in q.todo \cup q.next PROVE c.assignee \in Members
    <3>1. CASE Stops(w, q)
      BY <2>5, <3>1 DEF Stops
    <3>2. CASE Reads(w, q)
      BY <2>5, <3>2 DEF Reads, AssignInv, Pending, Active
    <3>3. CASE Skips(w, q) \/ TakesUp(w, q) \/ Tells(w, q)
      BY <2>5, <3>3 DEF Skips, TakesUp, Tells, AssignInv, CopiesOK, Due
    <3>4. QED BY <2>1, <3>1, <3>2, <3>3
  <2>6. CopiesOK(w)'
    BY <2>2, <2>4, <2>5 DEF CopiesOK, Due
  <2>7. \A v \in Sweepers \ {w} : CopiesOK(v)'
    BY <2>2 DEF AssignInv, CopiesOK, Due
  <2>8. QED BY <2>3, <2>6, <2>7 DEF AssignInv
<1>2. ASSUME sweep' = sweep, \A a \in activityRows' : activity'[a].assignee \in Members PROVE Good
  BY <1>2 DEF AssignInv, CopiesOK, Due
<1>3. ASSUME NEW a \in Activities, NEW m \in Members, NEW n \in Members, NEW due \in Dates,
             Create(a, m, n, due)
      PROVE  Good
  <2>1. activity'[a].assignee = n
    BY <1>0, <1>3 DEF Create, TypeInv, TypeOK
  <2>2. QED BY <1>0, <1>2, <1>3, <2>1, CreateFacts DEF AssignInv
<1>4. ASSUME NEW r \in Requests, SaveFields(r) \/ SaveStatus(r) PROVE Good
  BY <1>0, <1>2, <1>4, SaveAssigns, SaveFacts
<1>5. ASSUME NEW a \in Activities, NEW m \in Members, Delete(a, m) \/ Restore(a, m) PROVE Good
  BY <1>0, <1>2, <1>5, MarkFacts DEF AssignInv
<1>6. ASSUME NEW r \in Requests, NEW a \in Activities, NEW m \in Members,
             NEW n \in Members \cup {Null}, NEW due \in Dates \cup {Null}, NEW to \in {"done", Null},
             BeginPatch(r, a, m, n, due, to)
      PROVE  Good
  BY <1>0, <1>2, <1>6, BeginFacts DEF table, AssignInv
<1>7. ASSUME Tick \/ UNCHANGED vars PROVE Good
  BY <1>2, <1>7 DEF Tick, table, vars, AssignInv
<1> HIDE DEF Good
<1>8. Good
  <2>1. CASE Edit
    BY <1>3, <1>4, <1>5, <1>6, <2>1 DEF Edit
  <2>2. QED BY <1>1, <1>7, <2>1 DEF Next
<1>9. QED BY <1>0, <1>8 DEF AssignInv, Good

(* A copy stays with its sweep, for the same kind of notice, or a notice   *)
(* to its assignee is there.                                               *)
Carried(w, c) == c \in Due(w)' /\ sweep'[w].kind = sweep[w].kind
Settled(w, c) == told'[c.id][sweep[w].kind][c.assignee] > 0

(* Notices stay.                                                           *)
NoticesStay == \A a \in Activities, k \in Kinds, m \in Members : told[a][k][m] <= told'[a][k][m]

(* A step of a sweep that does not fail.                                   *)
LEMMA SweepKeeps ==
    ASSUME AssignInv, NEW w \in Sweepers, StartSweep(w) \/ Work(w), NEW c \in Due(w)
    PROVE  Carried(w, c) \/ Settled(w, c)
<1>0. TypeInv
  BY DEF AssignInv
<1>1. PICK p \in Sweep : p = sweep[w]
  BY <1>0, Sweeping
<1>2. /\ p.pc \in {"idle", "orgs"} => p.todo = {}
      /\ p.pc # "insert" => p.next = {}
      /\ \A d, e \in p.next : d = e
      /\ c \in p.todo \cup p.next /\ c.assignee \in Members /\ c \in Copy /\ c.id \in Activities
  BY <1>0, <1>1, Sweeping DEF AssignInv, CopiesOK, Due, SweepOK, Sweep, Copy
<1>3. CASE StartSweep(w) \/ ReadSoon(w) \/ ReadOverdue(w) \/ LeaveOrg(w)
  BY <1>1, <1>2, <1>3 DEF StartSweep, ReadSoon, ReadOverdue, LeaveOrg
<1>4. CASE Check(w)
  <2>1. PICK d \in p.todo :
         Goes(w, IF AlreadySent(d, p.kind) THEN [p EXCEPT !.todo = @ \ {d}]
                 ELSE [p EXCEPT !.pc = "insert", !.todo = @ \ {d}, !.next = {d}])
    BY <1>1, <1>4 DEF Check
  <2>2. c \in p.todo /\ told' = told /\ d \in Copy /\ p.todo \in SUBSET Copy
    BY <1>1, <1>2, <1>4 DEF Check, Sweep
  <2>3. CASE AlreadySent(d, p.kind)
    <3> DEFINE q == [p EXCEPT !.todo = @ \ {d}]
    <3>0. Goes(w, q)
      BY <2>1, <2>3
    <3>1. q \in Sweep /\ q.todo = p.todo \ {d} /\ q.next = p.next /\ q.kind = p.kind
      BY <2>2 DEF Sweep
    <3> HIDE DEF q
    <3>2. sweep'[w] = q
      BY <1>0, <3>0, <3>1, Swept
    <3>3. CASE c = d
      BY <1>1, <2>2, <2>3, <3>3 DEF AlreadySent, Settled
    <3>4. CASE c # d
      BY <1>1, <2>2, <3>1, <3>2, <3>4 DEF Carried, Due
    <3>5. QED BY <3>3, <3>4
  <2>4. CASE ~AlreadySent(d, p.kind)
    <3> DEFINE q == [p EXCEPT !.pc = "insert", !.todo = @ \ {d}, !.next = {d}]
    <3>0. Goes(w, q)
      BY <2>1, <2>4
    <3>1. q \in Sweep /\ q.todo = p.todo \ {d} /\ q.next = {d} /\ q.kind = p.kind
      BY <2>2 DEF Sweep
    <3> HIDE DEF q
    <3>2. sweep'[w] = q
      BY <1>0, <3>0, <3>1, Swept
    <3>3. QED BY <1>1, <2>2, <3>1, <3>2 DEF Carried, Due
  <2>5. QED BY <2>3, <2>4
<1>5. CASE Insert(w)
  <2>1. PICK q \in Sweep, d \in p.next :
             /\ Goes(w, q) /\ q.kind = p.kind /\ q.todo = p.todo
             /\ Notify(d.id, p.kind, d.assignee)
    BY <1>0, <1>1, <1>5, InsertFacts
  <2>2. sweep'[w] = q
    BY <1>0, <2>1, Swept
  <2>3. CASE c \in p.todo
    BY <1>1, <2>1, <2>2, <2>3 DEF Carried, Due
  <2>4. CASE c \in p.next
    <3>1. c = d /\ p.kind \in Kinds
      BY <1>2, <2>1, <2>4 DEF Sweep
    <3>2. told \in [Activities -> [Kinds -> [Members -> Nat]]]
      BY <1>0 DEF TypeInv, TypeOK
    <3>3. told'[c.id][p.kind][c.assignee] = told[c.id][p.kind][c.assignee] + 1
      BY <1>2, <2>1, <3>1, <3>2, Noticed
    <3>4. told[c.id][p.kind][c.assignee] \in Nat
      BY <1>2, <3>1, <3>2
    <3>5. QED BY <1>1, <3>3, <3>4 DEF Settled
  <2>5. QED BY <1>2, <2>3, <2>4
<1>6. QED BY <1>3, <1>4, <1>5 DEF Work

LEMMA NoticesOnlyGrow == ASSUME TypeInv, [Next]_vars PROVE NoticesStay
<1>0. told \in [Activities -> [Kinds -> [Members -> Nat]]]
  BY DEF TypeInv, TypeOK
<1>1. ASSUME told' = told PROVE NoticesStay
  <2>1. ASSUME NEW b \in Activities, NEW j \in Kinds, NEW m \in Members
        PROVE  told[b][j][m] <= told'[b][j][m]
    <3>1. PICK n \in Nat : n = told[b][j][m]
      BY <1>0
    <3>2. QED BY <1>1, <3>1
  <2>2. QED BY <2>1 DEF NoticesStay
<1>2. ASSUME NEW w \in Sweepers, StartSweep(w) \/ Work(w) \/ Fail(w) PROVE NoticesStay
  <2>1. PICK q \in Sweep :
          Stops(w, q) \/ Reads(w, q) \/ Skips(w, q) \/ TakesUp(w, q) \/ Tells(w, q)
    BY <1>2, SweepSteps
  <2>2. CASE Tells(w, q)
    <3>1. PICK c \in sweep[w].next :
             \A b \in Activities, j \in Kinds, m \in Members :
               told'[b][j][m] =
                 IF b = c.id /\ j = sweep[w].kind /\ m = c.assignee THEN told[b][j][m] + 1
                 ELSE told[b][j][m]
      BY <2>2, TellsFacts
    <3>2. ASSUME NEW b \in Activities, NEW j \in Kinds, NEW m \in Members
          PROVE  told[b][j][m] <= told'[b][j][m]
      <4>1. PICK n \in Nat : n = told[b][j][m]
        BY <1>0
      <4>2. told'[b][j][m] = n \/ told'[b][j][m] = n + 1
        BY <3>1, <4>1
      <4>3. QED BY <4>1, <4>2
    <3>3. QED BY <3>2 DEF NoticesStay
  <2>3. QED BY <1>1, <2>1, <2>2 DEF Stops, Reads, Skips, TakesUp
<1>3. CASE Edit
  BY <1>1, <1>3, CreateFacts, BeginFacts, SaveFacts, MarkFacts DEF Edit
<1>4. CASE Tick \/ UNCHANGED vars
  BY <1>1, <1>4 DEF Tick, vars
<1>5. QED BY <1>2, <1>3, <1>4 DEF Next

(* A sweep that does not fail skips none of the activities it has read,    *)
(* whatever other sweeps and requests do in between: each stays on its     *)
(* list until a notice to its assignee is there, and a notice stays.       *)
(* Together with the fairness of the sweeps this is why OverdueTold holds. *)
THEOREM WhatIsReadIsTold ==
    Spec => [][ /\ NoticesStay
                /\ faults' = faults =>
                     \A w \in Sweepers : \A c \in Due(w) : Carried(w, c) \/ Settled(w, c) ]_vars
<1>1. ASSUME AssignInv, Next, faults' = faults, NEW w \in Sweepers, NEW c \in Due(w)
      PROVE  Carried(w, c) \/ Settled(w, c)
  <2>0. TypeInv
    BY <1>1 DEF AssignInv
  <2>1. ASSUME sweep'[w] = sweep[w] PROVE Carried(w, c)
    BY <1>1, <2>1 DEF Carried, Due
  <2>2. ASSUME NEW v \in Sweepers, StartSweep(v) \/ Work(v) \/ Fail(v)
        PROVE  Carried(w, c) \/ Settled(w, c)
    <3>1. ~Fail(v)
      <4>1. faults \in Nat
        BY <2>0 DEF TypeInv, TypeOK
      <4>2. QED BY <1>1, <4>1 DEF Fail
    <3>2. CASE v = w
      BY <1>1, <2>2, <3>1, <3>2, SweepKeeps
    <3>3. CASE v # w
      <4>1. \E q \in Sweep : Goes(v, q)
        BY <2>0, <2>2, SweepSteps
      <4>2. sweep'[w] = sweep[w]
        BY <2>0, <3>3, <4>1, Swept
      <4>3. QED BY <2>1, <4>2
    <3>4. QED BY <3>2, <3>3
  <2>3. ASSUME Edit \/ Tick PROVE Carried(w, c)
    <3>1. sweep' = sweep
      <4>1. CASE Tick
        BY <4>1 DEF Tick
      <4>2. CASE Edit
        BY <2>0, <4>2, CreateFacts, BeginFacts, SaveFacts, MarkFacts DEF Edit
      <4>3. QED BY <2>3, <4>1, <4>2
    <3>2. QED BY <2>1, <3>1
  <2>4. QED BY <1>1, <2>2, <2>3 DEF Next
<1>2. ASSUME AssignInv, [Next]_vars
      PROVE  [ /\ NoticesStay
               /\ faults' = faults =>
                    \A w \in Sweepers : \A c \in Due(w) : Carried(w, c) \/ Settled(w, c) ]_vars
  BY <1>1, <1>2, NoticesOnlyGrow DEF AssignInv
<1>3. QED BY <1>2, InitAssign, AssignStep, PTL DEF Spec
===============================================================================
