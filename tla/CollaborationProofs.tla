-------------------------- MODULE CollaborationProofs --------------------------
(***************************************************************************)
(* Proofs about Collaboration, for any members, roles, bodies and number   *)
(* of workers.                                                             *)
(***************************************************************************)
EXTENDS Collaboration, TLAPS

(* In the transaction of an edit that holds the row, or of a POST.         *)
Writing(r) == req[r].pc \in {"clear", "find", "tell", "commit"}
Cleared(r) == req[r].pc \in {"find", "tell", "commit"}
Resolved(r) == req[r].pc \in {"tell", "commit"}

(* What a request knows: whether the row was there, the mentions it has    *)
(* deleted, and those it inserts.  A new row is not deleted.               *)
ReqOK(r) ==
    /\ req[r].pc # "idle" => req[r].row.exists = comment.exists
    /\ req[r].pc \in {"save", "clear", "deleting"} => req[r].row.exists
    /\ req[r].pc # "idle" /\ ~req[r].row.exists => ~req[r].row.deleted
    /\ Cleared(r) => req[r].cleared = mentions
    /\ Resolved(r) => \A m \in Members :
         /\ m \in req[r].found => m \in req[r].row.body
         /\ m \in req[r].row.body \ away => m \in req[r].found

MentionInv ==
    /\ TypeOK
    /\ MentionsMatchBody
    /\ \A m \in Members : m \in active \/ m \in away
    /\ comment.deleted => comment.exists
    /\ ~comment.exists => /\ mentions = Nobody
                          /\ \A r, s \in Requests : req[r].pc # "idle" /\ req[s].pc # "idle" => r = s
    /\ \A r \in Requests : ReqOK(r)
    /\ \A r, s \in Requests : Writing(r) /\ Writing(s) => r = s

-------------------------------------------------------------------------------
LEMMA Constants ==
    /\ NoComment \in Comment /\ ~NoComment.exists /\ ~NoComment.deleted
    /\ Nobody \in [Members -> Nat] /\ \A m \in Members : Nobody[m] = 0
    /\ Idle \in Request /\ Idle.pc = "idle"
<1>1. (CHOOSE b \in Bodies : TRUE) \in Bodies /\ FirstOwner \in Members
  BY BodyAssumption, MemberAssumption
<1>2. NoComment \in Comment /\ ~NoComment.exists /\ ~NoComment.deleted
  BY <1>1 DEF NoComment, Comment
<1>3. Nobody \in [Members -> Nat] /\ \A m \in Members : Nobody[m] = 0
  BY DEF Nobody
<1>4. QED BY <1>2, <1>3 DEF Idle, Request

LEMMA Moved ==
    ASSUME TypeOK, NEW r \in Requests, NEW q \in Request, Becomes(r, q)
    PROVE  /\ req' \in [Requests -> Request] /\ req'[r] = q
           /\ \A s \in Requests \ {r} : req'[s] = req[s]
BY DEF TypeOK, Becomes

LEMMA Counts ==
    ASSUME NEW f \in [Members -> Nat], NEW S
    PROVE  /\ Add(f, S) \in [Members -> Nat]
           /\ \A m \in Members : Add(f, S)[m] = IF m \in S THEN f[m] + 1 ELSE f[m]
BY DEF Add

(* A step of r outside the tables: it goes from a state to one that knows  *)
(* as much.                                                                *)
LEMMA Steps ==
    ASSUME MentionInv, NEW r \in Requests, NEW q \in Request, Becomes(r, q),
           UNCHANGED <<table, active, away, owner>>,
           {queue, mails}' \subseteq [Members -> Nat], begun' \in Nat,
           q.pc # "idle" => q.row.exists = comment.exists,
           q.pc \in {"save", "clear", "deleting"} => q.row.exists,
           q.pc # "idle" /\ ~q.row.exists => ~q.row.deleted,
           q.pc \in {"find", "tell", "commit"} => q.cleared = mentions,
           q.pc \in {"tell", "commit"} => \A m \in Members :
             /\ m \in q.found => m \in q.row.body
             /\ m \in q.row.body \ away => m \in q.found,
           q.pc \in {"clear", "find", "tell", "commit"} =>
             \A s \in Requests \ {r} : ~Writing(s),
           ~comment.exists /\ q.pc # "idle" => \A s \in Requests \ {r} : req[s].pc = "idle"
    PROVE  MentionInv'
<1>1. UNCHANGED <<comment, mentions, notices, active, away, owner>>
  BY DEF table
<1>2. /\ req' \in [Requests -> Request] /\ req'[r] = q
      /\ \A s \in Requests \ {r} : req'[s] = req[s]
  BY Moved DEF MentionInv
<1>3. TypeOK'
  BY <1>1, <1>2 DEF MentionInv, TypeOK
<1>4. ASSUME NEW s \in Requests PROVE ReqOK(s)'
  <2>1. CASE s = r
    BY <1>1, <1>2, <2>1 DEF ReqOK, Cleared, Resolved
  <2>2. CASE s # r
    BY <1>1, <1>2, <2>2 DEF MentionInv, ReqOK, Cleared, Resolved
  <2>3. QED BY <2>1, <2>2
<1>5. ASSUME NEW o \in Requests, NEW s \in Requests, Writing(o)', Writing(s)' PROVE o = s
  BY <1>2, <1>5 DEF MentionInv, Writing
<1>6. ~comment.exists => /\ mentions = Nobody
                         /\ \A o, s \in Requests : req'[o].pc # "idle" /\ req'[s].pc # "idle" => o = s
  BY <1>2 DEF MentionInv
<1>7. MentionsMatchBody' /\ (\A m \in Members : m \in active' \/ m \in away')
      /\ (comment'.deleted => comment'.exists)
  BY <1>1 DEF MentionInv, MentionsMatchBody
<1>8. QED BY <1>1, <1>3, <1>4, <1>5, <1>6, <1>7 DEF MentionInv

-------------------------------------------------------------------------------
(* The steps of a request up to its commit.                                *)
LEMMA BeginCreateSafe ==
    ASSUME MentionInv, NEW r \in Requests, NEW m \in Members, NEW body \in Bodies,
           BeginCreate(r, m, body)
    PROVE  MentionInv'
<1> DEFINE row == [NoComment EXCEPT !.author = m, !.body = body]
           q == [Idle EXCEPT !.pc = "find", !.row = row]
<1>1. row \in Comment /\ ~row.exists /\ ~row.deleted
  BY Constants DEF NoComment, Comment
<1>2. q.pc = "find" /\ q.row = row /\ q.cleared = Nobody
  BY DEF Idle
<1>3. q \in Request
  BY <1>1, Constants DEF Idle, Request
<1>4. Becomes(r, q) /\ ~comment.exists /\ (\A s \in Requests : req[s].pc = "idle")
      /\ begun' = begun + 1 /\ UNCHANGED <<table, mail, team>>
  BY DEF BeginCreate, Begin
<1>5. begun' \in Nat /\ {queue, mails}' \subseteq [Members -> Nat]
      /\ UNCHANGED <<table, active, away, owner>>
  BY <1>4 DEF MentionInv, TypeOK, mail, team
<1>6. mentions = Nobody
  BY <1>4 DEF MentionInv
<1>7. comment.exists = q.row.exists
  BY <1>1, <1>2, <1>4 DEF MentionInv, TypeOK, Comment
<1>8. \A s \in Requests : ~Writing(s)
  BY <1>4 DEF Writing
<1> HIDE DEF q, row
<1>9. QED BY <1>1, <1>2, <1>3, <1>4, <1>5, <1>6, <1>7, <1>8, Steps

LEMMA BeginPatchSafe ==
    ASSUME MentionInv, NEW r \in Requests, NEW m \in Members, NEW body \in Bodies,
           BeginPatch(r, m, body)
    PROVE  MentionInv'
<1>1. PICK c \in Comment : c = comment
  BY DEF MentionInv, TypeOK
<1> DEFINE row == [c EXCEPT !.body = body]
           q == [Idle EXCEPT !.pc = "save", !.row = row]
<1>2. row \in Comment /\ row.exists = c.exists
  BY DEF Comment
<1>3. q.pc = "save" /\ q.row = row
  BY DEF Idle
<1>4. q \in Request
  BY <1>2, Constants DEF Idle, Request
<1>5. Becomes(r, q) /\ comment.exists /\ begun' = begun + 1 /\ UNCHANGED <<table, mail, team>>
  BY <1>1 DEF BeginPatch, Begin, Visible
<1>6. begun' \in Nat /\ {queue, mails}' \subseteq [Members -> Nat]
      /\ UNCHANGED <<table, active, away, owner>>
  BY <1>5 DEF MentionInv, TypeOK, mail, team
<1> HIDE DEF q, row
<1>7. QED BY <1>1, <1>2, <1>3, <1>4, <1>5, <1>6, Steps

LEMMA BeginDeleteSafe ==
    ASSUME MentionInv, NEW r \in Requests, NEW m \in Members, BeginDelete(r, m)
    PROVE  MentionInv'
<1> DEFINE q == [Idle EXCEPT !.pc = "deleting", !.row = comment]
<1>1. q.pc = "deleting" /\ q.row = comment
  BY DEF Idle
<1>2. q \in Request
  BY Constants DEF MentionInv, TypeOK, Idle, Request
<1>3. Becomes(r, q) /\ comment.exists /\ begun' = begun + 1 /\ UNCHANGED <<table, mail, team>>
  BY DEF BeginDelete, Begin, Visible
<1>4. begun' \in Nat /\ {queue, mails}' \subseteq [Members -> Nat]
      /\ UNCHANGED <<table, active, away, owner>>
  BY <1>3 DEF MentionInv, TypeOK, mail, team
<1> HIDE DEF q
<1>5. QED BY <1>1, <1>2, <1>3, <1>4, Steps

LEMMA RollbackSafe ==
    ASSUME MentionInv, NEW r \in Requests, Rollback(r)
    PROVE  MentionInv'
<1>1. Becomes(r, Idle) /\ UNCHANGED <<table, mail, team, begun>>
  BY DEF Rollback
<1>2. begun' \in Nat /\ {queue, mails}' \subseteq [Members -> Nat]
      /\ UNCHANGED <<table, active, away, owner>>
  BY <1>1 DEF MentionInv, TypeOK, mail, team
<1>3. QED BY <1>1, <1>2, Constants, Steps

(* The others are idle when the comment is not there, and outside their    *)
(* transactions when r is in its own.                                      *)
LEMMA Alone ==
    ASSUME MentionInv, NEW r \in Requests
    PROVE  /\ ~comment.exists /\ req[r].pc # "idle" => \A s \in Requests \ {r} : req[s].pc = "idle"
           /\ Writing(r) => \A s \in Requests \ {r} : ~Writing(s)
BY DEF MentionInv

LEMMA SaveSafe ==
    ASSUME MentionInv, NEW r \in Requests, Save(r)
    PROVE  MentionInv'
<1>1. PICK p \in Request : p = req[r]
  BY DEF MentionInv, TypeOK
<1> DEFINE q == [p EXCEPT !.pc = "clear"]
<1>2. q.pc = "clear" /\ q.row = p.row /\ q \in Request
  BY DEF Request
<1>3. Becomes(r, q) /\ p.pc = "save" /\ ~Locked /\ UNCHANGED <<table, mail, team, begun>>
  BY <1>1 DEF Save
<1>4. begun' \in Nat /\ {queue, mails}' \subseteq [Members -> Nat]
      /\ UNCHANGED <<table, active, away, owner>>
  BY <1>3 DEF MentionInv, TypeOK, mail, team
<1>5. p.row.exists /\ comment.exists
  BY <1>1, <1>3 DEF MentionInv, ReqOK
<1>6. \A s \in Requests : ~Writing(s)
  BY <1>3, <1>5 DEF MentionInv, ReqOK, Writing, Locked
<1> HIDE DEF q
<1>7. QED BY <1>2, <1>3, <1>4, <1>5, <1>6, Steps

LEMMA ClearSafe ==
    ASSUME MentionInv, NEW r \in Requests, Clear(r)
    PROVE  MentionInv'
<1>1. PICK p \in Request : p = req[r]
  BY DEF MentionInv, TypeOK
<1> DEFINE q == [p EXCEPT !.pc = "find", !.cleared = mentions]
<1>2. q.pc = "find" /\ q.row = p.row /\ q.cleared = mentions
  BY DEF Request
<1>3. q \in Request
  BY DEF Request, MentionInv, TypeOK
<1>4. Becomes(r, q) /\ p.pc = "clear" /\ UNCHANGED <<table, mail, team, begun>>
  BY <1>1 DEF Clear, Old
<1>5. begun' \in Nat /\ {queue, mails}' \subseteq [Members -> Nat]
      /\ UNCHANGED <<table, active, away, owner>>
  BY <1>4 DEF MentionInv, TypeOK, mail, team
<1>6. p.row.exists /\ comment.exists
  BY <1>1, <1>4 DEF MentionInv, ReqOK
<1>7. \A s \in Requests \ {r} : ~Writing(s)
  BY <1>1, <1>4, Alone DEF Writing
<1> HIDE DEF q
<1>8. QED BY <1>2, <1>3, <1>4, <1>5, <1>6, <1>7, Steps

(* Whoever the body names and has been a member all the time is found.     *)
LEMMA FindSafe ==
    ASSUME MentionInv, NEW r \in Requests, Find(r)
    PROVE  MentionInv'
<1>1. PICK p \in Request : p = req[r]
  BY DEF MentionInv, TypeOK
<1> DEFINE found == Found(p.row.body)
           q == [p EXCEPT !.pc = IF found = {} THEN "commit" ELSE "tell",
                          !.found = found, !.pending = found]
<1>2. found \subseteq Members /\ found = p.row.body \cap active
  BY DEF Found, MentionInv, TypeOK
<1> HIDE DEF found
<1>3. q.pc \in {"tell", "commit"} /\ q.row = p.row /\ q.cleared = p.cleared /\ q.found = found
      /\ q \in Request
  BY <1>2 DEF Request
<1>4. Becomes(r, q) /\ p.pc = "find" /\ UNCHANGED <<table, mail, team, begun>>
  BY <1>1 DEF Find, found
<1>5. begun' \in Nat /\ {queue, mails}' \subseteq [Members -> Nat]
      /\ UNCHANGED <<table, active, away, owner>>
  BY <1>4 DEF MentionInv, TypeOK, mail, team
<1>6. /\ p.row.exists = comment.exists /\ p.cleared = mentions
      /\ ~p.row.exists => ~p.row.deleted
  BY <1>1, <1>4 DEF MentionInv, ReqOK, Cleared
<1>7. \A m \in Members : /\ m \in found => m \in p.row.body
                         /\ m \in p.row.body \ away => m \in found
  BY <1>2 DEF MentionInv
<1>8. /\ ~comment.exists => \A s \in Requests \ {r} : req[s].pc = "idle"
      /\ \A s \in Requests \ {r} : ~Writing(s)
  BY <1>1, <1>4, Alone DEF Writing
<1> HIDE DEF q
<1>9. QED BY <1>3, <1>4, <1>5, <1>6, <1>7, <1>8, Steps

LEMMA TellSafe ==
    ASSUME MentionInv, NEW r \in Requests, Tell(r)
    PROVE  MentionInv'
<1>1. PICK p \in Request : p = req[r]
  BY DEF MentionInv, TypeOK
<1>2. PICK m \in p.pending :
        LET told == IF ParentScope(m) = "none" THEN {} ELSE {m} IN
        /\ queue' = Add(queue, told)
        /\ Becomes(r, [p EXCEPT !.pending = @ \ {m}, !.noted = @ \cup told,
                                !.pc = IF p.pending = {m} THEN "commit" ELSE "tell"])
  BY <1>1 DEF Tell
<1> DEFINE told == IF ParentScope(m) = "none" THEN {} ELSE {m}
           q == [p EXCEPT !.pending = @ \ {m}, !.noted = @ \cup told,
                          !.pc = IF p.pending = {m} THEN "commit" ELSE "tell"]
<1>3. queue' = Add(queue, told) /\ Becomes(r, q)
  BY <1>2
<1>4. told \subseteq Members
  BY DEF Request
<1> HIDE DEF told
<1>5. q.pc \in {"tell", "commit"} /\ q.row = p.row /\ q.cleared = p.cleared /\ q.found = p.found
      /\ q \in Request
  BY <1>4 DEF Request
<1>6. p.pc = "tell" /\ UNCHANGED <<table, mails, team, begun>>
  BY <1>1 DEF Tell
<1>7. queue' \in [Members -> Nat]
  BY <1>3, Counts DEF MentionInv, TypeOK
<1>8. begun' \in Nat /\ {queue, mails}' \subseteq [Members -> Nat]
      /\ UNCHANGED <<table, active, away, owner>>
  BY <1>6, <1>7 DEF MentionInv, TypeOK, team
<1>9. /\ p.row.exists = comment.exists /\ p.cleared = mentions
      /\ ~p.row.exists => ~p.row.deleted
      /\ \A n \in Members : /\ n \in p.found => n \in p.row.body
                            /\ n \in p.row.body \ away => n \in p.found
  BY <1>1, <1>6 DEF MentionInv, ReqOK, Cleared, Resolved
<1>10. /\ ~comment.exists => \A s \in Requests \ {r} : req[s].pc = "idle"
       /\ \A s \in Requests \ {r} : ~Writing(s)
  BY <1>1, <1>6, Alone DEF Writing
<1> HIDE DEF q
<1>11. QED BY <1>3, <1>5, <1>8, <1>9, <1>10, Steps

-------------------------------------------------------------------------------
(* The steps on the tables.                                                *)

(* r has the row to itself and knows the committed mentions, so the commit *)
(* leaves those it has found.                                              *)
LEMMA CommitSafe ==
    ASSUME MentionInv, NEW r \in Requests, Commit(r)
    PROVE  /\ MentionInv' /\ comment'.exists
           /\ comment.deleted => comment'.deleted
<1>1. PICK p \in Request : p = req[r]
  BY DEF MentionInv, TypeOK
<1>2. PICK c \in Comment : c = comment
  BY DEF MentionInv, TypeOK
<1>3. /\ p.pc = "commit" /\ comment' = Written(p.row)
      /\ mentions' = Add([m \in Members |-> mentions[m] - p.cleared[m]], p.found)
      /\ notices' = Add(notices, p.noted)
      /\ Becomes(r, Idle) /\ UNCHANGED <<mail, team, begun>>
  BY <1>1 DEF Commit
<1>4. UNCHANGED <<queue, mails, active, away, owner, begun>>
  BY <1>3 DEF mail, team
<1>5. /\ p.row.exists = comment.exists /\ p.cleared = mentions
      /\ \A m \in Members : /\ m \in p.found => m \in p.row.body
                            /\ m \in p.row.body \ away => m \in p.found
  BY <1>1, <1>3 DEF MentionInv, ReqOK, Cleared, Resolved
<1>6. /\ ~comment.exists => \A s \in Requests \ {r} : req[s].pc = "idle"
      /\ \A s \in Requests \ {r} : ~Writing(s)
  BY <1>1, <1>3, Alone DEF Writing
<1>7. comment' \in Comment /\ comment'.exists /\ comment'.body = p.row.body
      /\ (c.exists => comment'.deleted = c.deleted)
  <2>1. CASE p.row.exists
    <3>1. comment' = [c EXCEPT !.body = p.row.body]
      BY <1>2, <1>3, <2>1 DEF Written
    <3>2. c.exists /\ p.row.body \in Bodies
      BY <1>2, <1>5, <2>1 DEF Request, Comment
    <3>3. QED BY <3>1, <3>2 DEF Comment
  <2>2. CASE ~p.row.exists
    <3>1. PICK row \in Comment : row = p.row
      BY DEF Request
    <3>2. comment' = [row EXCEPT !.exists = TRUE]
      BY <1>3, <2>2, <3>1 DEF Written
    <3>3. ~c.exists
      BY <1>2, <1>5, <2>2
    <3>4. QED BY <3>1, <3>2, <3>3 DEF Comment
  <2>3. QED BY <2>1, <2>2
<1>8. mentions' \in [Members -> Nat]
      /\ \A m \in Members : mentions'[m] = IF m \in p.found THEN 1 ELSE 0
  <2> DEFINE left == [m \in Members |-> mentions[m] - p.cleared[m]]
  <2>1. mentions \in [Members -> Nat]
    BY DEF MentionInv, TypeOK
  <2>2. left \in [Members -> Nat] /\ \A m \in Members : left[m] = 0
    BY <1>5, <2>1
  <2>3. mentions' = Add(left, p.found)
    BY <1>3
  <2> HIDE DEF left
  <2>4. QED BY <2>2, <2>3, Counts
<1>9. notices' \in [Members -> Nat]
  BY <1>3, Counts DEF MentionInv, TypeOK
<1>10. /\ req' \in [Requests -> Request] /\ req'[r] = Idle
       /\ \A s \in Requests \ {r} : req'[s] = req[s]
  BY <1>3, Constants, Moved DEF MentionInv
<1>11. TypeOK'
  BY <1>4, <1>7, <1>8, <1>9, <1>10 DEF MentionInv, TypeOK
<1>12. MentionsMatchBody'
  BY <1>4, <1>5, <1>7, <1>8 DEF MentionsMatchBody
<1>13. ASSUME NEW s \in Requests PROVE ReqOK(s)'
  <2>1. CASE s = r
    BY <1>10, <2>1, Constants DEF ReqOK, Cleared, Resolved
  <2>2. CASE s # r
    <3>1. req'[s] = req[s] /\ ~Writing(s) /\ ReqOK(s)
      BY <1>6, <1>10, <2>2 DEF MentionInv
    <3>2. CASE comment.exists
      BY <1>7, <3>1, <3>2 DEF ReqOK, Cleared, Resolved, Writing
    <3>3. CASE ~comment.exists
      BY <1>6, <2>2, <3>1, <3>3 DEF ReqOK, Cleared, Resolved, Writing
    <3>4. QED BY <3>2, <3>3
  <2>3. QED BY <2>1, <2>2
<1>14. ASSUME NEW o \in Requests, NEW s \in Requests, Writing(o)', Writing(s)' PROVE o = s
  BY <1>6, <1>10, <1>14, Constants DEF Writing
<1>15. comment.deleted => comment'.deleted
  BY <1>2, <1>7 DEF MentionInv
<1>16. \A m \in Members : m \in active' \/ m \in away'
  BY <1>4 DEF MentionInv
<1>17. QED BY <1>7, <1>11, <1>12, <1>13, <1>14, <1>15, <1>16 DEF MentionInv

(* The mark of a deleted comment comes and goes; the mentions stay.        *)
LEMMA Marked ==
    ASSUME MentionInv, comment.exists, NEW mark \in BOOLEAN,
           comment' = [comment EXCEPT !.deleted = mark],
           UNCHANGED <<mentions, notices, mail, team>>, begun' \in Nat,
           req' \in [Requests -> Request],
           \A s \in Requests : req'[s] = req[s] \/ req'[s] = Idle
    PROVE  MentionInv'
<1>1. PICK c \in Comment : c = comment
  BY DEF MentionInv, TypeOK
<1>2. comment' \in Comment /\ comment'.exists /\ comment'.body = comment.body
  BY <1>1 DEF Comment
<1>3. UNCHANGED <<mentions, notices, queue, mails, active, away, owner>>
  BY DEF mail, team
<1>4. TypeOK' /\ MentionsMatchBody' /\ \A m \in Members : m \in active' \/ m \in away'
  BY <1>2, <1>3 DEF MentionInv, TypeOK, MentionsMatchBody
<1>5. ASSUME NEW s \in Requests PROVE ReqOK(s)'
  <2>1. ReqOK(s) /\ comment'.exists = comment.exists
    BY <1>2 DEF MentionInv
  <2>2. CASE req'[s] = Idle
    BY <2>2, Constants DEF ReqOK, Cleared, Resolved
  <2>3. CASE req'[s] = req[s]
    BY <1>3, <2>1, <2>3 DEF ReqOK, Cleared, Resolved
  <2>4. QED BY <2>2, <2>3
<1>6. ASSUME NEW o \in Requests, NEW s \in Requests, Writing(o)', Writing(s)' PROVE o = s
  BY <1>6, Constants DEF MentionInv, Writing
<1>7. QED BY <1>2, <1>4, <1>5, <1>6 DEF MentionInv

LEMMA DeleteSafe ==
    ASSUME MentionInv, NEW r \in Requests, Delete(r)
    PROVE  MentionInv' /\ (comment.deleted => comment'.deleted)
<1>1. /\ req[r].pc = "deleting" /\ comment' = [comment EXCEPT !.deleted = TRUE]
      /\ Becomes(r, Idle) /\ UNCHANGED <<mentions, notices, mail, team, begun>>
  BY DEF Delete
<1>2. /\ req' \in [Requests -> Request]
      /\ \A s \in Requests : req'[s] = req[s] \/ req'[s] = Idle
  BY <1>1, Constants, Moved DEF MentionInv
<1>3. begun' \in Nat
  BY <1>1 DEF MentionInv, TypeOK
<1>4. PICK c \in Comment : c = comment
  BY DEF MentionInv, TypeOK
<1>5. comment'.deleted
  BY <1>1, <1>4 DEF Comment
<1>6. comment.exists
  BY <1>1 DEF MentionInv, ReqOK
<1>7. QED BY <1>1, <1>2, <1>3, <1>5, <1>6, Marked

LEMMA RestoreSafe ==
    ASSUME MentionInv, NEW r \in Requests, Restore(r)
    PROVE  MentionInv'
<1>1. /\ comment.deleted /\ comment' = [comment EXCEPT !.deleted = FALSE]
      /\ begun' = begun + 1 /\ UNCHANGED <<mentions, notices, mail, team, req>>
  BY DEF Restore, Begin
<1>2. comment.exists /\ begun' \in Nat /\ req' \in [Requests -> Request]
  BY <1>1 DEF MentionInv, TypeOK
<1>3. QED BY <1>1, <1>2, Marked

(* The broker and the team: the comment and its requests stay.             *)
LEMMA Aside ==
    ASSUME MentionInv, UNCHANGED <<table, req, begun>>, owner' \in Members,
           active' \subseteq Members, away' \subseteq Members, away \subseteq away',
           \A m \in Members : m \in active' \/ m \in away',
           {queue, mails}' \subseteq [Members -> Nat]
    PROVE  MentionInv'
<1>1. UNCHANGED <<comment, mentions, notices>>
  BY DEF table
<1>2. TypeOK' /\ MentionsMatchBody'
  BY <1>1 DEF MentionInv, TypeOK, MentionsMatchBody
<1>3. \A s \in Requests : ReqOK(s)'
  BY <1>1 DEF MentionInv, ReqOK, Cleared, Resolved
<1>4. QED BY <1>1, <1>2, <1>3 DEF MentionInv, Writing

LEMMA RunTaskSafe ==
    ASSUME MentionInv, NEW m \in Members, RunTask(m)
    PROVE  MentionInv'
<1>1. /\ queue[m] > 0 /\ queue' = [queue EXCEPT ![m] = @ - 1]
      /\ mails' = IF comment.exists THEN Add(mails, {m}) ELSE mails
      /\ UNCHANGED <<table, team, req, begun>>
  BY DEF RunTask, Findable
<1>2. queue' \in [Members -> Nat]
  BY <1>1 DEF MentionInv, TypeOK
<1>3. mails' \in [Members -> Nat]
  BY <1>1, Counts DEF MentionInv, TypeOK
<1>4. QED BY <1>1, <1>2, <1>3, Aside DEF MentionInv, TypeOK, team

LEMMA TeamSafe ==
    ASSUME MentionInv, NEW m \in Members, Reassign(m) \/ RemoveMember(m)
    PROVE  MentionInv'
<1>1. CASE Reassign(m)
  BY <1>1, Aside DEF Reassign, MentionInv, TypeOK, mail
<1>2. CASE RemoveMember(m)
  BY <1>2, Aside DEF RemoveMember, MentionInv, TypeOK, mail
<1>3. QED BY <1>1, <1>2

-------------------------------------------------------------------------------
LEMMA Start == Init => MentionInv
<1> SUFFICES ASSUME Init PROVE MentionInv
  OBVIOUS
<1>1. TypeOK
  BY Constants, MemberAssumption DEF Init, TypeOK
<1>2. \A s \in Requests : req[s].pc = "idle"
  BY Constants DEF Init
<1>3. ~comment.exists /\ ~comment.deleted /\ mentions = Nobody /\ active = Members
  BY Constants DEF Init
<1>4. QED BY <1>1, <1>2, <1>3 DEF MentionInv, MentionsMatchBody, ReqOK, Writing, Cleared, Resolved

LEMMA Step ==
    ASSUME MentionInv, [Next]_vars
    PROVE  /\ MentionInv'
           /\ comment.deleted /\ ~comment'.deleted => \E r \in Requests : Restore(r)
<1> DEFINE Good == /\ MentionInv'
                   /\ comment.deleted /\ ~comment'.deleted => \E r \in Requests : Restore(r)
<1>1. ASSUME NEW r \in Requests, NEW m \in Members, NEW body \in Bodies,
             BeginCreate(r, m, body) \/ BeginPatch(r, m, body)
      PROVE  Good
  BY <1>1, BeginCreateSafe, BeginPatchSafe DEF BeginCreate, BeginPatch, table
<1>2. ASSUME NEW r \in Requests, NEW m \in Members, BeginDelete(r, m)
      PROVE  Good
  BY <1>2, BeginDeleteSafe DEF BeginDelete, table
<1>3. ASSUME NEW r \in Requests, Save(r) \/ Clear(r) \/ Find(r) \/ Tell(r) \/ Rollback(r)
      PROVE  Good
  <2>1. MentionInv'
    BY <1>3, SaveSafe, ClearSafe, FindSafe, TellSafe, RollbackSafe
  <2>2. UNCHANGED table
    BY <1>3 DEF Save, Clear, Find, Tell, Rollback
  <2>3. QED BY <2>1, <2>2 DEF table
<1>4. ASSUME NEW r \in Requests, Commit(r) \/ Delete(r) \/ Restore(r)
      PROVE  Good
  BY <1>4, CommitSafe, DeleteSafe, RestoreSafe
<1>5. ASSUME NEW m \in Members, RunTask(m) \/ Reassign(m) \/ RemoveMember(m)
      PROVE  Good
  BY <1>5, RunTaskSafe, TeamSafe DEF RunTask, Reassign, RemoveMember, table
<1>6. ASSUME UNCHANGED vars PROVE Good
  <2>1. UNCHANGED <<table, req, begun, active, owner, away, queue, mails, comment>>
    BY <1>6 DEF vars, table
  <2>2. QED BY <2>1, Aside DEF MentionInv, TypeOK
<1> HIDE DEF Good
<1>7. Good
  BY <1>1, <1>2, <1>3, <1>4, <1>5, <1>6 DEF Next
<1>8. QED BY <1>7 DEF Good

(* Members, rows, tasks and requests stay within their types.              *)
THEOREM TypeCorrect == Spec => []TypeOK
<1>1. MentionInv => TypeOK
  BY DEF MentionInv
<1>2. QED BY <1>1, Start, Step, PTL DEF Spec

(* The mentions are those of the body, whatever overlaps or is rolled      *)
(* back: a transaction has the row from its UPDATE to its commit, deletes  *)
(* the mentions it sees and inserts those it finds.                        *)
THEOREM MentionsAreTheBodys == Spec => []MentionsMatchBody
<1>1. MentionInv => MentionsMatchBody
  BY DEF MentionInv
<1>2. QED BY <1>1, Start, Step, PTL DEF Spec

(* A deleted comment comes back by a restore only: an edit under way when  *)
(* it is deleted writes its body and not its mark.                         *)
THEOREM DeletionIsFinal == Spec => DeletedStays
<1>1. MentionInv /\ [Next]_vars =>
        [comment.deleted /\ ~comment'.deleted => \E r \in Requests : Restore(r)]_vars
  BY Step
<1>2. QED BY <1>1, Start, Step, PTL DEF Spec, DeletedStays

-------------------------------------------------------------------------------
(* Refinement                                                              *)

(* The mentions of a body, as CommentThread has them.                      *)
LEMMA CommitMentions ==
    ASSUME MentionInv, NEW r \in Requests, Commit(r)
    PROVE  /\ req[r].row \in Comment /\ req[r].row.exists = comment.exists
           /\ ~comment.exists => ~req[r].row.deleted
           /\ comment' = Written(req[r].row)
           /\ Thread!Mention(req[r].row.body)
<1>1. PICK p \in Request : p = req[r]
  BY DEF MentionInv, TypeOK
<1>2. /\ p.pc = "commit" /\ comment' = Written(p.row)
      /\ mentions' = Add([m \in Members |-> mentions[m] - p.cleared[m]], p.found)
      /\ UNCHANGED away
  BY <1>1 DEF Commit, team
<1>3. /\ p.row.exists = comment.exists /\ p.cleared = mentions
      /\ ~p.row.exists => ~p.row.deleted
      /\ \A m \in Members : /\ m \in p.found => m \in p.row.body
                            /\ m \in p.row.body \ away => m \in p.found
  BY <1>1, <1>2 DEF MentionInv, ReqOK, Cleared, Resolved
<1>4. p.row \in Comment /\ p.found \in SUBSET Members
  BY DEF Request
<1>5. mentions' = [m \in Members |-> IF m \in p.found THEN 1 ELSE 0]
  <2> DEFINE left == [m \in Members |-> mentions[m] - p.cleared[m]]
  <2>1. \A m \in Members : left[m] = 0
    BY <1>3 DEF MentionInv, TypeOK
  <2>2. mentions' = Add(left, p.found)
    BY <1>2
  <2> HIDE DEF left
  <2>3. Add(left, p.found) = [m \in Members |-> IF m \in p.found THEN 1 ELSE 0]
    BY <2>1 DEF Add
  <2>4. QED BY <2>2, <2>3
<1>6. p.row.body \cap (Members \ away) \subseteq p.found /\ p.found \subseteq p.row.body
  BY <1>3, <1>4
<1>7. QED BY <1>1, <1>2, <1>3, <1>4, <1>5, <1>6 DEF Thread!Mention

(* The commit of a request is its one step: a POST or an Edit.             *)
LEMMA CommitIsAStep ==
    ASSUME MentionInv, NEW r \in Requests, Commit(r)
    PROVE  Thread!Next
<1>1. PICK row \in Comment : row = req[r].row
  BY CommitMentions
<1>2. row.exists = comment.exists /\ comment' = Written(row) /\ Thread!Mention(row.body)
  BY <1>1, CommitMentions
<1>3. row.author \in Members /\ row.body \in Bodies /\ comment \in Comment
  BY DEF MentionInv, TypeOK, Comment
<1>4. CASE comment.exists
  <2>1. comment' = [comment EXCEPT !.body = row.body]
    BY <1>2, <1>4 DEF Written
  <2>2. QED BY <1>2, <1>3, <1>4, <2>1 DEF Thread!Next, Thread!Edit
<1>5. CASE ~comment.exists
  <2>1. comment' = [row EXCEPT !.exists = TRUE]
    BY <1>2, <1>5 DEF Written
  <2>2. ~row.deleted
    BY <1>1, <1>5, CommitMentions
  <2>3. comment' = [exists |-> TRUE, author |-> row.author, body |-> row.body, deleted |-> FALSE]
    BY <2>1, <2>2 DEF Comment
  <2>4. QED BY <1>2, <1>3, <1>5, <2>3 DEF Thread!Next, Thread!Post
<1>6. QED BY <1>4, <1>5

(* Everything else leaves the comment and its mentions, or marks it.       *)
LEMMA ThreadStep ==
    ASSUME MentionInv, [Next]_vars
    PROVE  [Thread!Next]_Thread!vars
<1> DEFINE Still == UNCHANGED <<comment, mentions, away>>
           Good == Thread!Next \/ Still
<1>1. ASSUME NEW r \in Requests, NEW m \in Members, NEW body \in Bodies,
             BeginCreate(r, m, body) \/ BeginPatch(r, m, body)
      PROVE  Good
  BY <1>1 DEF BeginCreate, BeginPatch, table, team
<1>2. ASSUME NEW r \in Requests, NEW m \in Members, BeginDelete(r, m)
      PROVE  Good
  BY <1>2 DEF BeginDelete, table, team
<1>3. ASSUME NEW r \in Requests, Save(r) \/ Clear(r) \/ Find(r) \/ Tell(r) \/ Rollback(r)
      PROVE  Good
  BY <1>3 DEF Save, Clear, Find, Tell, Rollback, table, team
<1>4. ASSUME NEW r \in Requests, Commit(r) PROVE Good
  BY <1>4, CommitIsAStep
<1>5. ASSUME NEW r \in Requests, Delete(r) PROVE Good
  <2>1. comment.exists
    BY <1>5 DEF Delete, MentionInv, ReqOK
  <2>2. QED BY <1>5, <2>1 DEF Delete, team, Thread!Next, Thread!Delete
<1>6. ASSUME NEW r \in Requests, Restore(r) PROVE Good
  BY <1>6 DEF Restore, team, Thread!Next, Thread!Restore
<1>7. ASSUME NEW m \in Members, RunTask(m) \/ Reassign(m) PROVE Good
  BY <1>7 DEF RunTask, Reassign, table, team
<1>8. ASSUME NEW m \in Members, RemoveMember(m) PROVE Good
  BY <1>8 DEF RemoveMember, table, Thread!Next, Thread!Leave
<1>9. ASSUME UNCHANGED vars PROVE Good
  BY <1>9 DEF vars
<1> HIDE DEF Good
<1>10. Good
  BY <1>1, <1>2, <1>3, <1>4, <1>5, <1>6, <1>7, <1>8, <1>9 DEF Next
<1>11. QED BY <1>10 DEF Good, Thread!vars

(* Requests of many steps, that overlap and are rolled back, change the    *)
(* comment and its mentions as if each were one step, and a member who     *)
(* stays is mentioned when the body names him and not otherwise.           *)
THEOREM CommentsAreAThread == Spec => ImplementsThread
<1>1. Init => Thread!Init
  BY Constants DEF Init, Thread!Init, Nobody, Thread!Unmentioned
<1>2. MentionInv /\ [Next]_vars => [Thread!Next]_Thread!vars
  BY ThreadStep
<1>3. QED BY <1>1, <1>2, Start, Step, PTL DEF Spec, ImplementsThread, Thread!Spec

-------------------------------------------------------------------------------
(* The mail of a mention                                                   *)

(* Before the POST commits there is no notice.  After it no task is lost,  *)
(* so whoever a request has noted has a mail or a task for every notice    *)
(* that is committed: at most the one of the POST has none.                *)
MailBook ==
    /\ OneMailLost
    /\ ~comment.exists => \A m \in Members : notices[m] = 0
    /\ \A r \in Requests :
         /\ ~Resolved(r) => req[r].noted = {}
         /\ comment.exists => \A m \in req[r].noted : notices[m] <= queue[m] + mails[m]

(* A step of a request outside the tables: nobody is noted by it but whom  *)
(* it queues a task for.                                                   *)
LEMMA BookKept ==
    ASSUME MentionInv, MailBook, NEW r \in Requests, NEW q \in Request, Becomes(r, q),
           UNCHANGED <<comment, notices, queue, mails>>,
           q.noted \subseteq req[r].noted, q.pc \notin {"tell", "commit"} => q.noted = {}
    PROVE  MailBook'
<1>1. req'[r] = q /\ \A s \in Requests \ {r} : req'[s] = req[s]
  BY Moved DEF MentionInv
<1>2. QED BY <1>1 DEF MailBook, OneMailLost, Resolved

LEMMA BookTell ==
    ASSUME MentionInv, MailBook, NEW r \in Requests, Tell(r)
    PROVE  MailBook'
<1>1. PICK p \in Request : p = req[r]
  BY DEF MentionInv, TypeOK
<1>2. PICK m \in p.pending :
        LET told == IF ParentScope(m) = "none" THEN {} ELSE {m} IN
        /\ queue' = Add(queue, told)
        /\ Becomes(r, [p EXCEPT !.pending = @ \ {m}, !.noted = @ \cup told,
                                !.pc = IF p.pending = {m} THEN "commit" ELSE "tell"])
  BY <1>1 DEF Tell
<1> DEFINE told == IF ParentScope(m) = "none" THEN {} ELSE {m}
           q == [p EXCEPT !.pending = @ \ {m}, !.noted = @ \cup told,
                          !.pc = IF p.pending = {m} THEN "commit" ELSE "tell"]
<1>3. queue' = Add(queue, told) /\ Becomes(r, q)
  BY <1>2
<1>4. told \subseteq Members
  BY DEF Request
<1> HIDE DEF told
<1>5. q.pc \in {"tell", "commit"} /\ q.noted = p.noted \cup told /\ q \in Request
  BY <1>4 DEF Request
<1>6. p.pc = "tell" /\ UNCHANGED <<comment, notices, mails>>
  BY <1>1 DEF Tell, table
<1> HIDE DEF q
<1>7. req'[r] = q /\ \A s \in Requests \ {r} : req'[s] = req[s]
  BY <1>3, <1>5, Moved DEF MentionInv
<1>8. queue \in [Members -> Nat] /\ mails \in [Members -> Nat] /\ notices \in [Members -> Nat]
  BY DEF MentionInv, TypeOK
<1>9. \A n \in Members : queue'[n] = IF n \in told THEN queue[n] + 1 ELSE queue[n]
  BY <1>3, <1>8, Counts
<1>10. OneMailLost'
  BY <1>6, <1>8, <1>9 DEF MailBook, OneMailLost
<1>11. ASSUME comment.exists, NEW s \in Requests, NEW n \in req'[s].noted
       PROVE  notices[n] <= queue'[n] + mails[n]
  <2>1. n \in Members
    BY <1>5, <1>7 DEF MentionInv, TypeOK, Request
  <2>2. CASE n \in told
    BY <1>8, <1>9, <2>1, <2>2 DEF MailBook, OneMailLost
  <2>3. CASE n \notin told
    <3>1. n \in req[s].noted
      BY <1>1, <1>5, <1>7, <1>11, <2>3
    <3>2. notices[n] <= queue[n] + mails[n]
      BY <1>11, <3>1 DEF MailBook
    <3>3. QED BY <1>8, <1>9, <2>1, <2>3, <3>2
  <2>4. QED BY <2>2, <2>3
<1>12. \A s \in Requests : ~Resolved(s)' => req'[s].noted = {}
  BY <1>5, <1>7 DEF MailBook, Resolved
<1>13. ~comment.exists => \A n \in Members : notices[n] = 0
  BY DEF MailBook
<1>14. QED BY <1>6, <1>10, <1>11, <1>12, <1>13 DEF MailBook

LEMMA BookCommit ==
    ASSUME MentionInv, MailBook, NEW r \in Requests, Commit(r)
    PROVE  MailBook'
<1>1. /\ req[r].pc = "commit" /\ notices' = Add(notices, req[r].noted)
      /\ Becomes(r, Idle) /\ UNCHANGED <<queue, mails>>
  BY DEF Commit, mail
<1>2. req'[r] = Idle /\ \A s \in Requests \ {r} : req'[s] = req[s]
  BY <1>1, Constants, Moved DEF MentionInv
<1>3. queue \in [Members -> Nat] /\ mails \in [Members -> Nat] /\ notices \in [Members -> Nat]
      /\ req[r].noted \subseteq Members
  BY DEF MentionInv, TypeOK, Request
<1>4. \A n \in Members : notices'[n] = IF n \in req[r].noted THEN notices[n] + 1 ELSE notices[n]
  BY <1>1, <1>3, Counts
<1>5. \A s \in Requests : req'[s].noted = {}
  <2>1. \A s \in Requests \ {r} : ~Resolved(s)
    BY <1>1, Alone DEF Writing, Resolved
  <2>2. Idle.noted = {}
    BY DEF Idle
  <2>3. QED BY <1>2, <2>1, <2>2 DEF MailBook
<1>6. ASSUME NEW n \in Members PROVE notices'[n] <= mails[n] + queue[n] + 1
  <2>1. CASE ~comment.exists
    BY <1>3, <1>4, <2>1 DEF MailBook
  <2>2. CASE comment.exists
    BY <1>3, <1>4, <2>2 DEF MailBook, OneMailLost
  <2>3. QED BY <2>1, <2>2
<1>7. comment'.exists
  BY CommitSafe
<1>8. QED BY <1>1, <1>5, <1>6, <1>7 DEF MailBook, OneMailLost

(* A task that runs after the POST committed finds the comment.            *)
LEMMA BookTask ==
    ASSUME MentionInv, MailBook, NEW m \in Members, RunTask(m)
    PROVE  MailBook'
<1>1. /\ queue[m] > 0 /\ queue' = [queue EXCEPT ![m] = @ - 1]
      /\ mails' = IF comment.exists THEN Add(mails, {m}) ELSE mails
      /\ UNCHANGED <<comment, notices, req>>
  BY DEF RunTask, Findable, table
<1>2. queue \in [Members -> Nat] /\ mails \in [Members -> Nat] /\ notices \in [Members -> Nat]
  BY DEF MentionInv, TypeOK
<1>3. CASE comment.exists
  <2>1. \A n \in Members : queue'[n] + mails'[n] = queue[n] + mails[n]
    BY <1>1, <1>2, <1>3, Counts
  <2>2. \A n \in Members : mails'[n] \in Nat /\ queue'[n] \in Nat
    BY <1>1, <1>2, <1>3, Counts
  <2>3. \A s \in Requests : req[s].noted \subseteq Members
    BY DEF MentionInv, TypeOK, Request
  <2>4. ASSUME NEW n \in Members PROVE notices'[n] <= mails'[n] + queue'[n] + 1
    <3>1. notices[n] <= mails[n] + queue[n] + 1 /\ notices'[n] = notices[n]
      BY <1>1 DEF MailBook, OneMailLost
    <3>2. QED BY <1>2, <2>1, <2>2, <3>1
  <2>5. QED BY <1>1, <1>3, <2>1, <2>3, <2>4 DEF MailBook, OneMailLost, Resolved
<1>4. CASE ~comment.exists
  <2>1. \A n \in Members : mails'[n] \in Nat /\ queue'[n] \in Nat
    BY <1>1, <1>2, <1>4
  <2>2. OneMailLost'
    BY <1>1, <1>4, <2>1 DEF MailBook, OneMailLost
  <2>3. QED BY <1>1, <1>4, <2>2 DEF MailBook, Resolved
<1>5. QED BY <1>3, <1>4

LEMMA BookStep ==
    ASSUME MentionInv, MailBook, [Next]_vars
    PROVE  MailBook'
<1>1. ASSUME NEW r \in Requests, NEW m \in Members, NEW body \in Bodies,
             BeginCreate(r, m, body)
      PROVE  MailBook'
  <2> DEFINE q == [Idle EXCEPT !.pc = "find",
                               !.row = [NoComment EXCEPT !.author = m, !.body = body]]
  <2>1. Becomes(r, q) /\ UNCHANGED <<comment, notices, queue, mails>>
    BY <1>1 DEF BeginCreate, table, mail
  <2>2. q.noted = {} /\ q \in Request
    BY Constants DEF Idle, Request, NoComment, Comment
  <2> HIDE DEF q
  <2>3. QED BY <2>1, <2>2, BookKept
<1>2. ASSUME NEW r \in Requests, NEW m \in Members, NEW body \in Bodies,
             BeginPatch(r, m, body)
      PROVE  MailBook'
  <2> DEFINE q == [Idle EXCEPT !.pc = "save", !.row = [comment EXCEPT !.body = body]]
  <2>1. Becomes(r, q) /\ UNCHANGED <<comment, notices, queue, mails>>
    BY <1>2 DEF BeginPatch, table, mail
  <2>2. q.noted = {} /\ q \in Request
    BY Constants DEF Idle, Request, Comment, MentionInv, TypeOK
  <2> HIDE DEF q
  <2>3. QED BY <2>1, <2>2, BookKept
<1>3. ASSUME NEW r \in Requests, NEW m \in Members, BeginDelete(r, m)
      PROVE  MailBook'
  <2> DEFINE q == [Idle EXCEPT !.pc = "deleting", !.row = comment]
  <2>1. Becomes(r, q) /\ UNCHANGED <<comment, notices, queue, mails>>
    BY <1>3 DEF BeginDelete, table, mail
  <2>2. q.noted = {} /\ q \in Request
    BY Constants DEF Idle, Request, MentionInv, TypeOK
  <2> HIDE DEF q
  <2>3. QED BY <2>1, <2>2, BookKept
<1>4. ASSUME NEW r \in Requests, Save(r) \/ Clear(r) \/ Find(r)
      PROVE  MailBook'
  <2>1. PICK q \in Request : Becomes(r, q) /\ q.noted = req[r].noted /\ ~Resolved(r)
    <3>1. req[r] \in Request /\ mentions \in [Members -> Nat]
      BY DEF MentionInv, TypeOK
    <3>2. CASE Save(r)
      BY <3>1, <3>2 DEF Save, Request, Resolved
    <3>3. CASE Clear(r)
      BY <3>1, <3>3 DEF Clear, Old, Request, Resolved
    <3>4. CASE Find(r)
      <4> DEFINE found == Found(req[r].row.body)
                 q == [req[r] EXCEPT !.pc = IF found = {} THEN "commit" ELSE "tell",
                                     !.found = found, !.pending = found]
      <4>1. found \subseteq Members
        BY DEF Found, MentionInv, TypeOK
      <4>2. Becomes(r, q) /\ ~Resolved(r)
        BY <3>4 DEF Find, Resolved
      <4> HIDE DEF found
      <4>3. q \in Request /\ q.noted = req[r].noted
        BY <3>1, <4>1 DEF Request
      <4>4. QED BY <4>2, <4>3
    <3>5. QED BY <1>4, <3>2, <3>3, <3>4
  <2>2. UNCHANGED <<comment, notices, queue, mails>>
    BY <1>4 DEF Save, Clear, Find, table, mail
  <2>3. q.noted = {}
    BY <2>1 DEF MailBook
  <2>4. QED BY <2>1, <2>2, <2>3, BookKept
<1>5. ASSUME NEW r \in Requests, Rollback(r) PROVE MailBook'
  <2>1. Becomes(r, Idle) /\ UNCHANGED <<comment, notices, queue, mails>>
    BY <1>5 DEF Rollback, table, mail
  <2>2. Idle \in Request /\ Idle.noted = {}
    BY Constants DEF Idle
  <2>3. QED BY <2>1, <2>2, BookKept
<1>6. ASSUME NEW r \in Requests, Delete(r) PROVE MailBook'
  <2>1. /\ comment.exists /\ comment' = [comment EXCEPT !.deleted = TRUE]
        /\ Becomes(r, Idle) /\ UNCHANGED <<notices, queue, mails>>
    BY <1>6 DEF Delete, mail, MentionInv, ReqOK
  <2>2. comment'.exists
    BY <2>1 DEF MentionInv, TypeOK, Comment
  <2>3. req'[r] = Idle /\ \A s \in Requests \ {r} : req'[s] = req[s]
    BY <2>1, Constants, Moved DEF MentionInv
  <2>4. Idle.noted = {}
    BY DEF Idle
  <2>5. QED BY <2>1, <2>2, <2>3, <2>4 DEF MailBook, OneMailLost, Resolved
<1>7. ASSUME NEW r \in Requests, Restore(r) PROVE MailBook'
  <2>1. /\ comment.exists /\ comment' = [comment EXCEPT !.deleted = FALSE]
        /\ UNCHANGED <<notices, queue, mails, req>>
    BY <1>7 DEF Restore, mail, MentionInv
  <2>2. comment'.exists
    BY <2>1 DEF MentionInv, TypeOK, Comment
  <2>3. QED BY <2>1, <2>2 DEF MailBook, OneMailLost, Resolved
<1>8. ASSUME NEW m \in Members, Reassign(m) \/ RemoveMember(m)
      PROVE  MailBook'
  <2>1. UNCHANGED <<comment, notices, queue, mails, req>>
    BY <1>8 DEF Reassign, RemoveMember, table, mail
  <2>2. QED BY <2>1 DEF MailBook, OneMailLost, Resolved
<1>9. ASSUME UNCHANGED vars PROVE MailBook'
  <2>1. UNCHANGED <<comment, notices, queue, mails, req>>
    BY <1>9 DEF vars
  <2>2. QED BY <2>1 DEF MailBook, OneMailLost, Resolved
<1>10. QED BY <1>1, <1>2, <1>3, <1>4, <1>5, <1>6, <1>7, <1>8, <1>9, BookTell, BookCommit, BookTask
           DEF Next

(* Of all the notices of a member at most one comes without a mail task    *)
(* that finds the comment: only a task of the POST can run before there is *)
(* a comment to find.                                                      *)
THEOREM AtMostOneMailLost == Spec => []OneMailLost
<1>1. Init => MailBook
  <2>1. Idle.noted = {}
    BY DEF Idle
  <2>2. QED BY <2>1, Constants DEF Init, MailBook, OneMailLost
<1>2. MentionInv /\ MailBook /\ [Next]_vars => MailBook'
  BY BookStep
<1>3. MailBook => OneMailLost
  BY DEF MailBook
<1>4. QED BY <1>1, <1>2, <1>3, Start, Step, PTL DEF Spec
===============================================================================
