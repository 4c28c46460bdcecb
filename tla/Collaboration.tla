----------------------------- MODULE Collaboration ----------------------------
(***************************************************************************)
(* A comment on a lead, its mentions, their notices and their mail.        *)
(*                                                                         *)
(* Source: apps/collaboration (views.py, services.py, tasks.py,            *)
(* permissions.py) and the soft delete of apps/core/models.py.             *)
(*                                                                         *)
(* A comment is written, or its body replaced, in a transaction that also  *)
(* writes the mentions and the notices; the row lock of the body lets      *)
(* edits of one comment go one after another.  The mail tasks go to the    *)
(* broker at once, and a task may run before the transaction commits, or   *)
(* after it was rolled back.  A body is the set of those it names.         *)
(***************************************************************************)
EXTENDS Naturals, FiniteSets, Access

CONSTANTS
    Members, Stranger,  \* Stranger: an address of no member
    Role, ReportsTo,    \* of each member (ReportsTo: or Stranger)
    FirstOwner,         \* the lead's owner at the start
    Bodies,             \* what a comment may say
    Requests,
    MaxRequests         \* bound: requests begun

ASSUME MemberAssumption ==
    /\ Stranger \notin Members /\ FirstOwner \in Members
    /\ Role \in [Members -> MatrixRoles]
    /\ ReportsTo \in [Members -> Members \cup {Stranger}]
ASSUME BodyAssumption == Bodies # {} /\ Bodies \subseteq SUBSET (Members \cup {Stranger})
ASSUME BoundAssumption == MaxRequests \in Nat

VARIABLES
    active,     \* members whose membership is active
    owner,      \* the lead's owner
    comment,    \* the row in table comments, as committed
    mentions,   \* table comment_mentions: rows per member, as committed
    notices,    \* table notifications: rows per member, as committed
    queue,      \* mail tasks at the broker, per member
    mails,      \* mail tasks that found the comment, per member
    req,        \* the request each worker is serving
    begun,
    away        \* history: members whose membership has been inactive

table == <<comment, mentions, notices>>
mail  == <<queue, mails>>
team  == <<active, owner, away>>
vars  == <<active, owner, comment, mentions, notices, queue, mails, req, begun, away>>

-------------------------------------------------------------------------------
Comment   == [exists : BOOLEAN, author : Members, body : Bodies, deleted : BOOLEAN]
NoComment == [exists |-> FALSE, author |-> FirstOwner, body |-> CHOOSE b \in Bodies : TRUE,
              deleted |-> FALSE]

(* row: the row as the transaction will leave it.  cleared: the mentions   *)
(* it deletes; found: those it inserts; pending: members of them still to  *)
(* be told; noted: those told.                                             *)
Request == [pc : {"idle", "save", "clear", "find", "tell", "commit", "deleting"},
            row : Comment, cleared : [Members -> Nat], found : SUBSET Members,
            pending : SUBSET Members, noted : SUBSET Members]

Nobody == [m \in Members |-> 0]
Idle   == [pc |-> "idle", row |-> NoComment, cleared |-> Nobody, found |-> {},
           pending |-> {}, noted |-> {}]

Add(count, set) == [m \in Members |-> IF m \in set THEN count[m] + 1 ELSE count[m]]

(* resolve_parent_scope, for a lead.                                       *)
Team(m)  == {n \in active : ReportsTo[n] = m}
ParentScope(m) == LET scope == LeadScope[Role[m]] IN
                  IF InScope(scope, m, Team(m), owner) THEN scope ELSE "none"

Managers == {m \in active : Role[m] \in {"owner", "admin"}}
MayEdit(m) == m = comment.author \/ m \in Managers

(* _get_visible_comment.                                                   *)
Visible(m) == comment.exists /\ ~comment.deleted /\ ParentScope(m) # "none"

(* The row is locked from the UPDATE of a transaction to its end.          *)
Locked == \E r \in Requests : req[r].row.exists /\ req[r].pc \in {"clear", "find", "tell", "commit"}

Begin(r) == req[r].pc = "idle" /\ begun < MaxRequests /\ begun' = begun + 1
Becomes(r, q) == req' = [req EXCEPT ![r] = q]

-------------------------------------------------------------------------------
(* POST: the new row has no mentions to delete, and nobody else sees it.   *)
(* row.exists says that the row was there before.  There is one comment:   *)
(* one POST at a time.                                                     *)
BeginCreate(r, m, body) ==
    /\ Begin(r)
    /\ m \in active /\ MayWrite(ParentScope(m))
    /\ ~comment.exists /\ \A q \in Requests : req[q].pc = "idle"
    /\ Becomes(r, [Idle EXCEPT !.pc = "find",
                               !.row = [NoComment EXCEPT !.author = m, !.body = body]])
    /\ UNCHANGED <<table, mail, team>>

(* PATCH: the author, an Owner or an Admin.                                *)
BeginPatch(r, m, body) ==
    /\ Begin(r)
    /\ m \in active /\ Visible(m) /\ MayEdit(m)
    /\ Becomes(r, [Idle EXCEPT !.pc = "save", !.row = [comment EXCEPT !.body = body]])
    /\ UNCHANGED <<table, mail, team>>

(* update_body: UPDATE comments SET body waits for the row.                *)
Save(r) ==
    /\ req[r].pc = "save" /\ ~Locked
    /\ Becomes(r, [req[r] EXCEPT !.pc = "clear"])
    /\ UNCHANGED <<table, mail, team, begun>>

(* The mentions of the old body are deleted.                               *)
Old_None == Nobody      \* mutant: they are left
Old == mentions

Clear(r) ==
    /\ req[r].pc = "clear"
    /\ Becomes(r, [req[r] EXCEPT !.pc = "find", !.cleared = Old])
    /\ UNCHANGED <<table, mail, team, begun>>

(* _sync_mentions: the active members among those the body names.          *)
Found_Unchecked(body) == body   \* mutant: the membership is not asked for
Found(body) == body \cap active

Find(r) ==
    LET found == Found(req[r].row.body) IN
    /\ req[r].pc = "find"
    /\ Becomes(r, [req[r] EXCEPT !.pc = IF found = {} THEN "commit" ELSE "tell",
                                 !.found = found, !.pending = found])
    /\ UNCHANGED <<table, mail, team, begun>>

(* One after another is told, with a notice and a mail, if he may see the  *)
(* lead.                                                                   *)
Tell(r) ==
    /\ req[r].pc = "tell"
    /\ \E m \in req[r].pending :
         LET told == IF ParentScope(m) = "none" THEN {} ELSE {m} IN
         /\ queue' = Add(queue, told)
         /\ Becomes(r, [req[r] EXCEPT
                           !.pending = @ \ {m}, !.noted = @ \cup told,
                           !.pc = IF req[r].pending = {m} THEN "commit" ELSE "tell"])
    /\ UNCHANGED <<table, mails, team, begun>>

(* The row of an edit: only its body is written.                           *)
Written_Whole(row) ==   \* mutant: save() without update_fields
    [row EXCEPT !.exists = TRUE]
Written(row) ==
    IF row.exists THEN [comment EXCEPT !.body = row.body] ELSE [row EXCEPT !.exists = TRUE]

Commit(r) ==
    /\ req[r].pc = "commit"
    /\ comment' = Written(req[r].row)
    /\ mentions' = Add([m \in Members |-> mentions[m] - req[r].cleared[m]], req[r].found)
    /\ notices' = Add(notices, req[r].noted)
    /\ Becomes(r, Idle)
    /\ UNCHANGED <<mail, team, begun>>

(* An error, the broker out of reach, or the end of the worker.            *)
Rollback(r) ==
    /\ req[r].pc # "idle"
    /\ Becomes(r, Idle)
    /\ UNCHANGED <<table, mail, team, begun>>

(* DELETE: the comment is looked up, then marked.                          *)
BeginDelete(r, m) ==
    /\ Begin(r)
    /\ m \in active /\ Visible(m) /\ MayEdit(m)
    /\ Becomes(r, [Idle EXCEPT !.pc = "deleting", !.row = comment])
    /\ UNCHANGED <<table, mail, team>>

Delete(r) ==
    /\ req[r].pc = "deleting" /\ ~Locked
    /\ comment' = [comment EXCEPT !.deleted = TRUE]
    /\ Becomes(r, Idle)
    /\ UNCHANGED <<mentions, notices, mail, team, begun>>

(* POST restore, for Owner and Admin.                                      *)
Restore(r) ==
    /\ Begin(r)
    /\ Managers # {} /\ comment.deleted /\ ~Locked
    /\ comment' = [comment EXCEPT !.deleted = FALSE]
    /\ UNCHANGED <<mentions, notices, mail, team, req>>

-------------------------------------------------------------------------------
(* send_mention_email_task: a comment not committed is not found, and the  *)
(* task ends; a deleted one is.  The mail has the body of this moment; that*)
(* the mail server may refuse it is left out.                              *)
Findable_Undeleted ==    \* mutant: through the default manager
    comment.exists /\ ~comment.deleted
Findable == comment.exists

RunTask(m) ==
    /\ queue[m] > 0
    /\ queue' = [queue EXCEPT ![m] = @ - 1]
    /\ mails' = IF Findable THEN Add(mails, {m}) ELSE mails
    /\ UNCHANGED <<table, team, req, begun>>

(* Other requests: PATCH of the lead's owner, and removal of a member.     *)
Reassign(m) ==
    /\ m \in active \ {owner}
    /\ owner' = m
    /\ UNCHANGED <<active, away, table, mail, req, begun>>

RemoveMember(m) ==
    /\ m \in active /\ Role[m] # "owner"
    /\ active' = active \ {m}
    /\ away' = away \cup {m}
    /\ UNCHANGED <<owner, table, mail, req, begun>>

Init ==
    /\ active = Members /\ away = {} /\ owner = FirstOwner
    /\ comment = NoComment
    /\ mentions = Nobody /\ notices = Nobody /\ queue = Nobody /\ mails = Nobody
    /\ req = [r \in Requests |-> Idle]
    /\ begun = 0

Next ==
    \/ \E r \in Requests :
         \/ \E m \in Members, body \in Bodies : BeginCreate(r, m, body) \/ BeginPatch(r, m, body)
         \/ \E m \in Members : BeginDelete(r, m)
         \/ Save(r) \/ Clear(r) \/ Find(r) \/ Tell(r) \/ Commit(r) \/ Rollback(r)
         \/ Delete(r) \/ Restore(r)
    \/ \E m \in Members : RunTask(m) \/ Reassign(m) \/ RemoveMember(m)

Spec == Init /\ [][Next]_vars

-------------------------------------------------------------------------------
(* Properties                                                              *)

(* Members, rows, tasks and requests stay within their types.              *)
TypeOK ==
    /\ active \subseteq Members /\ owner \in Members /\ away \subseteq Members
    /\ comment \in Comment
    /\ {mentions, notices, queue, mails} \subseteq [Members -> Nat]
    /\ req \in [Requests -> Request]
    /\ begun \in Nat

(* Business Rules 9.2: after any edits, overlapping or rolled back, the    *)
(* mentions are those of the body: nobody it does not name, nobody twice,  *)
(* and everybody it names who has been a member all the time.              *)
MentionsMatchBody ==
    comment.exists => \A m \in Members :
        /\ mentions[m] <= IF m \in comment.body THEN 1 ELSE 0
        /\ m \in comment.body \ away => mentions[m] = 1

(* Business Rules 12.3: a deleted comment comes back by a restore only: an *)
(* edit that began before the delete and ends after it leaves it deleted.  *)
DeletedStays ==
    [][ comment.deleted /\ ~comment'.deleted => \E r \in Requests : Restore(r) ]_vars

(* Both follow from the promise of CommentThread: requests that take many  *)
(* steps, overlap and are rolled back change the comment and its mentions  *)
(* as if each were one step.                                               *)
Thread == INSTANCE CommentThread
ImplementsThread == Thread!Spec

(* Business Rules 10.3: whoever got a notice of a mention gets its mail.   *)
MentionMailed == \A m \in Members : notices[m] <= mails[m] + queue[m]

(* Only the POST can lose a mail in this way: of all the notices of a      *)
(* member at most one comes without a task that finds the comment, however *)
(* often it is edited, deleted and restored, and whatever is rolled back.  *)
OneMailLost == \A m \in Members : notices[m] <= mails[m] + queue[m] + 1
===============================================================================
