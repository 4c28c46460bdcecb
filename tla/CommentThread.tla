---------------------------- MODULE CommentThread -----------------------------
(***************************************************************************)
(* The promise of Business Rules 9.2 and 12.3 on a comment: its body and   *)
(* its mentions change together, as if every request were one step, and    *)
(* only a delete and a restore touch the mark of deletion.                 *)
(*                                                                         *)
(* The mentions are those of the body: all that are members, and none but  *)
(* members; of one who has left at some time it may go either way.         *)
(***************************************************************************)
CONSTANTS Members, Bodies

VARIABLES
    comment,    \* the comment
    mentions,   \* how often it mentions each member
    away        \* members whose membership has been inactive

vars == <<comment, mentions, away>>

Unmentioned == [m \in Members |-> 0]

(* What a comment with this body mentions.                                 *)
Mention(body) ==
    \E found \in SUBSET Members :
        /\ body \cap (Members \ away) \subseteq found /\ found \subseteq body
        /\ mentions' = [m \in Members |-> IF m \in found THEN 1 ELSE 0]
        /\ UNCHANGED away

Post == /\ ~comment.exists
        /\ \E author \in Members, body \in Bodies :
             /\ comment' = [exists |-> TRUE, author |-> author, body |-> body, deleted |-> FALSE]
             /\ Mention(body)

(* Also of a comment deleted since the edit began, which stays deleted.    *)
Edit == /\ comment.exists
        /\ \E body \in Bodies :
             comment' = [comment EXCEPT !.body = body] /\ Mention(body)

Delete == /\ comment.exists
          /\ comment' = [comment EXCEPT !.deleted = TRUE]
          /\ UNCHANGED <<mentions, away>>

Restore == /\ comment.deleted
           /\ comment' = [comment EXCEPT !.deleted = FALSE]
           /\ UNCHANGED <<mentions, away>>

Leave == away \subseteq away' /\ UNCHANGED <<comment, mentions>>

Init == /\ ~comment.exists /\ ~comment.deleted
        /\ mentions = Unmentioned
        /\ away = {}

Next == Post \/ Edit \/ Delete \/ Restore \/ Leave

Spec == Init /\ [][Next]_vars
===============================================================================
