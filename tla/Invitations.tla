----------------------------- MODULE Invitations ------------------------------
(***************************************************************************)
(* Invitations to one organisation, the mails that carry their links, and  *)
(* the nightly sweep.                                                      *)
(*                                                                         *)
(* Source: apps/organizations/services.py (InvitationService), tasks.py,   *)
(* views.py and models.py.                                                 *)
(*                                                                         *)
(* The web worker saves an invitation and only then queues its mail; the   *)
(* Celery task reads the token when it starts.  Accepting reads a pending  *)
(* invitation by its token and commits later, whatever the row says then.  *)
(***************************************************************************)
EXTENDS Integers

CONSTANTS
    Invitations,    \* the ids table invitations may hold
    Emails,         \* the addresses that are invited
    Requests,       \* web workers serving a request at a time
    Null,
    Lifetime,       \* INVITATION_EXPIRY_DAYS, in units of time
    MaxTokens       \* bound: tokens issued, by creating and resending

ASSUME LifetimeAssumption == Lifetime \in Nat \ {0}
ASSUME BoundAssumption == MaxTokens \in Nat

VARIABLES
    invitation,     \* table invitations, Null for an id not in use
    issued,         \* tokens issued so far; a token is its number
    queued,         \* send_invitation_email_task calls waiting, by invitation
    running,        \* tasks that have read a token: <<invitation, token>>
    mailed,         \* the tokens in the mails sent, by invitation
    lost,           \* invitations of which a mail was lost since the last delay
    account,        \* the user account of each address
    seat,           \* the membership of that user in the organisation
    req             \* the request each worker is serving

vars == <<invitation, issued, queued, running, mailed, lost, account, seat, req>>

-------------------------------------------------------------------------------
Row == [email : Emails, status : {"pending", "accepted", "expired", "revoked"},
        token : Nat, left : -1 .. Lifetime] \* left: time to expires_at, -1: past

ASSUME NullAssumption == Null \notin Invitations \cup Row

Request == [pc : {"idle", "saved", "read"}, invitation : Invitations \cup {Null}]

Idle      == [pc |-> "idle", invitation |-> Null]
Finish(r) == req' = [req EXCEPT ![r] = Idle]

Rows     == {i \in Invitations : invitation[i] # Null}
Pending  == {i \in Rows : invitation[i].status = "pending"}
Overdue  == {i \in Rows : invitation[i].left < 0}

NewInvitation_NoStatus(e) == \* mutant: the status column has no default
    [email |-> e, status |-> Null, token |-> issued + 1, left |-> Lifetime]
NewInvitation(e) ==
    [email |-> e, status |-> "pending", token |-> issued + 1, left |-> Lifetime]

(* A worker has saved invitation i with a new token.                       *)
Saved(r, i, row) ==
    /\ req[r].pc = "idle"
    /\ issued < MaxTokens
    /\ issued' = issued + 1
    /\ invitation' = [invitation EXCEPT ![i] = row]
    /\ req' = [req EXCEPT ![r] = [pc |-> "saved", invitation |-> i]]
    /\ UNCHANGED <<queued, running, mailed, lost, account, seat>>

(* InvitationService.create, under uniq_pending_invitation_...             *)
Create(r, i, e) ==
    /\ i \notin Rows
    /\ \A j \in Pending : invitation[j].email # e
    /\ Saved(r, i, NewInvitation(e))

(* InvitationService.resend, whatever the status.                          *)
Resend(r, i) ==
    /\ i \in Rows
    /\ Saved(r, i, [invitation[i] EXCEPT !.token = issued + 1, !.left = Lifetime])

(* send_invitation_email_task.delay, after the save.                       *)
Delay_Once(r) == \* mutant: a mail is only queued for a new invitation
    LET i == req[r].invitation IN
    /\ req[r].pc = "saved"
    /\ queued' = [queued EXCEPT ![i] = IF mailed[i] = {} THEN @ + 1 ELSE @]
    /\ lost' = lost \ {i}
    /\ Finish(r)
    /\ UNCHANGED <<invitation, issued, running, mailed, account, seat>>
Delay(r) ==
    LET i == req[r].invitation IN
    /\ req[r].pc = "saved"
    /\ queued' = [queued EXCEPT ![i] = @ + 1]
    /\ lost' = lost \ {i}
    /\ Finish(r)
    /\ UNCHANGED <<invitation, issued, running, mailed, account, seat>>

(* The task reads the row, and mails the token it had then; tasks of one   *)
(* invitation may overtake one another.                                    *)
StartMail(i) ==
    /\ queued[i] > 0
    /\ queued' = [queued EXCEPT ![i] = @ - 1]
    /\ running' = running \cup {<<i, invitation[i].token>>}
    /\ UNCHANGED <<invitation, issued, mailed, lost, account, seat, req>>

SendMail(i, t) ==
    /\ <<i, t>> \in running
    /\ running' = running \ {<<i, t>>}
    /\ mailed' = [mailed EXCEPT ![i] = @ \cup {t}]
    /\ UNCHANGED <<invitation, issued, queued, lost, account, seat, req>>

(* A task that fails is not retried.                                       *)
LoseMail(i, t) ==
    /\ <<i, t>> \in running
    /\ running' = running \ {<<i, t>>}
    /\ lost' = lost \cup {i}
    /\ UNCHANGED <<invitation, issued, queued, mailed, account, seat, req>>

(* InvitationService.accept up to the expiry check.  An overdue invitation *)
(* is refused; the status it writes before is rolled back with the rest.   *)
BeginAccept(r, i) ==
    /\ req[r].pc = "idle"
    /\ i \in Pending \ Overdue
    /\ invitation[i].token \in mailed[i]
    /\ req' = [req EXCEPT ![r] = [pc |-> "read", invitation |-> i]]
    /\ UNCHANGED <<invitation, issued, queued, running, mailed, lost, account, seat>>

(* The rest of accept: a new account is verified, a known one stays as it  *)
(* is; get_or_create finds or makes the membership; Accepted is saved.     *)
CommitAccept_NewUserOnly(r) == \* mutant: only a new user is given a seat
    LET i == req[r].invitation
        e == invitation[i].email IN
    /\ req[r].pc = "read"
    /\ account' = [account EXCEPT ![e] = IF @ = "none" THEN "verified" ELSE @]
    /\ seat' = [seat EXCEPT ![e] = IF account[e] = "none" THEN "active" ELSE @]
    /\ invitation' = [invitation EXCEPT ![i].status = "accepted"]
    /\ Finish(r)
    /\ UNCHANGED <<issued, queued, running, mailed, lost>>
CommitAccept(r) ==
    LET i == req[r].invitation
        e == invitation[i].email IN
    /\ req[r].pc = "read"
    /\ account' = [account EXCEPT ![e] = IF @ = "none" THEN "verified" ELSE @]
    /\ seat' = [seat EXCEPT ![e] = "active"]
    /\ invitation' = [invitation EXCEPT ![i].status = "accepted"]
    /\ Finish(r)
    /\ UNCHANGED <<issued, queued, running, mailed, lost>>

(* A wrong password, a constraint or a crash ends the request.  Between    *)
(* the save and the call of delay nothing is rolled back: the mail is lost. *)
Abort(r) ==
    /\ req[r].pc # "idle"
    /\ lost' = IF req[r].pc = "saved" THEN lost \cup {req[r].invitation} ELSE lost
    /\ Finish(r)
    /\ UNCHANGED <<invitation, issued, queued, running, mailed, account, seat>>

(* expire_pending_invitations_task: one UPDATE ... WHERE.                  *)
ToExpire_AnyStatus == Overdue \* mutant: the filter on status is left out
ToExpire_Revoked == \* mutant: filters on a status no code sets
    {i \in Overdue : invitation[i].status = "revoked"}
ToExpire == Pending \cap Overdue

Sweep ==
    /\ ToExpire # {}
    /\ invitation' = [i \in Invitations |->
                        IF i \in ToExpire THEN [invitation[i] EXCEPT !.status = "expired"]
                        ELSE invitation[i]]
    /\ UNCHANGED <<issued, queued, running, mailed, lost, account, seat, req>>

-------------------------------------------------------------------------------
(* The world around: time passes, and accounts and memberships change      *)
(* through the other parts of the system.                                  *)
Tick ==
    /\ Rows \ Overdue # {}
    /\ invitation' = [i \in Invitations |->
                        IF i \in Rows \ Overdue THEN [invitation[i] EXCEPT !.left = @ - 1]
                        ELSE invitation[i]]
    /\ UNCHANGED <<issued, queued, running, mailed, lost, account, seat, req>>

Signup(e) == account[e] = "none" /\ account' = [account EXCEPT ![e] = "unverified"]
Verify(e) == account[e] = "unverified" /\ account' = [account EXCEPT ![e] = "verified"]

Elsewhere(e) ==
    /\ \/ (Signup(e) \/ Verify(e)) /\ UNCHANGED seat
       \/ /\ seat[e] = "active" /\ seat' = [seat EXCEPT ![e] = "removed"]
          /\ UNCHANGED account
    /\ UNCHANGED <<invitation, issued, queued, running, mailed, lost, req>>

-------------------------------------------------------------------------------
Init ==
    /\ invitation = [i \in Invitations |-> Null]
    /\ issued = 0
    /\ queued = [i \in Invitations |-> 0]
    /\ running = {} /\ lost = {}
    /\ mailed = [i \in Invitations |-> {}]
    /\ account = [e \in Emails |-> "none"]
    /\ seat = [e \in Emails |-> "none"]
    /\ req = [r \in Requests |-> Idle]

Serve(r) ==
    \/ \E i \in Invitations, e \in Emails : Create(r, i, e)
    \/ \E i \in Invitations : Resend(r, i) \/ BeginAccept(r, i)
    \/ Delay(r) \/ CommitAccept(r) \/ Abort(r)

Next ==
    \/ \E r \in Requests : Serve(r)
    \/ \E i \in Invitations :
         StartMail(i) \/ \E t \in 1 .. issued : SendMail(i, t) \/ LoseMail(i, t)
    \/ \E e \in Emails : Elsewhere(e)
    \/ Sweep
    \/ Tick

(* Time does not stop and the beat schedule keeps running the sweep.       *)
Fairness == WF_vars(Tick) /\ WF_vars(Sweep)

Spec == Init /\ [][Next]_vars /\ Fairness

-------------------------------------------------------------------------------
(* Properties                                                              *)

(* Rows, mails, accounts and requests stay within their types.             *)
TypeOK ==
    /\ invitation \in [Invitations -> Row \cup {Null}]
    /\ issued \in Nat
    /\ queued \in [Invitations -> Nat]
    /\ running \subseteq Invitations \X (1 .. issued)
    /\ mailed \in [Invitations -> SUBSET (1 .. issued)]
    /\ lost \subseteq Invitations
    /\ account \in [Emails -> {"none", "unverified", "verified"}]
    /\ seat \in [Emails -> {"none", "active", "removed"}]
    /\ req \in [Requests -> Request]

(* Whatever the sweep, a resend or a second acceptance do meanwhile, an    *)
(* invitation that is accepted stays accepted.                             *)
AcceptedIsFinal ==
    [][\A i \in Rows : invitation[i].status = "accepted"
                          => invitation'[i].status = "accepted"]_vars

(* An accepted invitation has left its address an account and a            *)
(* membership, which may have been removed since.  The account is verified *)
(* only if accepting created it: one that had signed up before stays as it *)
(* was, verified or not.                                                   *)
AcceptedHasSeat ==
    \A i \in Rows : invitation[i].status = "accepted" =>
        /\ account[invitation[i].email] # "none"
        /\ seat[invitation[i].email] # "none"

(* Unless one was lost, a mail with the token the invitation is accepted   *)
(* by is with the user or on its way, however resends and tasks overtook   *)
(* one another: an old token in the last mail would shut the user out.     *)
OnItsWay(i) ==
    \/ queued[i] > 0
    \/ <<i, invitation[i].token>> \in running
    \/ \E r \in Requests : req[r] = [pc |-> "saved", invitation |-> i]

CurrentTokenIsMailed ==
    \A i \in Rows : OnItsWay(i) \/ i \in lost \/ invitation[i].token \in mailed[i]

(* Business Rules 2.5: an invitation that is not resent for ever (the      *)
(* bound MaxTokens) is decided in the end, accepted or expired.            *)
EveryInvitationEnds ==
    \A i \in Invitations : i \in Pending ~> i \in Rows \ Pending

(* Business Rules 2.5: an expired invitation can be sent again, and is     *)
(* open again then.                                                        *)
ResendReopens ==
    [][\A i \in Rows :
         invitation[i].status = "expired" /\ invitation'[i].token # invitation[i].token
           => invitation'[i].status = "pending"]_vars
===============================================================================
