-------------------------- MODULE InvitationsProofs ---------------------------
(***************************************************************************)
(* Proofs about Invitations, for any number of invitations, addresses and  *)
(* workers.                                                                *)
(***************************************************************************)
EXTENDS Invitations, TLAPS

(* The token of a row was issued; requests and queued mails are about rows. *)
RowsOK ==
    /\ \A i \in Rows : invitation[i].token \in 1 .. issued
    /\ \A r \in Requests : req[r].pc # "idle" => req[r].invitation \in Rows
    /\ \A i \in Invitations : queued[i] > 0 => i \in Rows

TypeInv == TypeOK /\ RowsOK

(* How a step may change the table: no row goes, none changes its address, *)
(* and only CommitAccept accepts.                                          *)
Table(accepted) ==
    /\ invitation' \in [Invitations -> Row \cup {Null}]
    /\ Rows \subseteq Rows'
    /\ \A i \in Rows : /\ invitation'[i].email = invitation[i].email
                       /\ invitation[i].status = "accepted" => invitation'[i].status = "accepted"
    /\ \A i \in Rows' : invitation'[i].status = "accepted" =>
           i \in accepted \/ (i \in Rows /\ invitation[i].status = "accepted")

SameTokens ==
    /\ issued' = issued /\ Rows' = Rows
    /\ \A i \in Rows : invitation'[i].token = invitation[i].token

-------------------------------------------------------------------------------
LEMMA InRows ==
    ASSUME TypeInv, NEW i \in Invitations
    PROVE  /\ i \in Rows <=> invitation[i] # Null
           /\ i \in Rows <=> invitation[i] \in Row
BY NullAssumption DEF TypeInv, TypeOK, Rows

(* The rows that the steps write.                                          *)
LEMMA NewRow ==
    ASSUME TypeInv, NEW e \in Emails
    PROVE  /\ NewInvitation(e) \in Row /\ NewInvitation(e).token = issued + 1
           /\ NewInvitation(e).status = "pending" /\ NewInvitation(e).email = e
<1>1. issued + 1 \in Nat /\ Lifetime \in -1 .. Lifetime
  BY LifetimeAssumption DEF TypeInv, TypeOK
<1>2. QED BY <1>1 DEF NewInvitation, Row

LEMMA StatusRow ==
    ASSUME NEW row \in Row, NEW s \in {"accepted", "expired"}, NEW new,
           new = [row EXCEPT !.status = s]
    PROVE  new \in Row /\ new.token = row.token /\ new.email = row.email /\ new.status = s
BY DEF Row

LEMMA LeftRow ==
    ASSUME NEW row \in Row, row.left >= 0, NEW new, new = [row EXCEPT !.left = @ - 1]
    PROVE  new \in Row /\ new.token = row.token /\ new.email = row.email
           /\ new.status = row.status
<1>1. row.left - 1 \in -1 .. Lifetime
  BY LifetimeAssumption DEF Row
<1>2. QED BY <1>1 DEF Row

-------------------------------------------------------------------------------
(* One row is written.                                                     *)
LEMMA OneRow ==
    ASSUME TypeInv, NEW i \in Invitations, NEW row \in Row,
           invitation' = [invitation EXCEPT ![i] = row],
           i \in Rows => /\ row.email = invitation[i].email
                         /\ invitation[i].status = "accepted" => row.status = "accepted",
           NEW accepted,
           row.status = "accepted" =>
               i \in accepted \/ (i \in Rows /\ invitation[i].status = "accepted")
    PROVE  Table(accepted) /\ Rows' = Rows \cup {i} /\ invitation'[i] = row
           /\ \A j \in Invitations \ {i} : invitation'[j] = invitation[j]
<1>1. /\ invitation' \in [Invitations -> Row \cup {Null}]
      /\ invitation'[i] = row /\ \A j \in Invitations \ {i} : invitation'[j] = invitation[j]
  BY DEF TypeInv, TypeOK
<1>2. Rows' = Rows \cup {i}
  BY <1>1, NullAssumption DEF Rows
<1>3. Table(accepted)
  BY <1>1, <1>2, InRows DEF Table, Rows
<1>4. QED BY <1>1, <1>2, <1>3

LEMMA SavedStep ==
    ASSUME TypeInv, NEW r \in Requests, NEW i \in Invitations, NEW e \in Emails,
           Create(r, i, e) \/ Resend(r, i)
    PROVE  /\ Table({}) /\ Rows' = Rows \cup {i}
           /\ invitation'[i].token = issued + 1 /\ issued' = issued + 1
           /\ \A j \in Invitations \ {i} : invitation'[j] = invitation[j]
           /\ req' = [req EXCEPT ![r] = [pc |-> "saved", invitation |-> i]]
           /\ UNCHANGED <<queued, running, mailed, lost, account, seat>>
<1>1. issued + 1 \in Nat
  BY DEF TypeInv, TypeOK
<1>2. CASE Create(r, i, e)
  <2>1. Saved(r, i, NewInvitation(e)) /\ i \notin Rows
    BY <1>2 DEF Create
  <2>2. /\ NewInvitation(e) \in Row /\ NewInvitation(e).token = issued + 1
        /\ NewInvitation(e).status = "pending"
    BY NewRow
  <2>3. invitation' = [invitation EXCEPT ![i] = NewInvitation(e)]
    BY <2>1 DEF Saved
  <2>4. /\ Table({}) /\ Rows' = Rows \cup {i} /\ invitation'[i] = NewInvitation(e)
        /\ \A j \in Invitations \ {i} : invitation'[j] = invitation[j]
    BY <2>1, <2>2, <2>3, OneRow
  <2>5. QED BY <2>1, <2>2, <2>4 DEF Saved
<1>3. CASE Resend(r, i)
  <2>1. PICK row : /\ row = [invitation[i] EXCEPT !.token = issued + 1, !.left = Lifetime]
                   /\ Saved(r, i, row)
    BY <1>3, Zenon DEF Resend
  <2>2. i \in Rows /\ invitation[i] \in Row
    BY <1>3, InRows DEF Resend
  <2>3. /\ row \in Row /\ row.token = issued + 1 /\ row.email = invitation[i].email
        /\ row.status = invitation[i].status
    <3>1. Lifetime \in -1 .. Lifetime
      BY LifetimeAssumption
    <3>2. QED BY <1>1, <2>1, <2>2, <3>1 DEF Row
  <2>4. invitation' = [invitation EXCEPT ![i] = row]
    BY <2>1 DEF Saved
  <2>5. /\ Table({}) /\ Rows' = Rows \cup {i} /\ invitation'[i] = row
        /\ \A j \in Invitations \ {i} : invitation'[j] = invitation[j]
    BY <2>2, <2>3, <2>4, OneRow
  <2>6. QED BY <2>1, <2>3, <2>5 DEF Saved
<1>4. QED BY <1>2, <1>3

LEMMA CommitStep ==
    ASSUME TypeInv, NEW r \in Requests, CommitAccept(r)
    PROVE  /\ req[r].invitation \in Rows /\ Table({req[r].invitation}) /\ SameTokens
           /\ req' = [req EXCEPT ![r] = Idle]
           /\ UNCHANGED <<queued, running, mailed, lost>>
<1>1. PICK i : i = req[r].invitation
  OBVIOUS
<1>2. i \in Rows /\ i \in Invitations /\ invitation[i] \in Row
  BY <1>1, InRows DEF CommitAccept, TypeInv, RowsOK, Rows
<1>3. PICK row : row = [invitation[i] EXCEPT !.status = "accepted"]
  OBVIOUS
<1>4. invitation' = [invitation EXCEPT ![i] = row]
  BY <1>1, <1>2, <1>3 DEF CommitAccept, TypeInv, TypeOK
<1>5. /\ row \in Row /\ row.token = invitation[i].token /\ row.email = invitation[i].email
      /\ row.status = "accepted"
  BY <1>2, <1>3 DEF Row
<1>6. /\ Table({i}) /\ Rows' = Rows /\ invitation'[i] = row
      /\ \A j \in Invitations \ {i} : invitation'[j] = invitation[j]
  <2>1. i \in {i} /\ Rows \cup {i} = Rows
    BY <1>2
  <2> HIDE DEF Rows
  <2> DEFINE accepted == {i}
  <2>2. i \in accepted
    BY <2>1
  <2> HIDE DEF accepted
  <2>3. /\ Table(accepted) /\ Rows' = Rows \cup {i} /\ invitation'[i] = row
        /\ \A j \in Invitations \ {i} : invitation'[j] = invitation[j]
    BY <1>2, <1>4, <1>5, <2>2, OneRow
  <2>4. QED BY <2>1, <2>3 DEF accepted
<1>7. SameTokens
  <2>1. issued' = issued
    BY DEF CommitAccept
  <2>2. QED BY <1>5, <1>6, <2>1 DEF SameTokens, Rows
<1>8. QED BY <1>1, <1>2, <1>6, <1>7 DEF CommitAccept, Finish

LEMMA SweepStep ==
    ASSUME TypeInv, Sweep \/ Tick
    PROVE  /\ Table({}) /\ SameTokens
           /\ UNCHANGED <<queued, running, mailed, lost, account, seat, req>>
<1>1. ASSUME NEW i \in Invitations
      PROVE  /\ i \notin Rows => invitation'[i] = Null
             /\ i \in Rows => /\ invitation'[i] \in Row
                              /\ invitation'[i].token = invitation[i].token
                              /\ invitation'[i].email = invitation[i].email
                              /\ (invitation'[i].status = "accepted"
                                    <=> invitation[i].status = "accepted")
  <2>1. i \in Rows <=> invitation[i] \in Row
    BY InRows
  <2>2. CASE Sweep
    <3>1. CASE i \in ToExpire
      <4>1. invitation'[i] = [invitation[i] EXCEPT !.status = "expired"]
        BY <2>2, <3>1 DEF Sweep
      <4>2. i \in Rows /\ invitation[i].status = "pending"
        BY <3>1 DEF ToExpire, Pending
      <4>3. QED BY <2>1, <4>1, <4>2, StatusRow
    <3>2. CASE i \notin ToExpire
      <4>1. invitation'[i] = invitation[i]
        BY <2>2, <3>2 DEF Sweep
      <4>2. QED BY <2>1, <4>1 DEF Rows
    <3>3. QED BY <3>1, <3>2
  <2>3. CASE Tick
    <3>1. CASE i \in Rows \ Overdue
      <4>1. invitation'[i] = [invitation[i] EXCEPT !.left = @ - 1]
        BY <2>3, <3>1 DEF Tick
      <4>2. invitation[i] \in Row /\ invitation[i].left >= 0
        BY <2>1, <3>1 DEF Overdue, Row
      <4>3. QED BY <3>1, <4>1, <4>2, LeftRow
    <3>2. CASE i \notin Rows \ Overdue
      <4>1. invitation'[i] = invitation[i]
        BY <2>3, <3>2 DEF Tick
      <4>2. QED BY <2>1, <4>1 DEF Rows
    <3>3. QED BY <3>1, <3>2
  <2>4. QED BY <2>2, <2>3
<1>2. invitation' \in [Invitations -> Row \cup {Null}]
  <2>1. \A i \in Invitations : invitation'[i] \in Row \cup {Null}
    BY <1>1
  <2>2. \E f : invitation' = [i \in Invitations |-> f[i]]
    BY Zenon DEF Sweep, Tick
  <2>3. QED BY <2>1, <2>2
<1>3. Rows' = Rows
  BY <1>1, NullAssumption DEF Rows
<1>4. Table({})
  BY <1>1, <1>2, <1>3 DEF Table, Rows
<1>5. SameTokens
  BY <1>1, <1>3 DEF SameTokens, Rows, Sweep, Tick
<1>6. QED BY <1>4, <1>5 DEF Sweep, Tick

-------------------------------------------------------------------------------
(* Resending presupposes an address.                                       *)
LEMMA AnAddress ==
    ASSUME NEW r \in Requests, NEW i \in Invitations, TypeInv, Resend(r, i)
    PROVE  \E e \in Emails : TRUE
<1>1. i \in Rows /\ invitation[i] \in Row
  BY InRows DEF Resend
<1>2. QED BY <1>1 DEF Row

LEMMA InitTypeInv == Init => TypeInv
BY DEF Init, TypeInv, TypeOK, RowsOK, Rows, Request, Idle

LEMMA IdleType == Idle \in Request /\ Idle.pc = "idle"
BY DEF Idle, Request

(* A request ends, and the table is as it was.                             *)
LEMMA Ended ==
    ASSUME TypeInv, NEW r \in Requests, req' = [req EXCEPT ![r] = Idle], Rows' = Rows
    PROVE  /\ req' \in [Requests -> Request]
           /\ \A s \in Requests : req'[s].pc # "idle" => req'[s].invitation \in Rows'
           /\ \A s \in Requests \ {r} : req'[s] = req[s]
BY IdleType DEF TypeInv, TypeOK, RowsOK

LEMMA TypeStep == TypeInv /\ [Next]_vars => TypeInv'
<1> SUFFICES ASSUME TypeInv, [Next]_vars PROVE TypeInv'
  OBVIOUS
<1>1. ASSUME NEW r \in Requests, NEW i \in Invitations, NEW e \in Emails,
             Create(r, i, e) \/ Resend(r, i)
      PROVE  TypeInv'
  <2>1. /\ Table({}) /\ Rows' = Rows \cup {i}
        /\ invitation'[i].token = issued + 1 /\ issued' = issued + 1
        /\ \A j \in Invitations \ {i} : invitation'[j] = invitation[j]
        /\ req' = [req EXCEPT ![r] = [pc |-> "saved", invitation |-> i]]
        /\ UNCHANGED <<queued, running, mailed, lost, account, seat>>
    BY <1>1, SavedStep
  <2>2. issued \in Nat
    BY DEF TypeInv, TypeOK
  <2>3. TypeOK'
    <3>1. [pc |-> "saved", invitation |-> i] \in Request
      BY DEF Request
    <3>2. req' \in [Requests -> Request]
      BY <2>1, <3>1 DEF TypeInv, TypeOK
    <3>3. 1 .. issued \subseteq 1 .. issued'
      BY <2>1, <2>2
    <3>4. running' \subseteq Invitations \X (1 .. issued')
      BY <2>1, <3>3 DEF TypeInv, TypeOK
    <3>5. mailed' \in [Invitations -> SUBSET (1 .. issued')]
      BY <2>1, <3>3 DEF TypeInv, TypeOK
    <3>6. QED BY <2>1, <2>2, <3>2, <3>4, <3>5 DEF TypeInv, TypeOK, Table
  <2>4. \A j \in Rows' : invitation'[j].token \in 1 .. issued'
    <3>1. ASSUME NEW j \in Rows', j # i PROVE invitation'[j].token \in 1 .. issued'
      <4>1. j \in Rows /\ invitation'[j] = invitation[j]
        BY <2>1, <3>1 DEF Rows
      <4>2. QED BY <2>1, <2>2, <4>1 DEF TypeInv, RowsOK
    <3>2. QED BY <2>1, <2>2, <3>1
  <2>5. \A s \in Requests : req'[s].pc # "idle" => req'[s].invitation \in Rows'
    BY <2>1 DEF TypeInv, TypeOK, RowsOK
  <2>6. \A j \in Invitations : queued'[j] > 0 => j \in Rows'
    BY <2>1 DEF TypeInv, RowsOK
  <2>7. QED BY <2>3, <2>4, <2>5, <2>6 DEF TypeInv, RowsOK
<1>2. ASSUME NEW r \in Requests, CommitAccept(r) PROVE TypeInv'
  <2>1. /\ Table({req[r].invitation}) /\ SameTokens
        /\ req' = [req EXCEPT ![r] = Idle]
        /\ UNCHANGED <<queued, running, mailed, lost>>
    BY <1>2, CommitStep
  <2>2. /\ account' \in [Emails -> {"none", "unverified", "verified"}]
        /\ seat' \in [Emails -> {"none", "active", "removed"}]
    BY <1>2 DEF CommitAccept, TypeInv, TypeOK
  <2>3. Rows' = Rows /\ issued' = issued
    BY <2>1 DEF SameTokens
  <2>4. TypeOK'
    BY <2>1, <2>2, <2>3, Ended DEF TypeInv, TypeOK, Table
  <2>5. RowsOK'
    BY <2>1, <2>3, Ended DEF TypeInv, RowsOK, SameTokens
  <2>6. QED BY <2>4, <2>5 DEF TypeInv
<1>3. CASE Sweep \/ Tick
  <2>1. /\ Table({}) /\ SameTokens
        /\ UNCHANGED <<queued, running, mailed, lost, account, seat, req>>
    BY <1>3, SweepStep
  <2>2. TypeOK'
    BY <2>1 DEF TypeInv, TypeOK, Table, SameTokens
  <2>3. RowsOK'
    BY <2>1 DEF TypeInv, RowsOK, SameTokens
  <2>4. QED BY <2>2, <2>3 DEF TypeInv
<1>4. ASSUME NEW r \in Requests, Delay(r) \/ Abort(r) PROVE TypeInv'
  <2>1. /\ req' = [req EXCEPT ![r] = Idle] /\ req[r].pc # "idle"
        /\ UNCHANGED <<invitation, issued, running, mailed, account, seat>>
        /\ queued' = [queued EXCEPT ![req[r].invitation] = @ + 1] \/ UNCHANGED queued
        /\ lost' \subseteq lost \cup {req[r].invitation}
    BY <1>4 DEF Delay, Abort, Finish
  <2>2. req[r].invitation \in Rows /\ Rows' = Rows /\ Rows \subseteq Invitations
    BY <2>1 DEF TypeInv, RowsOK, Rows
  <2>3. queued' \in [Invitations -> Nat] /\ \A i \in Invitations : queued'[i] > 0 => i \in Rows
    BY <2>1, <2>2 DEF TypeInv, TypeOK, RowsOK
  <2>4. lost' \subseteq Invitations
    BY <2>1, <2>2 DEF TypeInv, TypeOK
  <2>5. QED BY <2>1, <2>2, <2>3, <2>4, Ended DEF TypeInv, TypeOK, RowsOK
<1>5. ASSUME NEW i \in Invitations, StartMail(i) PROVE TypeInv'
  <2>1. /\ queued[i] > 0 /\ queued' = [queued EXCEPT ![i] = @ - 1]
        /\ running' = running \cup {<<i, invitation[i].token>>}
        /\ UNCHANGED <<invitation, issued, mailed, lost, account, seat, req>>
    BY <1>5 DEF StartMail
  <2>2. i \in Rows /\ invitation[i].token \in 1 .. issued /\ Rows' = Rows
    BY <2>1 DEF TypeInv, RowsOK, Rows
  <2>3. queued' \in [Invitations -> Nat] /\ \A j \in Invitations : queued'[j] > 0 => j \in Rows
    BY <2>1, <2>2 DEF TypeInv, TypeOK, RowsOK
  <2>4. running' \subseteq Invitations \X (1 .. issued)
    BY <2>1, <2>2 DEF TypeInv, TypeOK
  <2>5. QED BY <2>1, <2>2, <2>3, <2>4 DEF TypeInv, TypeOK, RowsOK
<1>6. ASSUME NEW i \in Invitations, NEW t \in 1 .. issued, SendMail(i, t) \/ LoseMail(i, t)
      PROVE  TypeInv'
  <2>1. /\ running' = running \ {<<i, t>>}
        /\ UNCHANGED <<invitation, issued, queued, account, seat, req>>
        /\ mailed' = [mailed EXCEPT ![i] = @ \cup {t}] \/ UNCHANGED mailed
        /\ lost' = lost \cup {i} \/ UNCHANGED lost
    BY <1>6 DEF SendMail, LoseMail
  <2>2. mailed' \in [Invitations -> SUBSET (1 .. issued)] /\ lost' \subseteq Invitations
    BY <2>1 DEF TypeInv, TypeOK
  <2>3. QED BY <2>1, <2>2 DEF TypeInv, TypeOK, RowsOK, Rows
<1>7. ASSUME NEW r \in Requests, NEW i \in Invitations, BeginAccept(r, i) PROVE TypeInv'
  <2>1. /\ i \in Rows /\ req' = [req EXCEPT ![r] = [pc |-> "read", invitation |-> i]]
        /\ UNCHANGED <<invitation, issued, queued, running, mailed, lost, account, seat>>
    BY <1>7 DEF BeginAccept, Pending
  <2>2. req' \in [Requests -> Request]
    BY <2>1 DEF TypeInv, TypeOK, Request
  <2>3. \A s \in Requests : req'[s].pc # "idle" => req'[s].invitation \in Rows
    BY <2>1 DEF TypeInv, TypeOK, RowsOK
  <2>4. QED BY <2>1, <2>2, <2>3 DEF TypeInv, TypeOK, RowsOK, Rows
<1>8. ASSUME NEW e \in Emails, Elsewhere(e) PROVE TypeInv'
  <2>1. /\ account' \in [Emails -> {"none", "unverified", "verified"}]
        /\ seat' \in [Emails -> {"none", "active", "removed"}]
        /\ UNCHANGED <<invitation, issued, queued, running, mailed, lost, req>>
    BY <1>8 DEF Elsewhere, Signup, Verify, TypeInv, TypeOK
  <2>2. QED BY <2>1 DEF TypeInv, TypeOK, RowsOK, Rows
<1>9. CASE UNCHANGED vars
  BY <1>9 DEF vars, TypeInv, TypeOK, RowsOK, Rows
<1>10. QED
  BY <1>1, <1>2, <1>3, <1>4, <1>5, <1>6, <1>7, <1>8, <1>9, AnAddress DEF Next, Serve

(* The table of invitations, the mails, the accounts and the requests stay *)
(* within their types: organizations/models.py, services.py, tasks.py.     *)
THEOREM TypeCorrect == Spec => []TypeOK
<1>1. TypeInv => TypeOK
  BY DEF TypeInv
<1>2. QED BY InitTypeInv, TypeStep, <1>1, PTL DEF Spec

-------------------------------------------------------------------------------
(* What every step leaves of the table.                                    *)
LEMMA TableStep ==
    ASSUME TypeInv, [Next]_vars
    PROVE  \/ Table({})
           \/ \E r \in Requests : CommitAccept(r) /\ Table({req[r].invitation})
<1>1. ASSUME UNCHANGED invitation PROVE Table({})
  BY <1>1 DEF Table, Rows, TypeInv, TypeOK
<1>2. ASSUME NEW r \in Requests, NEW i \in Invitations, NEW e \in Emails,
             Create(r, i, e) \/ Resend(r, i)
      PROVE  Table({})
  BY <1>2, SavedStep
<1>3. ASSUME NEW r \in Requests, CommitAccept(r)
      PROVE  \E s \in Requests : CommitAccept(s) /\ Table({req[s].invitation})
  BY <1>3, CommitStep
<1>4. CASE Sweep \/ Tick
  BY <1>4, SweepStep
<1>5. ASSUME NEW r \in Requests, NEW i \in Invitations, Delay(r) \/ Abort(r) \/ BeginAccept(r, i)
      PROVE  Table({})
  BY <1>1, <1>5 DEF Delay, Abort, BeginAccept
<1>6. ASSUME NEW r \in Requests, Delay(r) \/ Abort(r) PROVE Table({})
  BY <1>1, <1>6 DEF Delay, Abort
<1>7. ASSUME NEW i \in Invitations, StartMail(i) \/ \E t \in 1 .. issued : SendMail(i, t) \/ LoseMail(i, t)
      PROVE  Table({})
  BY <1>1, <1>7 DEF StartMail, SendMail, LoseMail
<1>8. ASSUME NEW e \in Emails, Elsewhere(e) PROVE Table({})
  BY <1>1, <1>8 DEF Elsewhere
<1>9. CASE UNCHANGED vars
  BY <1>1, <1>9 DEF vars
<1>10. QED
  BY <1>2, <1>3, <1>4, <1>5, <1>6, <1>7, <1>8, <1>9, AnAddress DEF Next, Serve

(* An accepted invitation stays accepted: organizations/services.py:28-107 *)
(* and the filter of tasks.py.                                             *)
THEOREM AcceptanceIsFinal == Spec => AcceptedIsFinal
<1>1. TypeInv /\ [Next]_vars
        => [\A i \in Rows : invitation[i].status = "accepted"
                              => invitation'[i].status = "accepted"]_vars
  <2> SUFFICES ASSUME TypeInv, [Next]_vars, NEW i \in Rows, invitation[i].status = "accepted"
               PROVE  invitation'[i].status = "accepted"
    OBVIOUS
  <2>1. QED BY TableStep DEF Table
<1>2. QED BY InitTypeInv, TypeStep, <1>1, PTL DEF Spec, AcceptedIsFinal

-------------------------------------------------------------------------------
(* A user who has an account and a membership keeps the rows of both.      *)
LEMMA PeopleStep ==
    ASSUME TypeInv, [Next]_vars, NEW e \in Emails
    PROVE  /\ account[e] # "none" => account'[e] # "none"
           /\ seat[e] # "none" => seat'[e] # "none"
<1>1. CASE UNCHANGED <<account, seat>>
  BY <1>1
<1>2. ASSUME NEW r \in Requests, CommitAccept(r)
      PROVE  /\ account[e] # "none" => account'[e] # "none"
             /\ seat[e] # "none" => seat'[e] # "none"
  <2>1. PICK f : /\ account' = [account EXCEPT ![f] = IF @ = "none" THEN "verified" ELSE @]
                 /\ seat' = [seat EXCEPT ![f] = "active"]
    BY <1>2, Zenon DEF CommitAccept
  <2>2. QED BY <2>1 DEF TypeInv, TypeOK
<1>3. ASSUME NEW f \in Emails, Elsewhere(f)
      PROVE  /\ account[e] # "none" => account'[e] # "none"
             /\ seat[e] # "none" => seat'[e] # "none"
  BY <1>3 DEF Elsewhere, Signup, Verify, TypeInv, TypeOK
<1>4. ASSUME NEW r \in Requests, Serve(r), ~CommitAccept(r) PROVE UNCHANGED <<account, seat>>
  BY <1>4 DEF Serve, Create, Resend, Saved, Delay, Abort, BeginAccept
<1>5. QED
  BY <1>1, <1>2, <1>3, <1>4 DEF Next, StartMail, SendMail, LoseMail, Sweep, Tick, vars

SeatInv == TypeInv /\ AcceptedHasSeat

LEMMA SeatStep == SeatInv /\ [Next]_vars => SeatInv'
<1> SUFFICES ASSUME SeatInv, [Next]_vars PROVE SeatInv'
  OBVIOUS
<1>0. TypeInv /\ TypeInv'
  BY TypeStep DEF SeatInv
<1>1. ASSUME NEW i \in Rows', invitation'[i].status = "accepted",
             i \in Rows, invitation[i].status = "accepted",
             invitation'[i].email = invitation[i].email
      PROVE  account'[invitation'[i].email] # "none" /\ seat'[invitation'[i].email] # "none"
  <2>1. PICK e \in Emails : e = invitation[i].email
    BY <1>0, <1>1, InRows DEF Rows, Row
  <2>2. account[e] # "none" /\ seat[e] # "none"
    BY <1>1, <2>1 DEF SeatInv, AcceptedHasSeat
  <2>3. QED BY <1>0, <1>1, <2>1, <2>2, PeopleStep
<1>2. CASE Table({})
  BY <1>0, <1>1, <1>2 DEF Table, SeatInv, AcceptedHasSeat
<1>3. ASSUME NEW r \in Requests, CommitAccept(r), Table({req[r].invitation}) PROVE SeatInv'
  <2>1. PICK i \in Rows : i = req[r].invitation
    BY <1>0, <1>3, CommitStep
  <2>2. PICK e \in Emails : e = invitation[i].email
    BY <1>0, InRows DEF Rows, Row
  <2>3. /\ account' = [account EXCEPT ![e] = IF @ = "none" THEN "verified" ELSE @]
        /\ seat' = [seat EXCEPT ![e] = "active"]
    BY <1>3, <2>1, <2>2, Zenon DEF CommitAccept
  <2>4. account'[e] # "none" /\ seat'[e] # "none"
    BY <1>0, <2>3 DEF TypeInv, TypeOK
  <2>5. invitation'[i].email = e
    BY <1>3, <2>2 DEF Table
  <2>6. QED BY <1>0, <1>1, <1>3, <2>1, <2>4, <2>5 DEF Table, SeatInv, AcceptedHasSeat
<1>4. QED BY <1>0, <1>2, <1>3, TableStep

(* Whoever accepted an invitation has an account, not necessarily a        *)
(* verified one, and a membership, which may have been removed since:      *)
(* InvitationService.accept verifies only the accounts it creates.         *)
THEOREM AcceptanceGivesSeat == Spec => []AcceptedHasSeat
<1>1. Init => SeatInv
  BY InitTypeInv DEF SeatInv, AcceptedHasSeat, Init, Rows
<1>2. SeatInv => AcceptedHasSeat
  BY DEF SeatInv
<1>3. QED BY SeatStep, <1>1, <1>2, PTL DEF Spec

-------------------------------------------------------------------------------
MailInv == TypeInv /\ CurrentTokenIsMailed

(* The mail of invitation i is with the user, on its way or lost.          *)
MailOK(i) == OnItsWay(i) \/ i \in lost \/ invitation[i].token \in mailed[i]

LEMMA MailStep == MailInv /\ [Next]_vars => MailInv'
<1> SUFFICES ASSUME MailInv, [Next]_vars PROVE MailInv'
  OBVIOUS
<1>0. TypeInv /\ TypeInv' /\ \A i \in Rows : MailOK(i)
  BY TypeStep DEF MailInv, CurrentTokenIsMailed, MailOK
<1> SUFFICES \A i \in Rows' : MailOK(i)'
  BY <1>0 DEF MailInv, CurrentTokenIsMailed, MailOK
(* A step that keeps requests, except perhaps ones that had not saved, and *)
(* mails.                                                                  *)
<1>1. ASSUME NEW i \in Rows, invitation'[i].token = invitation[i].token,
             UNCHANGED <<queued, running, mailed, lost>>,
             \A r \in Requests : req[r].pc = "saved" => req'[r] = req[r]
      PROVE  MailOK(i)'
  BY <1>0, <1>1 DEF MailOK, OnItsWay
<1>2. ASSUME NEW r \in Requests, NEW i \in Invitations, NEW e \in Emails,
             Create(r, i, e) \/ Resend(r, i)
      PROVE  \A j \in Rows' : MailOK(j)'
  <2>1. /\ Rows' = Rows \cup {i}
        /\ \A j \in Invitations \ {i} : invitation'[j] = invitation[j]
        /\ req' = [req EXCEPT ![r] = [pc |-> "saved", invitation |-> i]]
        /\ UNCHANGED <<queued, running, mailed, lost>>
    BY <1>0, <1>2, SavedStep
  <2>2. req[r].pc = "idle"
    BY <1>2 DEF Create, Resend, Saved
  <2>3. req'[r] = [pc |-> "saved", invitation |-> i] /\ \A s \in Requests \ {r} : req'[s] = req[s]
    BY <1>0, <2>1 DEF TypeInv, TypeOK
  <2>4. MailOK(i)'
    BY <2>3 DEF MailOK, OnItsWay
  <2>5. ASSUME NEW j \in Rows', j # i PROVE MailOK(j)'
    <3>1. j \in Rows /\ invitation'[j].token = invitation[j].token
      BY <2>1, <2>5 DEF Rows
    <3>2. QED BY <1>1, <2>1, <2>2, <2>3, <3>1
  <2>6. QED BY <2>4, <2>5
<1>3. ASSUME NEW r \in Requests, CommitAccept(r) PROVE \A i \in Rows' : MailOK(i)'
  <2>1. /\ SameTokens /\ req' = [req EXCEPT ![r] = Idle]
        /\ UNCHANGED <<queued, running, mailed, lost>>
    BY <1>0, <1>3, CommitStep
  <2>2. req[r].pc = "read"
    BY <1>3 DEF CommitAccept
  <2>3. \A s \in Requests : req[s].pc = "saved" => req'[s] = req[s]
    BY <1>0, <2>1, <2>2 DEF TypeInv, TypeOK
  <2>4. QED BY <1>1, <2>1, <2>3 DEF SameTokens
<1>4. CASE Sweep \/ Tick
  BY <1>0, <1>1, <1>4, SweepStep DEF SameTokens
<1>5. ASSUME NEW r \in Requests, Delay(r) \/ Abort(r) PROVE \A i \in Rows' : MailOK(i)'
  <2>1. PICK j \in Invitations \cup {Null} : j = req[r].invitation
    BY <1>0 DEF TypeInv, TypeOK, Request
  <2>2. /\ Rows' = Rows /\ UNCHANGED <<invitation, running, mailed>> /\ req[r].pc # "idle"
        /\ req' = [req EXCEPT ![r] = Idle]
    BY <1>5 DEF Delay, Abort, Rows, Finish
  <2>3. \A s \in Requests \ {r} : req'[s] = req[s]
    BY <1>0, <2>2 DEF TypeInv, TypeOK
  <2>4. j \in Rows /\ j \in Invitations
    BY <1>0, <2>1, <2>2 DEF TypeInv, RowsOK, Rows
  <2>5. ASSUME NEW i \in Rows, i # j PROVE MailOK(i)'
    <3>1. queued'[i] = queued[i] /\ (i \in lost => i \in lost')
      BY <1>0, <1>5, <2>1, <2>4, <2>5 DEF Delay, Abort, Rows, TypeInv, TypeOK
    <3>2. \A s \in Requests : req[s] = [pc |-> "saved", invitation |-> i] => s # r
      BY <2>1, <2>5
    <3>3. QED BY <1>0, <2>2, <2>3, <3>1, <3>2 DEF MailOK, OnItsWay
  <2>6. MailOK(j)'
    <3>1. CASE Delay(r)
      <4>1. queued'[j] = queued[j] + 1 /\ queued[j] \in Nat
        BY <1>0, <2>1, <2>4, <3>1 DEF Delay, TypeInv, TypeOK
      <4>2. QED BY <4>1 DEF MailOK, OnItsWay
    <3>2. CASE Abort(r) /\ req[r].pc = "saved"
      BY <2>1, <3>2 DEF Abort, MailOK
    <3>3. CASE Abort(r) /\ req[r].pc # "saved"
      <4>1. UNCHANGED <<queued, lost>>
        BY <3>3 DEF Abort
      <4>2. \A s \in Requests : req[s].pc = "saved" => req'[s] = req[s]
        BY <2>3, <3>3
      <4>3. QED BY <1>1, <2>2, <2>4, <4>1, <4>2
    <3>4. QED BY <1>5, <3>1, <3>2, <3>3
  <2>7. QED BY <2>2, <2>5, <2>6
<1>6. ASSUME NEW i \in Invitations, StartMail(i) PROVE \A j \in Rows' : MailOK(j)'
  <2>1. /\ Rows' = Rows /\ queued' = [queued EXCEPT ![i] = @ - 1]
        /\ running' = running \cup {<<i, invitation[i].token>>}
        /\ UNCHANGED <<invitation, mailed, lost, req>>
    BY <1>6 DEF StartMail, Rows
  <2>2. MailOK(i)'
    BY <2>1 DEF MailOK, OnItsWay
  <2>3. ASSUME NEW j \in Rows, j # i PROVE MailOK(j)'
    <3>1. queued'[j] = queued[j]
      BY <1>0, <2>1, <2>3 DEF TypeInv, TypeOK, Rows
    <3>2. QED BY <1>0, <2>1, <3>1 DEF MailOK, OnItsWay
  <2>4. QED BY <2>1, <2>2, <2>3
<1>7. ASSUME NEW i \in Invitations, NEW t \in 1 .. issued, SendMail(i, t) \/ LoseMail(i, t),
             NEW j \in Rows'
      PROVE  MailOK(j)'
  <2>1. /\ j \in Rows /\ running' = running \ {<<i, t>>}
        /\ UNCHANGED <<invitation, queued, req>>
        /\ \/ mailed' = [mailed EXCEPT ![i] = @ \cup {t}] /\ UNCHANGED lost
           \/ lost' = lost \cup {i} /\ UNCHANGED mailed
    BY <1>7 DEF SendMail, LoseMail, Rows
  <2>2. /\ mailed[j] \subseteq mailed'[j] /\ lost \subseteq lost'
        /\ <<j, invitation[j].token>> = <<i, t>> => invitation[j].token \in mailed'[j] \/ j \in lost'
    BY <1>0, <2>1 DEF TypeInv, TypeOK, Rows
  <2>3. QED BY <1>0, <2>1, <2>2 DEF MailOK, OnItsWay
<1>8. ASSUME NEW r \in Requests, NEW i \in Invitations, BeginAccept(r, i),
             NEW j \in Rows'
      PROVE  MailOK(j)'
  <2>1. /\ j \in Rows /\ req[r].pc = "idle" /\ UNCHANGED <<invitation, queued, running, mailed, lost>>
        /\ req' = [req EXCEPT ![r] = [pc |-> "read", invitation |-> i]]
    BY <1>8 DEF BeginAccept, Rows
  <2>2. \A s \in Requests : req[s].pc = "saved" => req'[s] = req[s]
    BY <1>0, <2>1 DEF TypeInv, TypeOK
  <2>3. QED BY <1>1, <2>1, <2>2
<1>9. ASSUME UNCHANGED <<invitation, queued, running, mailed, lost, req>>, NEW j \in Rows'
      PROVE  MailOK(j)'
  BY <1>1, <1>9 DEF Rows
<1>10. QED
  <2>1. CASE \E r \in Requests : Serve(r)
    BY <1>0, <1>2, <1>3, <1>5, <1>8, <2>1, AnAddress DEF Serve
  <2>2. CASE ~\E r \in Requests : Serve(r)
    BY <1>4, <1>6, <1>7, <1>9, <2>2 DEF Next, Elsewhere, vars
  <2>3. QED BY <2>1, <2>2

(* No order of saves, resends and tasks leaves the user without a mail     *)
(* that carries the token of the row, unless one was lost:                 *)
(* InvitationService.create, resend; send_invitation_email_task.           *)
THEOREM MailCarriesToken == Spec => []CurrentTokenIsMailed
<1>1. Init => MailInv
  BY InitTypeInv DEF MailInv, CurrentTokenIsMailed, Init, Rows
<1>2. MailInv => CurrentTokenIsMailed
  BY DEF MailInv
<1>3. QED BY MailStep, <1>1, <1>2, PTL DEF Spec

-------------------------------------------------------------------------------
(* Decisions and deadlines                                                 *)

(* A step leaves the status of a row, accepts it, or lets an open one      *)
(* expire, and moves its deadline nearer unless it sends a new token.      *)
RowMoves(i) ==
    /\ \/ invitation'[i].status \in {invitation[i].status, "accepted"}
       \/ invitation[i].status = "pending" /\ invitation'[i].status = "expired"
    /\ \/ invitation'[i].token # invitation[i].token
       \/ invitation'[i].left <= invitation[i].left

LEMMA RowStep ==
    ASSUME TypeInv, [Next]_vars, NEW i \in Rows
    PROVE  RowMoves(i) /\ i \in Rows'
<1>1. PICK row \in Row : row = invitation[i]
  BY InRows DEF Rows
<1>2. i \in Invitations /\ i \in Rows' /\ row.left \in Int /\ row.left - 1 <= row.left
  BY <1>1, TableStep DEF Table, Row, Rows
<1>3. ASSUME invitation'[i] = row PROVE RowMoves(i)
  BY <1>1, <1>2, <1>3 DEF RowMoves
<1>4. ASSUME NEW r \in Requests, NEW j \in Invitations, NEW e \in Emails, Create(r, j, e)
      PROVE  RowMoves(i)
  <2>1. j # i
    BY <1>4 DEF Create
  <2>2. QED BY <1>1, <1>3, <1>4, <2>1 DEF Create, Saved, TypeInv, TypeOK, Rows
<1>5. ASSUME NEW r \in Requests, NEW j \in Invitations, Resend(r, j)
      PROVE  RowMoves(i)
  <2>1. invitation' = [invitation EXCEPT ![j] =
                         [invitation[j] EXCEPT !.token = issued + 1, !.left = Lifetime]]
    BY <1>5 DEF Resend, Saved
  <2>2. CASE j # i
    BY <1>1, <1>2, <1>3, <2>1, <2>2 DEF TypeInv, TypeOK
  <2>3. CASE j = i
    <3>1. invitation'[i] = [row EXCEPT !.token = issued + 1, !.left = Lifetime]
      BY <1>1, <1>2, <2>1, <2>3 DEF TypeInv, TypeOK
    <3>2. invitation'[i].token = issued + 1 /\ invitation'[i].status = row.status
      BY <3>1 DEF Row
    <3>3. row.token \in 1 .. issued /\ issued \in Nat
      BY <1>1 DEF TypeInv, TypeOK, RowsOK
    <3>4. QED BY <1>1, <3>2, <3>3 DEF RowMoves
  <2>4. QED BY <2>2, <2>3
<1>6. ASSUME NEW r \in Requests, CommitAccept(r) PROVE RowMoves(i)
  <2>1. PICK j : invitation' = [invitation EXCEPT ![j].status = "accepted"]
    BY <1>6 DEF CommitAccept
  <2>2. CASE j # i
    BY <1>1, <1>2, <1>3, <2>1, <2>2 DEF TypeInv, TypeOK
  <2>3. CASE j = i
    <3>1. invitation'[i] = [row EXCEPT !.status = "accepted"]
      BY <1>1, <1>2, <2>1, <2>3 DEF TypeInv, TypeOK
    <3>2. invitation'[i].status = "accepted" /\ invitation'[i].left = row.left
      BY <3>1 DEF Row
    <3>3. QED BY <1>1, <1>2, <3>2 DEF RowMoves
  <2>4. QED BY <2>2, <2>3
<1>7. CASE Sweep
  <2>1. CASE i \in ToExpire
    <3>1. invitation'[i] = [row EXCEPT !.status = "expired"] /\ row.status = "pending"
      BY <1>1, <1>2, <1>7, <2>1 DEF Sweep, ToExpire, Pending
    <3>2. invitation'[i].status = "expired" /\ invitation'[i].left = row.left
      BY <3>1 DEF Row
    <3>3. QED BY <1>1, <1>2, <3>1, <3>2 DEF RowMoves
  <2>2. CASE i \notin ToExpire
    BY <1>1, <1>2, <1>3, <1>7, <2>2 DEF Sweep
  <2>3. QED BY <2>1, <2>2
<1>8. CASE Tick
  <2>1. CASE i \in Rows \ Overdue
    <3>1. invitation'[i] = [row EXCEPT !.left = @ - 1]
      BY <1>1, <1>2, <1>8, <2>1 DEF Tick
    <3>2. invitation'[i].status = row.status /\ invitation'[i].left = row.left - 1
      BY <3>1 DEF Row
    <3>3. QED BY <1>1, <1>2, <3>2 DEF RowMoves
  <2>2. CASE i \notin Rows \ Overdue
    BY <1>1, <1>2, <1>3, <1>8, <2>2 DEF Tick
  <2>3. QED BY <2>1, <2>2
<1>9. ASSUME UNCHANGED invitation PROVE RowMoves(i)
  BY <1>1, <1>3, <1>9
<1>10. ASSUME NEW r \in Requests, Serve(r) PROVE RowMoves(i)
  BY <1>4, <1>5, <1>6, <1>9, <1>10 DEF Serve, Delay, Abort, BeginAccept
<1>11. ASSUME NEW j \in Invitations,
              StartMail(j) \/ \E t \in 1 .. issued : SendMail(j, t) \/ LoseMail(j, t)
       PROVE  RowMoves(i)
  BY <1>9, <1>11 DEF StartMail, SendMail, LoseMail
<1>12. ASSUME NEW e \in Emails, Elsewhere(e) PROVE RowMoves(i)
  BY <1>9, <1>12 DEF Elsewhere
<1>13. RowMoves(i)
  BY <1>7, <1>8, <1>9, <1>10, <1>11, <1>12 DEF Next, vars
<1>14. QED BY <1>2, <1>13

(* No invitation that was accepted or has expired is ever open again: a    *)
(* resend of InvitationService renews the token and not the status, in     *)
(* every order of events (the run resend_reopens shows it in one).         *)
THEOREM NothingReopens == Spec => [][\A i \in Rows : i \notin Pending => i \notin Pending']_vars
<1>1. TypeInv /\ [Next]_vars => [\A i \in Rows : i \notin Pending => i \notin Pending']_vars
  BY RowStep DEF RowMoves, Pending
<1>2. QED BY InitTypeInv, TypeStep, <1>1, PTL DEF Spec

(* The safety half of EveryInvitationEnds: while no new token is sent,     *)
(* nothing prolongs an invitation, the clock shortens it, and the sweep    *)
(* leaves none of those whose time is up.                                  *)
RunsOut ==
    \A i \in Pending :
        \/ invitation'[i].token # invitation[i].token
        \/ /\ invitation'[i].left <= invitation[i].left
           /\ Tick => invitation'[i].left < invitation[i].left \/ i \in Overdue
           /\ Sweep => i \notin Overdue \/ invitation'[i].status = "expired"

THEOREM DeadlinesApproach == Spec => [][RunsOut]_vars
<1>1. ASSUME TypeInv, [Next]_vars PROVE RunsOut
  <2> SUFFICES ASSUME NEW i \in Pending, invitation'[i].token = invitation[i].token
               PROVE  /\ invitation'[i].left <= invitation[i].left
                      /\ Tick => invitation'[i].left < invitation[i].left \/ i \in Overdue
                      /\ Sweep => i \notin Overdue \/ invitation'[i].status = "expired"
    BY DEF RunsOut
  <2>1. i \in Rows /\ i \in Invitations
    BY DEF Pending, Rows
  <2>2. PICK row \in Row : row = invitation[i]
    BY <1>1, <2>1, InRows
  <2>3. invitation'[i].left <= invitation[i].left
    BY <1>1, <2>1, RowStep DEF RowMoves
  <2>4. ASSUME Tick, i \notin Overdue PROVE invitation'[i].left < invitation[i].left
    <3>1. invitation'[i] = [row EXCEPT !.left = @ - 1]
      BY <2>1, <2>2, <2>4 DEF Tick
    <3>2. invitation'[i].left = row.left - 1 /\ row.left \in Int
      BY <3>1 DEF Row
    <3>3. QED BY <2>2, <3>2
  <2>5. ASSUME Sweep, i \in Overdue PROVE invitation'[i].status = "expired"
    <3>1. invitation'[i] = [row EXCEPT !.status = "expired"]
      BY <2>1, <2>2, <2>5 DEF Sweep, ToExpire
    <3>2. QED BY <3>1 DEF Row
  <2>6. QED BY <2>3, <2>4, <2>5
<1>2. TypeInv /\ [Next]_vars => [RunsOut]_vars
  BY <1>1
<1>3. QED BY InitTypeInv, TypeStep, <1>2, PTL DEF Spec

-------------------------------------------------------------------------------
(* Nobody has a seat whose address has no accepted invitation, and no      *)
(* address has two open ones.                                              *)
SeatsAreInvited ==
    \A e \in Emails : seat[e] # "none" =>
        \E i \in Rows : invitation[i].email = e /\ invitation[i].status = "accepted"

OneOpenPerAddress ==
    \A i, j \in Pending : invitation[i].email = invitation[j].email => i = j

LEMMA SeatsStep ==
    ASSUME TypeInv, [Next]_vars, SeatsAreInvited
    PROVE  SeatsAreInvited'
<1>1. ASSUME NEW e \in Emails, NEW i \in Rows, invitation[i].email = e, invitation[i].status = "accepted"
      PROVE  i \in Rows' /\ invitation'[i].email = e /\ invitation'[i].status = "accepted"
  BY <1>1, TableStep DEF Table
<1>2. CASE \A e \in Emails : seat'[e] # "none" => seat[e] # "none"
  BY <1>1, <1>2 DEF SeatsAreInvited
<1>3. ASSUME NEW r \in Requests, CommitAccept(r) PROVE SeatsAreInvited'
  <2>1. PICK i \in Rows : i = req[r].invitation /\ i \in Rows' /\ i \in Invitations
    BY <1>3, CommitStep DEF Table, Rows
  <2>2. /\ invitation'[i].status = "accepted"
        /\ invitation'[i].email = invitation[i].email /\ invitation[i].email \in Emails
    <3>1. PICK row \in Row : row = invitation[i]
      BY <2>1, InRows
    <3>2. invitation'[i] = [row EXCEPT !.status = "accepted"]
      BY <1>3, <2>1, <3>1 DEF CommitAccept, TypeInv, TypeOK
    <3>3. QED BY <3>1, <3>2 DEF Row
  <2>3. seat' = [seat EXCEPT ![invitation[i].email] = "active"]
    BY <1>3, <2>1 DEF CommitAccept
  <2>4. ASSUME NEW e \in Emails, seat'[e] # "none"
        PROVE  \E j \in Rows' : invitation'[j].email = e /\ invitation'[j].status = "accepted"
    <3>1. CASE e = invitation[i].email
      BY <2>1, <2>2, <3>1
    <3>2. CASE e # invitation[i].email
      <4>1. seat[e] # "none"
        BY <2>3, <2>4, <3>2 DEF TypeInv, TypeOK
      <4>2. QED BY <1>1, <4>1 DEF SeatsAreInvited
    <3>3. QED BY <3>1, <3>2
  <2>5. QED BY <2>4 DEF SeatsAreInvited
<1>4. ASSUME NEW e \in Emails, Elsewhere(e) PROVE SeatsAreInvited'
  <2>1. \A f \in Emails : seat'[f] # "none" => seat[f] # "none"
    BY <1>4 DEF Elsewhere, TypeInv, TypeOK
  <2>2. QED BY <1>2, <2>1
<1>5. ASSUME UNCHANGED seat PROVE SeatsAreInvited'
  BY <1>2, <1>5
<1>6. ASSUME NEW r \in Requests, Serve(r) PROVE SeatsAreInvited'
  BY <1>3, <1>5, <1>6 DEF Serve, Create, Resend, Saved, Delay, Abort, BeginAccept
<1>7. QED
  BY <1>4, <1>5, <1>6 DEF Next, StartMail, SendMail, LoseMail, Sweep, Tick, vars

(* An open invitation of the next state is open now, or new.               *)
LEMMA OpenStep ==
    ASSUME TypeInv, [Next]_vars, OneOpenPerAddress
    PROVE  OneOpenPerAddress'
<1>1. ASSUME NEW i \in Rows, i \in Pending'
      PROVE  i \in Pending /\ invitation'[i].email = invitation[i].email
  <2>1. i \in Pending
    BY <1>1, RowStep DEF RowMoves, Pending
  <2>2. QED BY <2>1, TableStep DEF Table
<1>2. CASE Rows' = Rows
  <2>1. \A i \in Pending' : i \in Rows
    BY <1>2 DEF Pending
  <2>2. QED BY <1>1, <2>1 DEF OneOpenPerAddress
<1>3. ASSUME NEW r \in Requests, NEW k \in Invitations, NEW e \in Emails, Create(r, k, e)
      PROVE  OneOpenPerAddress'
  <2>1. /\ Rows' = Rows \cup {k} /\ k \notin Rows
        /\ \A j \in Pending : invitation[j].email # e
    BY <1>3, SavedStep DEF Create
  <2>2. invitation'[k].email = e
    BY <1>3, NewRow DEF Create, Saved, TypeInv, TypeOK
  <2>3. \A i \in Pending' : i = k \/ i \in Rows
    BY <2>1 DEF Pending
  <2>4. QED BY <1>1, <2>1, <2>2, <2>3 DEF OneOpenPerAddress
<1>4. ASSUME ~\E r \in Requests, k \in Invitations, e \in Emails : Create(r, k, e)
      PROVE  Rows' = Rows
  <2>1. ASSUME UNCHANGED invitation PROVE Rows' = Rows
    BY <2>1 DEF Rows
  <2>2. ASSUME NEW r \in Requests, NEW k \in Invitations, Resend(r, k) PROVE Rows' = Rows
    <3>1. PICK e \in Emails : TRUE
      BY <2>2, AnAddress
    <3>2. Rows' = Rows \cup {k} /\ k \in Rows
      BY <2>2, SavedStep DEF Resend
    <3>3. QED BY <3>2
  <2>3. ASSUME NEW r \in Requests, CommitAccept(r) PROVE Rows' = Rows
    BY <2>3, CommitStep DEF SameTokens
  <2>4. CASE Sweep \/ Tick
    BY <2>4, SweepStep DEF SameTokens
  <2>5. ASSUME NEW r \in Requests, Serve(r) PROVE Rows' = Rows
    BY <1>4, <2>1, <2>2, <2>3, <2>5 DEF Serve, Delay, Abort, BeginAccept
  <2>6. QED
    BY <2>1, <2>4, <2>5 DEF Next, StartMail, SendMail, LoseMail, Elsewhere, vars
<1>5. QED BY <1>2, <1>3, <1>4

(* Whoever has or had a seat accepted an invitation to it.                 *)
THEOREM SeatsComeFromInvitations == Spec => []SeatsAreInvited
<1>1. Init => SeatsAreInvited
  BY DEF Init, SeatsAreInvited
<1>2. TypeInv /\ [Next]_vars /\ SeatsAreInvited => SeatsAreInvited'
  BY SeatsStep
<1>3. QED BY <1>1, <1>2, InitTypeInv, TypeStep, PTL DEF Spec

(* No resend, sweep or acceptance opens a second invitation of an address. *)
THEOREM OneOpenInvitation == Spec => []OneOpenPerAddress
<1>1. Init => OneOpenPerAddress
  BY DEF Init, OneOpenPerAddress, Pending, Rows
<1>2. TypeInv /\ [Next]_vars /\ OneOpenPerAddress => OneOpenPerAddress'
  BY OpenStep
<1>3. QED BY <1>1, <1>2, InitTypeInv, TypeStep, PTL DEF Spec
===============================================================================
