-------------------------- MODULE LeadPipelineProofs --------------------------
(***************************************************************************)
(* Proofs about LeadPipeline, for every number of leads, customers,        *)
(* contacts and workers, and for every past.                               *)
(***************************************************************************)
EXTENDS LeadPipeline, TLAPS

(* What a request remembers is of its type: it names a lead that exists,   *)
(* its stages, and, once it has searched, it is on its way to Won.         *)
RequestOK ==
    \A r \in Requests : req[r].pc # "idle" =>
        /\ req[r].lead \in leadRows
        /\ req[r].op \in {"transition", "resolve"}
        /\ req[r].op = "transition" =>
              /\ req[r].from_stage \in Stages
              /\ req[r].to_stage \in Stages
              /\ req[r].pc # "begun" => req[r].to_stage = "won"
        /\ req[r].op = "resolve" => req[r].customer_id \in Customers

(* A contact row names a customer.                                         *)
ContactOK == \A k \in contactRows : contact[k].customer \in Customers

TypeInv == TypeOK /\ RequestOK /\ ContactOK

USE DEF Stages, OptEmail, OptPhone, OptCustomer

LEMMA RowTypes ==
    ASSUME NEW e \in OptEmail, NEW p \in OptPhone, NEW c \in OptCustomer
    PROVE  /\ NewLead(e, p) \in LeadRow
           /\ NewCustomer(e, p) \in CustomerRow
           /\ NewContact(c, e, p) \in ContactRow
BY StageAssumption DEF NewLead, NewCustomer, NewContact, LeadRow, CustomerRow, ContactRow

(* What the saves of a transition and of a resolution leave in a row.      *)
LEMMA SavedRow ==
    ASSUME NEW r \in Requests, lead[req[r].lead] \in LeadRow,
           req[r].to_stage \in Stages, req[r].lost_reason \in BOOLEAN,
           NEW cust \in OptCustomer, NEW manual \in BOOLEAN
    PROVE  /\ SavedLead(r, cust, manual) \in LeadRow
           /\ SavedLead(r, cust, manual).stage = req[r].to_stage
           /\ SavedLead(r, cust, manual).lost_reason = req[r].lost_reason
           /\ SavedLead(r, cust, manual).customer = cust
           /\ SavedLead(r, cust, manual).requires_manual_customer_selection = manual
BY DEF SavedLead, LeadRow

LEMMA ResolvedRow ==
    ASSUME NEW l \in Leads, lead[l] \in LeadRow, NEW c \in Customers
    PROVE  /\ ResolvedLead(l, c) \in LeadRow
           /\ ResolvedLead(l, c).stage = lead[l].stage
           /\ ResolvedLead(l, c).lost_reason = lead[l].lost_reason
           /\ ResolvedLead(l, c).customer = c
           /\ ~ResolvedLead(l, c).requires_manual_customer_selection
BY DEF ResolvedLead, LeadRow

(* A PATCH, a DELETE or a restore leaves the columns of the pathway alone. *)
LEMMA PatchedLead ==
    ASSUME NEW row \in LeadRow, NEW e \in OptEmail, NEW p \in OptPhone
    PROVE  LET new == WithContactData(row, e, p)
           IN  /\ new \in LeadRow
               /\ new.stage = row.stage /\ new.lost_reason = row.lost_reason
               /\ new.customer = row.customer
               /\ new.requires_manual_customer_selection = row.requires_manual_customer_selection
BY DEF WithContactData, LeadRow

LEMMA DeletedLead ==
    ASSUME NEW row \in LeadRow, NEW new \in {Deleted(row), Restored(row)}
    PROVE  /\ new \in LeadRow
           /\ new.stage = row.stage /\ new.lost_reason = row.lost_reason
           /\ new.customer = row.customer
           /\ new.requires_manual_customer_selection = row.requires_manual_customer_selection
BY DEF Deleted, Restored, LeadRow

LEMMA EditedCustomer ==
    ASSUME NEW row \in CustomerRow, NEW e \in OptEmail, NEW p \in OptPhone
    PROVE  /\ WithContactData(row, e, p) \in CustomerRow
           /\ Deleted(row) \in CustomerRow /\ Restored(row) \in CustomerRow
BY DEF WithContactData, Deleted, Restored, CustomerRow

LEMMA EditedContact ==
    ASSUME NEW row \in ContactRow, NEW e \in OptEmail, NEW p \in OptPhone,
           NEW new \in {WithContactData(row, e, p), Deleted(row), Restored(row)}
    PROVE  new \in ContactRow /\ new.customer = row.customer
BY DEF WithContactData, Deleted, Restored, ContactRow

(* A search step moves the request on and keeps all it read.               *)
LEMMA SearchedRequest ==
    ASSUME NEW r \in Requests, req[r] \in Request,
           NEW pc \in {"scanning", "scanned"}, NEW ids \in SUBSET Customers
    PROVE  /\ Searched(r, pc, ids) \in Request
           /\ Searched(r, pc, ids).pc = pc
           /\ Searched(r, pc, ids).op = req[r].op
           /\ Searched(r, pc, ids).lead = req[r].lead
           /\ Searched(r, pc, ids).from_stage = req[r].from_stage
           /\ Searched(r, pc, ids).to_stage = req[r].to_stage
           /\ Searched(r, pc, ids).lost_reason = req[r].lost_reason
           /\ Searched(r, pc, ids).customer_id = req[r].customer_id
           /\ Searched(r, pc, ids).matched_ids = ids
BY DEF Searched, Request

LEMMA IdleType == Idle \in Request
BY DEF Idle, Request

LEMMA InitTypeInv == Init => TypeInv
<1> SUFFICES ASSUME Init PROVE TypeInv
  OBVIOUS
<1> USE DEF Init
<1>1. lead \in [Leads -> LeadRow]
  <2>1. ASSUME NEW l \in Leads PROVE PastLead(l) \in LeadRow
    BY PastAssumption, StageAssumption DEF PastLead, NewLead, LeadRow, CustomerRow
  <2>2. QED BY <2>1
<1>2. customer \in [Customers -> CustomerRow] /\ customerRows \subseteq Customers
  BY PastAssumption
<1>3. contact \in [Contacts -> ContactRow]
  BY RowTypes
<1>4. links \subseteq Customers \X Leads
  BY PastAssumption
<1>5. history \in [Leads -> Seq(HistoryRow)]
  <2> DEFINE a == [from_stage |-> Null, to_stage |-> "new"]
             b == [from_stage |-> "new", to_stage |-> "won"]
  <2>1. a \in HistoryRow /\ b \in HistoryRow
    BY StageAssumption DEF HistoryRow
  <2> HIDE DEF a, b
  <2>2. <<>> \in Seq(HistoryRow) /\ <<a, b>> \in Seq(HistoryRow)
    BY <2>1
  <2>3. QED
    BY <2>2 DEF a, b
<1>6. req \in [Requests -> Request]
  BY IdleType
<1>7. QED
  BY <1>1, <1>2, <1>3, <1>4, <1>5, <1>6 DEF TypeInv, TypeOK, RequestOK, ContactOK, Idle

-------------------------------------------------------------------------------
(* Which tables each kind of step leaves alone.                            *)

(* Steps that only move a request along: nothing is written.               *)
ReadOnly(r) ==
    \/ \E l \in Leads, to \in Stages, reason \in BOOLEAN : BeginTransition(r, l, to, reason)
    \/ \E l \in Leads, c \in Customers : BeginResolve(r, l, c)
    \/ ScanCustomers(r) \/ ScanContacts(r) \/ Reject(r) \/ Crash(r)

(* Steps that commit a transaction of a request.                           *)
Commit(r) ==
    \/ CommitStage(r)
    \/ \E c \in Customers : WinNewCustomer(r, c) \/ WinExistingCustomer(r, c)
    \/ WinManual(r)
    \/ CommitResolve(r)

(* PATCH, DELETE and restore of one lead.                                  *)
LeadEdit ==
    \E l \in Leads :
       \/ \E e \in OptEmail, p \in OptPhone : PatchLead(l, e, p)
       \/ DeleteLead(l) \/ RestoreLead(l)

LEMMA NextCases ==
    ASSUME [Next]_vars
    PROVE  \/ \E r \in Requests : ReadOnly(r) \/ Commit(r)
           \/ \E l \in Leads, e \in OptEmail, p \in OptPhone : CreateLead(l, e, p)
           \/ LeadEdit
           \/ \E c \in Customers : EditCustomer(c)
           \/ \E k \in Contacts : EditContact(k)
           \/ UNCHANGED vars
BY DEF Next, Begin, Step, EditLead, ReadOnly, Commit, LeadEdit

LEMMA ReadOnlyFrame ==
    ASSUME NEW r \in Requests, ReadOnly(r)
    PROVE  UNCHANGED <<leadRows, lead, customerRows, customer, contactRows, contact,
                       links, history, notifications>>
BY DEF ReadOnly, BeginTransition, BeginResolve, ScanCustomers, ScanContacts, Reject, Crash

-------------------------------------------------------------------------------
(* Types                                                                   *)

LEMMA FinishType ==
    ASSUME TypeInv, NEW r \in Requests, Finish(r)
    PROVE  req' \in [Requests -> Request]
BY IdleType DEF TypeInv, TypeOK, Finish

LEMMA TransitionedType ==
    ASSUME TypeInv, NEW r \in Requests, req[r].pc # "idle", req[r].op = "transition",
           NEW cust \in OptCustomer, NEW manual \in BOOLEAN,
           Transitioned(r, cust, manual)
    PROVE  /\ lead' \in [Leads -> LeadRow]
           /\ history' \in [Leads -> Seq(HistoryRow)]
           /\ notifications' \in [Leads -> Nat]
           /\ req' \in [Requests -> Request]
<1> DEFINE l == req[r].lead
<1>1. /\ l \in Leads
      /\ req[r].to_stage \in Stages /\ req[r].from_stage \in Stages
      /\ req[r].lost_reason \in BOOLEAN
  BY DEF TypeInv, TypeOK, RequestOK, Request
<1>2. lead' \in [Leads -> LeadRow]
  <2>1. SavedLead(r, cust, manual) \in LeadRow
    BY <1>1, SavedRow DEF TypeInv, TypeOK
  <2>2. QED
    BY <1>1, <2>1 DEF Transitioned, TypeInv, TypeOK
<1>3. StageRow(r) \in HistoryRow
  BY <1>1 DEF StageRow, HistoryRow
<1>4. history' \in [Leads -> Seq(HistoryRow)]
  <2>1. Append(history[l], StageRow(r)) \in Seq(HistoryRow)
    BY <1>1, <1>3 DEF TypeInv, TypeOK
  <2>2. QED
    BY <1>1, <2>1 DEF Transitioned, TypeInv, TypeOK
<1>5. notifications' \in [Leads -> Nat]
  BY <1>1 DEF Transitioned, TypeInv, TypeOK
<1>6. QED
  BY <1>2, <1>4, <1>5, FinishType DEF Transitioned

(* A request that ends, while leads stay, leaves the others as they were.  *)
LEMMA FinishRequestOK ==
    ASSUME TypeInv, NEW r \in Requests, Finish(r), leadRows \subseteq leadRows'
    PROVE  RequestOK'
BY DEF TypeInv, TypeOK, RequestOK, Finish, Idle

LEMMA CommitTypeInv ==
    ASSUME TypeInv, NEW r \in Requests, Commit(r)
    PROVE  TypeInv'
<1> USE DEF TypeInv
<1>1. CASE CommitStage(r)
  <2>1. lead[req[r].lead].customer \in OptCustomer
        /\ lead[req[r].lead].requires_manual_customer_selection \in BOOLEAN
    BY <1>1 DEF CommitStage, TypeOK, RequestOK, LeadRow
  <2>2. QED
    BY <1>1, <2>1, TransitionedType, FinishRequestOK DEF CommitStage, TypeOK, Transitioned, ContactOK
<1>2. ASSUME NEW c \in Customers, WinNewCustomer(r, c) PROVE TypeInv'
  <2>1. req[r].lead \in Leads /\ req[r].email \in OptEmail /\ req[r].phone \in OptPhone
    BY <1>2 DEF WinNewCustomer, TypeOK, RequestOK, Request
  <2>2. customer' \in [Customers -> CustomerRow]
    BY <1>2, <2>1, RowTypes DEF WinNewCustomer, TypeOK
  <2>3. links' \subseteq Customers \X Leads
    BY <1>2, <2>1 DEF WinNewCustomer, InsertLink, TypeOK
  <2>4. QED
    BY <1>2, <2>2, <2>3, TransitionedType, FinishRequestOK
    DEF WinNewCustomer, TypeOK, Transitioned, ContactOK
<1>3. ASSUME NEW c \in Customers, WinExistingCustomer(r, c) PROVE TypeInv'
  <2>1. links' \subseteq Customers \X Leads
    BY <1>3 DEF WinExistingCustomer, InsertLink, TypeOK, RequestOK
  <2>2. QED
    BY <1>3, <2>1, TransitionedType, FinishRequestOK
    DEF WinExistingCustomer, TypeOK, Transitioned, ContactOK
<1>4. CASE WinManual(r)
  <2>1. lead[req[r].lead].customer \in OptCustomer
    BY <1>4 DEF WinManual, TypeOK, RequestOK, LeadRow
  <2>2. QED
    BY <1>4, <2>1, TransitionedType, FinishRequestOK DEF WinManual, TypeOK, Transitioned, ContactOK
<1>5. CASE CommitResolve(r)
  <2>1. req[r].lead \in Leads /\ req[r].customer_id \in Customers
    BY <1>5 DEF CommitResolve, TypeOK, RequestOK
  <2>2. lead' \in [Leads -> LeadRow]
    <3>1. ResolvedLead(req[r].lead, req[r].customer_id) \in LeadRow
      BY <2>1, ResolvedRow DEF TypeOK
    <3>2. QED
      BY <1>5, <2>1, <3>1 DEF CommitResolve, TypeOK
  <2>3. links' \subseteq Customers \X Leads
    BY <1>5, <2>1 DEF CommitResolve, InsertLink, TypeOK
  <2>4. QED
    BY <1>5, <2>2, <2>3, FinishType, FinishRequestOK DEF CommitResolve, TypeOK, ContactOK
<1>6. QED
  BY <1>1, <1>2, <1>3, <1>4, <1>5 DEF Commit

LEMMA ReadOnlyTypeInv ==
    ASSUME TypeInv, NEW r \in Requests, ReadOnly(r)
    PROVE  TypeInv'
<1> USE DEF TypeInv
<1>1. UNCHANGED <<leadRows, lead, customerRows, customer, contactRows, contact,
                  links, history, notifications>>
  BY ReadOnlyFrame
<1>2. ASSUME NEW l \in Leads, NEW to \in Stages, NEW reason \in BOOLEAN,
             BeginTransition(r, l, to, reason)
      PROVE  TypeInv'
  <2> DEFINE q == TransitionRequest(l, to, reason)
  <2>1. /\ lead[l].stage \in Stages
        /\ lead[l].email \in OptEmail /\ lead[l].phone \in OptPhone
        /\ NextReason(l, to, reason) \in BOOLEAN
    BY DEF TypeOK, LeadRow, NextReason
  <2>2. q \in Request
    BY <2>1 DEF TransitionRequest, Request
  <2>3. /\ q.pc = "begun" /\ q.lead = l /\ q.op = "transition"
        /\ q.from_stage \in Stages /\ q.to_stage \in Stages
    BY <2>1 DEF TransitionRequest
  <2>4. req' = [req EXCEPT ![r] = q] /\ l \in leadRows /\ edits' = edits /\ begun' = begun + 1
    BY <1>2 DEF BeginTransition, Start, ActiveLeads
  <2> HIDE DEF q
  <2>5. QED
    BY <1>1, <2>2, <2>3, <2>4 DEF TypeOK, RequestOK, ContactOK
<1>3. ASSUME NEW l \in Leads, NEW c \in Customers, BeginResolve(r, l, c)
      PROVE  TypeInv'
  <2> DEFINE q == ResolveRequest(l, c)
  <2>1. lead[l].email \in OptEmail /\ lead[l].phone \in OptPhone
    BY DEF TypeOK, LeadRow
  <2>2. q \in Request
    BY <2>1 DEF ResolveRequest, Request
  <2>3. q.pc = "begun" /\ q.lead = l /\ q.op = "resolve" /\ q.customer_id = c
    BY DEF ResolveRequest
  <2>4. req' = [req EXCEPT ![r] = q] /\ l \in leadRows /\ edits' = edits /\ begun' = begun + 1
    BY <1>3 DEF BeginResolve, Start, ActiveLeads
  <2> HIDE DEF q
  <2>5. QED
    BY <1>1, <2>2, <2>3, <2>4 DEF TypeOK, RequestOK, ContactOK
<1>4. CASE ScanCustomers(r)
  <2> DEFINE q == Searched(r, "scanning", CustomerMatches(r))
  <2>1. CustomerMatches(r) \in SUBSET Customers
    BY DEF CustomerMatches, ActiveCustomers, TypeOK
  <2>2. /\ q \in Request /\ q.pc = "scanning" /\ q.op = req[r].op /\ q.lead = req[r].lead
        /\ q.from_stage = req[r].from_stage /\ q.to_stage = req[r].to_stage
        /\ q.customer_id = req[r].customer_id
    BY <2>1, SearchedRequest DEF TypeOK
  <2>3. /\ req' = [req EXCEPT ![r] = q] /\ UNCHANGED <<begun, edits>>
        /\ req[r].pc = "begun" /\ (req[r].op = "resolve" \/ req[r].to_stage = "won")
    BY <1>4 DEF ScanCustomers
  <2> HIDE DEF q
  <2>4. RequestOK'
    BY <1>1, <2>2, <2>3 DEF RequestOK, TypeOK
  <2>5. QED
    BY <1>1, <2>2, <2>3, <2>4 DEF TypeOK, ContactOK
<1>5. CASE ScanContacts(r)
  <2> DEFINE q == Searched(r, "scanned", req[r].matched_ids \cup ContactMatches(r))
  <2>1. ContactMatches(r) \in SUBSET Customers
    BY DEF ContactMatches, ActiveContacts, ContactOK
  <2>2. req[r].matched_ids \in SUBSET Customers
    BY DEF TypeOK, Request
  <2>3. /\ q \in Request /\ q.pc = "scanned" /\ q.op = req[r].op /\ q.lead = req[r].lead
        /\ q.from_stage = req[r].from_stage /\ q.to_stage = req[r].to_stage
        /\ q.customer_id = req[r].customer_id
    BY <2>1, <2>2, SearchedRequest DEF TypeOK
  <2>4. /\ req' = [req EXCEPT ![r] = q] /\ UNCHANGED <<begun, edits>>
        /\ req[r].pc = "scanning"
    BY <1>5 DEF ScanContacts
  <2> HIDE DEF q
  <2>5. RequestOK'
    BY <1>1, <2>3, <2>4 DEF RequestOK, TypeOK
  <2>6. QED
    BY <1>1, <2>3, <2>4, <2>5 DEF TypeOK, ContactOK
<1>6. CASE Reject(r) \/ Crash(r)
  BY <1>1, <1>6, FinishType, FinishRequestOK DEF Reject, Crash, TypeOK, ContactOK
<1>7. QED
  BY <1>2, <1>3, <1>4, <1>5, <1>6 DEF ReadOnly

LEMMA EditTypeInv ==
    ASSUME TypeInv, LeadEdit \/ (\E c \in Customers : EditCustomer(c)) \/ (\E k \in Contacts : EditContact(k))
    PROVE  TypeInv'
<1> USE DEF TypeInv, Edit
<1>1. ASSUME NEW l \in Leads, NEW e \in OptEmail, NEW p \in OptPhone, PatchLead(l, e, p)
      PROVE  TypeInv'
  <2>1. WithContactData(lead[l], e, p) \in LeadRow
    BY PatchedLead DEF TypeOK
  <2>2. QED
    BY <1>1, <2>1 DEF PatchLead, TypeOK, RequestOK, ContactOK
<1>2. ASSUME NEW l \in Leads, DeleteLead(l) \/ RestoreLead(l)
      PROVE  TypeInv'
  <2>1. lead[l] \in LeadRow
    BY DEF TypeOK
  <2>2. \A new \in {Deleted(lead[l]), Restored(lead[l])} : new \in LeadRow
    BY <2>1, DeletedLead
  <2>3. PICK new \in LeadRow : lead' = [lead EXCEPT ![l] = new]
    BY <1>2, <2>2 DEF DeleteLead, RestoreLead
  <2>4. QED
    BY <1>2, <2>3 DEF DeleteLead, RestoreLead, TypeOK, RequestOK, ContactOK
<1>3. ASSUME NEW c \in Customers, EditCustomer(c)
      PROVE  TypeInv'
  <2>1. PICK row \in CustomerRow : customer' = [customer EXCEPT ![c] = row]
    BY <1>3, EditedCustomer
    DEF EditCustomer, PatchCustomer, DeleteCustomer, RestoreCustomer, TypeOK
  <2>2. QED
    BY <1>3, <2>1 DEF EditCustomer, TypeOK, RequestOK, ContactOK
<1>4. ASSUME NEW k \in Contacts, EditContact(k)
      PROVE  TypeInv'
  <2>1. ASSUME NEW c \in Customers, NEW e \in OptEmail, NEW p \in OptPhone, CreateContact(k, c, e, p)
        PROVE  contact' \in [Contacts -> ContactRow] /\ contactRows' \subseteq Contacts /\ ContactOK'
    BY <2>1, RowTypes DEF CreateContact, NewContact, TypeOK, ContactRow, ContactOK
  <2>2. ASSUME NEW row \in ContactRow, row.customer = contact[k].customer, UNCHANGED contactRows,
               contact' = [contact EXCEPT ![k] = row]
        PROVE  contact' \in [Contacts -> ContactRow] /\ contactRows' \subseteq Contacts /\ ContactOK'
    BY <2>2 DEF TypeOK, ContactOK
  <2>3. ASSUME NEW e \in OptEmail, NEW p \in OptPhone,
               PatchContact(k, e, p) \/ RemoveContact(k) \/ RestoreContact(k)
        PROVE  contact' \in [Contacts -> ContactRow] /\ contactRows' \subseteq Contacts /\ ContactOK'
    <3> DEFINE P == WithContactData(contact[k], e, p)
               D == Deleted(contact[k])
               R == Restored(contact[k])
    <3>1. contact[k] \in ContactRow
      BY DEF TypeOK
    <3>2. \A new \in {P, D, R} : new \in ContactRow /\ new.customer = contact[k].customer
      BY <3>1, EditedContact
    <3>3. UNCHANGED contactRows /\ \E new \in {P, D, R} : contact' = [contact EXCEPT ![k] = new]
      BY <2>3 DEF PatchContact, RemoveContact, RestoreContact
    <3> HIDE DEF P, D, R
    <3>4. QED
      BY <2>2, <3>2, <3>3
  <2>4. contact' \in [Contacts -> ContactRow] /\ contactRows' \subseteq Contacts /\ ContactOK'
    BY <1>4, <2>1, <2>3 DEF EditContact
  <2>5. QED
    BY <1>4, <2>4 DEF EditContact, TypeOK, RequestOK
<1>5. QED
  BY <1>1, <1>2, <1>3, <1>4 DEF LeadEdit

LEMMA CreateTypeInv ==
    ASSUME TypeInv, NEW l \in Leads, NEW e \in OptEmail, NEW p \in OptPhone, CreateLead(l, e, p)
    PROVE  TypeInv'
<1>1. lead' \in [Leads -> LeadRow]
  BY RowTypes DEF CreateLead, TypeInv, TypeOK
<1>2. history' \in [Leads -> Seq(HistoryRow)]
  <2> DEFINE a == [from_stage |-> Null, to_stage |-> "new"]
  <2>1. a \in HistoryRow
    BY StageAssumption DEF HistoryRow
  <2>2. history' = [history EXCEPT ![l] = <<a>>]
    BY DEF CreateLead
  <2> HIDE DEF a
  <2>3. <<a>> \in Seq(HistoryRow)
    BY <2>1
  <2>4. QED
    BY <2>2, <2>3 DEF TypeInv, TypeOK
<1>3. QED
  BY <1>1, <1>2 DEF CreateLead, TypeInv, TypeOK, RequestOK, ContactOK

LEMMA TypeInvariant == Spec => []TypeInv
<1>1. TypeInv /\ [Next]_vars => TypeInv'
  <2> SUFFICES ASSUME TypeInv, [Next]_vars PROVE TypeInv'
    OBVIOUS
  <2>1. CASE UNCHANGED vars
    BY <2>1 DEF TypeInv, TypeOK, RequestOK, ContactOK, vars
  <2>2. ASSUME NEW r \in Requests, ReadOnly(r) \/ Commit(r) PROVE TypeInv'
    BY <2>2, ReadOnlyTypeInv, CommitTypeInv
  <2>3. ASSUME NEW l \in Leads, NEW e \in OptEmail, NEW p \in OptPhone, CreateLead(l, e, p)
        PROVE  TypeInv'
    BY <2>3, CreateTypeInv
  <2>4. CASE LeadEdit \/ (\E c \in Customers : EditCustomer(c)) \/ (\E k \in Contacts : EditContact(k))
    BY <2>4, EditTypeInv
  <2>5. QED
    BY <2>1, <2>2, <2>3, <2>4, NextCases
<1>2. QED
  BY <1>1, InitTypeInv, PTL DEF Spec

(* Every reachable state is well typed.                                    *)
THEOREM TypeCorrect == Spec => []TypeOK
<1>1. TypeInv => TypeOK
  BY DEF TypeInv
<1>2. QED BY <1>1, TypeInvariant, PTL

-------------------------------------------------------------------------------
(* The inductive invariant                                                 *)

(* A row that is not there yet has nothing attached to it.                 *)
UnusedOK ==
    \A l \in Leads \ leadRows :
        lead[l].customer = Null /\ ~lead[l].requires_manual_customer_selection /\ history[l] = <<>>

(* The copy a transition carries has a reason exactly when it goes to      *)
(* Lost, and a resolution is only ever begun on a lead that was won.       *)
CopyOK ==
    \A r \in Requests : req[r].pc # "idle" =>
        /\ req[r].op = "transition" => (req[r].lost_reason <=> req[r].to_stage = "lost")
        /\ req[r].op = "resolve" => WonRow(history[req[r].lead])

(* The outcome of a winning is recorded three times: column, link, history. *)
OutcomeInv ==
    /\ TypeInv /\ UnusedOK /\ CopyOK
    /\ LinkAgreesWithLead /\ NoOrphanCustomer /\ WonHasOutcome
    /\ ReasonIffLost /\ HistoryEndsAtStage

LEMMA InitOutcomeInv == Init => OutcomeInv
<1> SUFFICES ASSUME Init PROVE OutcomeInv
  OBVIOUS
<1>1. TypeInv
  BY InitTypeInv
<1>2. ASSUME NEW l \in Leads
      PROVE  /\ lead[l].customer = Past[l] /\ ~lead[l].requires_manual_customer_selection
             /\ ~lead[l].lost_reason
             /\ Past[l] # Null => Past[l] \in Customers /\ lead[l].stage = "won"
  BY PastAssumption, StageAssumption DEF Init, PastLead, NewLead
<1>3. ASSUME NEW l \in Leads
      PROVE  /\ Past[l] = Null => history[l] = <<>> /\ ~WonRow(history[l])
             /\ Past[l] # Null => /\ Len(history[l]) = 2 /\ history[l][2].to_stage = "won"
                                  /\ WonRow(history[l]) /\ history[l] # <<>> /\ notifications[l] = 2
  <2>1. CASE Past[l] = Null
    BY <2>1 DEF Init, WonRow
  <2>2. CASE Past[l] # Null
    <3>1. history[l] = <<[from_stage |-> Null, to_stage |-> "new"],
                         [from_stage |-> "new", to_stage |-> "won"]>>
      BY <2>2 DEF Init
    <3>2. Len(history[l]) = 2 /\ history[l][2].to_stage = "won" /\ history[l] # <<>>
      BY <3>1
    <3>3. QED
      BY <2>2, <3>2 DEF WonRow, Init
  <2>3. QED
    BY <2>1, <2>2
<1>4. \A l \in Leads : l \in leadRows <=> Past[l] # Null
  BY DEF Init
<1>5. UnusedOK /\ CopyOK
  BY <1>2, <1>3, <1>4 DEF UnusedOK, CopyOK, Init, Idle
<1>6. LinkAgreesWithLead
  BY <1>2, PastAssumption, NullAssumption DEF LinkAgreesWithLead, Init
<1>7. NoOrphanCustomer
  BY DEF NoOrphanCustomer, Init
<1>8. WonHasOutcome
  BY <1>2, <1>3, NullAssumption DEF WonHasOutcome
<1>9. ReasonIffLost
  <2> SUFFICES ASSUME NEW l \in Leads PROVE lead[l].stage # "lost"
    BY <1>2 DEF ReasonIffLost
  <2>1. CASE Past[l] # Null
    BY <2>1, <1>2
  <2>2. CASE Past[l] = Null
    BY <2>2, StageAssumption DEF Init, PastLead, NewLead
  <2>3. QED
    BY <2>1, <2>2
<1>10. HistoryEndsAtStage
  BY <1>2, <1>3, <1>4, <1>1 DEF HistoryEndsAtStage, TypeInv, TypeOK
<1>11. QED
  BY <1>1, <1>5, <1>6, <1>7, <1>8, <1>9, <1>10 DEF OutcomeInv

(* A step that changes none of the columns of the pathway.                 *)
LEMMA SameOutcome ==
    ASSUME OutcomeInv, TypeInv', CopyOK',
           UNCHANGED <<leadRows, customerRows, links, history, notifications>>,
           \A l \in Leads :
              /\ lead'[l].stage = lead[l].stage /\ lead'[l].lost_reason = lead[l].lost_reason
              /\ lead'[l].customer = lead[l].customer
              /\ lead'[l].requires_manual_customer_selection
                    = lead[l].requires_manual_customer_selection
    PROVE  OutcomeInv'
<1> USE DEF OutcomeInv
<1>1. UnusedOK'
  BY DEF UnusedOK
<1>2. LinkAgreesWithLead' /\ NoOrphanCustomer'
  BY DEF LinkAgreesWithLead, NoOrphanCustomer
<1>3. WonHasOutcome'
  BY DEF WonHasOutcome, WonRow
<1>4. ReasonIffLost'
  BY DEF ReasonIffLost
<1>5. HistoryEndsAtStage'
  BY DEF HistoryEndsAtStage, TypeInv, TypeOK
<1>6. QED
  BY <1>1, <1>2, <1>3, <1>4, <1>5

LEMMA ReadOnlyOutcome ==
    ASSUME OutcomeInv, NEW r \in Requests, ReadOnly(r)
    PROVE  OutcomeInv'
<1> USE DEF OutcomeInv
<1>1. UNCHANGED <<leadRows, lead, customerRows, customer, contactRows, contact,
                  links, history, notifications>>
  BY ReadOnlyFrame
<1>2. TypeInv'
  BY ReadOnlyTypeInv
<1>3. SUFFICES CopyOK'
  BY <1>1, <1>2, SameOutcome
<1>4. ASSUME \A q \in Requests \ {r} : req'[q] = req[q],
             req'[r].pc # "idle" =>
               /\ req'[r].op = "transition" => (req'[r].lost_reason <=> req'[r].to_stage = "lost")
               /\ req'[r].op = "resolve" => req'[r].lead \in Leads /\ WonRow(history[req'[r].lead])
      PROVE  CopyOK'
  BY <1>1, <1>4 DEF CopyOK, WonRow
<1>5. CASE \E l \in Leads, to \in Stages, reason \in BOOLEAN : BeginTransition(r, l, to, reason)
  <2>1. PICK l \in Leads, to \in Stages, reason \in BOOLEAN : BeginTransition(r, l, to, reason)
    BY <1>5
  <2>2. NextReason(l, to, reason) <=> to = "lost"
    BY <2>1 DEF BeginTransition, NextReason, ReasonIffLost
  <2> DEFINE q == TransitionRequest(l, to, reason)
  <2>3. q.op = "transition" /\ (q.lost_reason <=> q.to_stage = "lost")
    BY <2>2 DEF TransitionRequest
  <2>4. req' = [req EXCEPT ![r] = q]
    BY <2>1 DEF BeginTransition
  <2> HIDE DEF q
  <2>5. req'[r] = q /\ \A x \in Requests \ {r} : req'[x] = req[x]
    BY <2>4 DEF TypeInv, TypeOK
  <2>6. QED
    BY <1>4, <2>3, <2>5
<1>6. CASE \E l \in Leads, c \in Customers : BeginResolve(r, l, c)
  <2>1. PICK l \in Leads, c \in Customers : BeginResolve(r, l, c)
    BY <1>6
  <2>2. WonRow(history[l])
    BY <2>1 DEF BeginResolve, WonHasOutcome
  <2> DEFINE q == ResolveRequest(l, c)
  <2>3. q.op = "resolve" /\ q.lead = l
    BY DEF ResolveRequest
  <2>4. req' = [req EXCEPT ![r] = q]
    BY <2>1 DEF BeginResolve
  <2> HIDE DEF q
  <2>5. req'[r] = q /\ \A x \in Requests \ {r} : req'[x] = req[x]
    BY <2>4 DEF TypeInv, TypeOK
  <2>6. QED
    BY <1>4, <2>2, <2>3, <2>5
<1>7. CASE ScanCustomers(r) \/ ScanContacts(r)
  <2>1. /\ CustomerMatches(r) \in SUBSET Customers
        /\ req[r].matched_ids \cup ContactMatches(r) \in SUBSET Customers
    BY DEF CustomerMatches, ActiveCustomers, ContactMatches, ActiveContacts, ContactOK,
           TypeInv, TypeOK, Request
  <2>2. PICK pc \in {"scanning", "scanned"}, ids \in SUBSET Customers :
           req' = [req EXCEPT ![r] = Searched(r, pc, ids)]
    BY <1>7, <2>1 DEF ScanCustomers, ScanContacts
  <2>3. /\ req[r].pc # "idle" /\ req[r].lead \in Leads
    BY <1>7 DEF ScanCustomers, ScanContacts, TypeInv, TypeOK, RequestOK
  <2> DEFINE q == Searched(r, pc, ids)
  <2>4. req[r] \in Request
    BY DEF TypeInv, TypeOK
  <2>5. /\ q.op = req[r].op /\ q.lead = req[r].lead
        /\ q.lost_reason = req[r].lost_reason /\ q.to_stage = req[r].to_stage
    BY <2>4, SearchedRequest
  <2> HIDE DEF q
  <2>6. /\ q.op = "transition" => (q.lost_reason <=> q.to_stage = "lost")
        /\ q.op = "resolve" => q.lead \in Leads /\ WonRow(history[q.lead])
    BY <2>3, <2>5 DEF CopyOK
  <2>7. req'[r] = q /\ \A x \in Requests \ {r} : req'[x] = req[x]
    BY <2>2 DEF TypeInv, TypeOK, q
  <2>8. QED
    BY <1>4, <2>6, <2>7
<1>8. CASE Reject(r) \/ Crash(r)
  <2>1. req' = [req EXCEPT ![r] = Idle] /\ Idle.pc = "idle"
    BY <1>8 DEF Reject, Crash, Finish, Idle
  <2>2. req'[r] = Idle /\ \A x \in Requests \ {r} : req'[x] = req[x]
    BY <2>1 DEF TypeInv, TypeOK
  <2>3. QED
    BY <1>4, <2>1, <2>2
<1>9. QED
  BY <1>5, <1>6, <1>7, <1>8 DEF ReadOnly

LEMMA EditColumns ==
    ASSUME TypeInv, NEW l \in Leads,
           LeadEdit \/ (\E c \in Customers : EditCustomer(c)) \/ (\E k \in Contacts : EditContact(k))
    PROVE  /\ UNCHANGED <<leadRows, links, history, notifications, req, customerRows>>
           /\ lead'[l].stage = lead[l].stage /\ lead'[l].lost_reason = lead[l].lost_reason
           /\ lead'[l].customer = lead[l].customer
           /\ lead'[l].requires_manual_customer_selection
                 = lead[l].requires_manual_customer_selection
<1>1. UNCHANGED <<leadRows, links, history, notifications, req, customerRows>>
  BY DEF LeadEdit, PatchLead, DeleteLead, RestoreLead, EditCustomer, EditContact
<1>2. lead \in [Leads -> LeadRow] /\ lead[l] \in LeadRow
  BY DEF TypeInv, TypeOK
<1>3. CASE LeadEdit
  <2>1. PICK m \in Leads :
           \/ \E e \in OptEmail, p \in OptPhone : PatchLead(m, e, p)
           \/ DeleteLead(m) \/ RestoreLead(m)
    BY <1>3 DEF LeadEdit
  <2>2. CASE l # m
    BY <1>1, <1>2, <2>1, <2>2 DEF PatchLead, DeleteLead, RestoreLead
  <2>3. ASSUME l = m, NEW e \in OptEmail, NEW p \in OptPhone, PatchLead(m, e, p)
        PROVE  lead'[l] = WithContactData(lead[l], e, p)
    BY <1>2, <2>3 DEF PatchLead
  <2>4. ASSUME l = m, DeleteLead(m) \/ RestoreLead(m)
        PROVE  lead'[l] \in {Deleted(lead[l]), Restored(lead[l])}
    BY <1>2, <2>4 DEF DeleteLead, RestoreLead
  <2>5. QED
    BY <1>1, <1>2, <2>1, <2>2, <2>3, <2>4, PatchedLead, DeletedLead
<1>4. CASE ~LeadEdit
  BY <1>1, <1>4 DEF EditCustomer, EditContact
<1>5. QED
  BY <1>3, <1>4

LEMMA EditOutcome ==
    ASSUME OutcomeInv, LeadEdit \/ (\E c \in Customers : EditCustomer(c)) \/ (\E k \in Contacts : EditContact(k))
    PROVE  OutcomeInv'
<1>1. TypeInv /\ TypeInv'
  BY EditTypeInv DEF OutcomeInv
<1>2. UNCHANGED <<leadRows, links, history, notifications, req, customerRows>>
  BY DEF LeadEdit, PatchLead, DeleteLead, RestoreLead, EditCustomer, EditContact
<1>3. CopyOK'
  BY <1>2 DEF OutcomeInv, CopyOK, WonRow
<1>4. QED
  BY <1>1, <1>2, <1>3, EditColumns, SameOutcome

(* What a committed transition leaves in the tables, lead by lead.         *)
LEMMA TransitionedEffect ==
    ASSUME TypeInv, NEW r \in Requests, req[r].pc # "idle", req[r].op = "transition",
           NEW cust \in OptCustomer, NEW manual \in BOOLEAN,
           Transitioned(r, cust, manual)
    PROVE  LET l == req[r].lead IN
           /\ l \in leadRows /\ l \in Leads
           /\ lead'[l].stage = req[r].to_stage
           /\ lead'[l].lost_reason = req[r].lost_reason
           /\ lead'[l].customer = cust
           /\ lead'[l].requires_manual_customer_selection = manual
           /\ history'[l] = Append(history[l], StageRow(r))
           /\ notifications'[l] = notifications[l] + 1
           /\ \A m \in Leads \ {l} : /\ lead'[m] = lead[m] /\ history'[m] = history[m]
                                     /\ notifications'[m] = notifications[m]
<1> DEFINE l == req[r].lead
<1>1. /\ l \in Leads /\ l \in leadRows
      /\ req[r].to_stage \in Stages /\ req[r].lost_reason \in BOOLEAN
      /\ lead[l] \in LeadRow
  BY DEF TypeInv, TypeOK, RequestOK, Request
<1>2. lead' = [lead EXCEPT ![l] = SavedLead(r, cust, manual)]
  BY DEF Transitioned
<1>3. lead'[l] = SavedLead(r, cust, manual) /\ \A m \in Leads \ {l} : lead'[m] = lead[m]
  BY <1>1, <1>2 DEF TypeInv, TypeOK
<1>4. /\ history'[l] = Append(history[l], StageRow(r))
      /\ \A m \in Leads \ {l} : history'[m] = history[m]
  BY <1>1 DEF Transitioned, TypeInv, TypeOK
<1>5. /\ notifications'[l] = notifications[l] + 1
      /\ \A m \in Leads \ {l} : notifications'[m] = notifications[m]
  BY <1>1 DEF Transitioned, TypeInv, TypeOK
<1>6. QED
  BY <1>1, <1>3, <1>4, <1>5, SavedRow

(* A history that grows by one row: its end, and whether it names Won.     *)
LEMMA Appended ==
    ASSUME NEW l \in Leads, NEW row \in HistoryRow, history[l] \in Seq(HistoryRow),
           history'[l] = Append(history[l], row)
    PROVE  /\ history'[l] # <<>> /\ Len(history'[l]) = Len(history[l]) + 1
           /\ history'[l][Len(history'[l])] = row
           /\ WonRow(history'[l]) <=> WonRow(history[l]) \/ row.to_stage = "won"
<1> DEFINE n == Len(history[l])
<1>1. /\ n \in Nat /\ Len(history'[l]) = n + 1 /\ history'[l][n + 1] = row
      /\ \A i \in 1..n : history'[l][i] = history[l][i]
  OBVIOUS
<1>2. history'[l] # <<>>
  BY <1>1
<1>3. WonRow(history'[l]) <=> \E i \in 1..(n + 1) : history'[l][i].to_stage = "won"
  BY <1>1 DEF WonRow
<1>4. QED
  BY <1>1, <1>2, <1>3 DEF WonRow

(* The part of the invariant that a committed transition keeps by itself:  *)
(* it ends with an outcome exactly when Won is in its history by then.     *)
LEMMA TransitionOutcome ==
    ASSUME OutcomeInv, NEW r \in Requests, req[r].pc # "idle", req[r].op = "transition",
           NEW cust \in OptCustomer, NEW manual \in BOOLEAN,
           Transitioned(r, cust, manual), UNCHANGED leadRows,
           WonRow(history[req[r].lead]) \/ req[r].to_stage = "won" <=> cust # Null \/ manual
    PROVE  UnusedOK' /\ CopyOK' /\ WonHasOutcome' /\ ReasonIffLost' /\ HistoryEndsAtStage'
<1> DEFINE l == req[r].lead
<1>1. TypeInv
  BY DEF OutcomeInv
<1>2. /\ l \in leadRows /\ l \in Leads
      /\ lead'[l].stage = req[r].to_stage
      /\ lead'[l].lost_reason = req[r].lost_reason
      /\ lead'[l].customer = cust
      /\ lead'[l].requires_manual_customer_selection = manual
      /\ history'[l] = Append(history[l], StageRow(r))
      /\ notifications'[l] = notifications[l] + 1
      /\ \A m \in Leads \ {l} : /\ lead'[m] = lead[m] /\ history'[m] = history[m]
                                /\ notifications'[m] = notifications[m]
  BY <1>1, TransitionedEffect
<1>3. StageRow(r) \in HistoryRow /\ StageRow(r).to_stage = req[r].to_stage
  BY <1>1 DEF StageRow, HistoryRow, TypeInv, RequestOK
<1>4. history[l] \in Seq(HistoryRow) /\ notifications[l] \in Nat
  BY <1>1, <1>2 DEF TypeInv, TypeOK
<1> HIDE DEF l
<1>5. /\ history'[l] # <<>> /\ Len(history'[l]) = Len(history[l]) + 1
      /\ history'[l][Len(history'[l])] = StageRow(r)
      /\ WonRow(history'[l]) <=> WonRow(history[l]) \/ req[r].to_stage = "won"
  BY <1>2, <1>3, <1>4, Appended
<1>6. \A m \in Leads \ {l} : WonRow(history'[m]) <=> WonRow(history[m])
  BY <1>2 DEF WonRow
<1>7. UnusedOK'
  BY <1>2 DEF UnusedOK, OutcomeInv
<1>8. CopyOK'
  <2>1. ASSUME NEW q \in Requests, req'[q].pc # "idle" PROVE q # r /\ req'[q] = req[q]
    BY <1>1, <2>1 DEF Transitioned, Finish, Idle, TypeInv, TypeOK
  <2>2. ASSUME NEW q \in Requests, req'[q].pc # "idle", req[q].op = "resolve"
        PROVE  WonRow(history'[req[q].lead])
    <3>1. req[q].lead \in Leads /\ WonRow(history[req[q].lead])
      BY <1>1, <2>1, <2>2 DEF OutcomeInv, CopyOK, TypeInv, TypeOK, RequestOK
    <3>2. CASE req[q].lead = l
      BY <3>1, <3>2, <1>5 DEF WonRow
    <3>3. CASE req[q].lead # l
      BY <3>1, <3>3, <1>2 DEF WonRow
    <3>4. QED
      BY <3>2, <3>3
  <2>3. QED
    BY <2>1, <2>2 DEF CopyOK, OutcomeInv, WonRow
<1>9. WonHasOutcome'
  <2> SUFFICES ASSUME NEW m \in Leads
               PROVE  WonRow(history'[m]) <=> \/ lead'[m].customer # Null
                                              \/ lead'[m].requires_manual_customer_selection
    BY DEF WonHasOutcome, WonRow
  <2>1. CASE m = l
    BY <2>1, <1>2, <1>5 DEF l
  <2>2. CASE m # l
    BY <2>2, <1>2, <1>6 DEF WonHasOutcome, OutcomeInv
  <2>3. QED
    BY <2>1, <2>2
<1>10. ReasonIffLost'
  <2>1. lead'[l].lost_reason <=> lead'[l].stage = "lost"
    BY <1>2 DEF CopyOK, OutcomeInv
  <2>2. QED
    BY <2>1, <1>2 DEF ReasonIffLost, OutcomeInv
<1>11. HistoryEndsAtStage'
  <2>1. history'[l][Len(history'[l])].to_stage = lead'[l].stage
    BY <1>2, <1>3, <1>5
  <2>2. notifications'[l] = Len(history'[l])
    BY <1>2, <1>4, <1>5 DEF HistoryEndsAtStage, OutcomeInv
  <2>3. leadRows \subseteq Leads
    BY <1>1 DEF TypeInv, TypeOK
  <2>4. QED
    BY <2>1, <2>2, <2>3, <1>2, <1>5 DEF HistoryEndsAtStage, OutcomeInv
<1>12. QED
  BY <1>7, <1>8, <1>9, <1>10, <1>11

(* A commit makes one link and sets the column with it, or does neither.   *)
LinksOne(l, c) ==
    /\ InsertLink(c, l)
    /\ customerRows' = customerRows \cup {c}
    /\ lead'[l].customer = c
    /\ \A m \in Leads \ {l} : lead'[m].customer = lead[m].customer

LinksNone ==
    /\ UNCHANGED <<customerRows, links>>
    /\ \A m \in Leads : lead'[m].customer = lead[m].customer

LEMMA CommitLinks ==
    ASSUME TypeInv, NEW r \in Requests, Commit(r)
    PROVE  /\ UNCHANGED leadRows /\ req[r].lead \in leadRows
           /\ LinksNone \/ \E c \in Customers : LinksOne(req[r].lead, c)
<1> DEFINE l == req[r].lead
<1>1. /\ UNCHANGED leadRows /\ req[r].pc # "idle" /\ l \in leadRows /\ l \in Leads
      /\ lead[l] \in LeadRow /\ lead \in [Leads -> LeadRow]
  BY DEF TypeInv, TypeOK, RequestOK, Commit, CommitStage, WinNewCustomer,
         WinExistingCustomer, WinManual, CommitResolve
<1>2. lead[l].customer \in OptCustomer /\ lead[l].requires_manual_customer_selection \in BOOLEAN
  BY <1>1 DEF LeadRow
<1>3. CASE CommitStage(r) \/ WinManual(r)
  <2>1. PICK manual \in BOOLEAN :
           /\ req[r].op = "transition" /\ Transitioned(r, lead[l].customer, manual)
           /\ UNCHANGED <<customerRows, links>>
    BY <1>2, <1>3 DEF CommitStage, WinManual
  <2>2. \A m \in Leads : lead'[m].customer = lead[m].customer
    BY <1>1, <1>2, <2>1, TransitionedEffect
  <2>3. QED
    BY <1>1, <2>1, <2>2 DEF LinksNone
<1>4. ASSUME NEW c \in Customers, WinNewCustomer(r, c) \/ WinExistingCustomer(r, c)
      PROVE  LinksOne(l, c)
  <2>1. /\ req[r].op = "transition" /\ Transitioned(r, c, FALSE) /\ InsertLink(c, l)
        /\ customerRows' = customerRows \cup {c}
    BY <1>4 DEF WinNewCustomer, WinExistingCustomer, ActiveCustomers
  <2>2. lead'[l].customer = c /\ \A m \in Leads \ {l} : lead'[m].customer = lead[m].customer
    BY <1>1, <2>1, TransitionedEffect
  <2>3. QED
    BY <2>1, <2>2 DEF LinksOne
<1>5. CASE CommitResolve(r)
  <2> DEFINE c == req[r].customer_id
             row == ResolvedLead(l, c)
  <2>1. c \in Customers /\ c \in customerRows
    BY <1>5 DEF CommitResolve, TypeInv, RequestOK, ActiveCustomers
  <2>2. row.customer = c
    BY <1>1, <2>1, ResolvedRow
  <2>3. lead' = [lead EXCEPT ![l] = row] /\ InsertLink(c, l) /\ UNCHANGED customerRows
    BY <1>5 DEF CommitResolve
  <2> HIDE DEF row
  <2>4. LinksOne(l, c)
    BY <1>1, <2>1, <2>2, <2>3 DEF LinksOne
  <2>5. QED
    BY <1>1, <2>1, <2>4
<1>6. QED
  BY <1>1, <1>3, <1>4, <1>5 DEF Commit

(* A new link and the column that goes with it.                            *)
LEMMA LinkOutcome ==
    ASSUME OutcomeInv, NEW c \in Customers, NEW l \in leadRows, LinksOne(l, c), UNCHANGED leadRows
    PROVE  lead[l].customer = Null /\ LinkAgreesWithLead' /\ NoOrphanCustomer'
<1> USE DEF OutcomeInv
<1>1. l \in Leads /\ lead[l].customer \in OptCustomer
  BY DEF TypeInv, TypeOK, LeadRow
<1>2. links' = links \cup {<<c, l>>} /\ \A d \in Customers : <<d, l>> \notin links
  BY DEF LinksOne, InsertLink, Linked
<1>3. lead[l].customer = Null
  BY <1>1, <1>2 DEF LinkAgreesWithLead
<1>4. LinkAgreesWithLead'
  <2> SUFFICES ASSUME NEW m \in Leads, NEW d \in Customers
               PROVE  <<d, m>> \in links' <=> lead'[m].customer = d
    BY DEF LinkAgreesWithLead
  <2>1. CASE m = l
    BY <2>1, <1>2 DEF LinksOne
  <2>2. CASE m # l
    BY <2>2, <1>2 DEF LinksOne, LinkAgreesWithLead
  <2>3. QED
    BY <2>1, <2>2
<1>5. NoOrphanCustomer'
  BY <1>2 DEF LinksOne, NoOrphanCustomer
<1>6. QED
  BY <1>3, <1>4, <1>5

LEMMA CommitOutcome ==
    ASSUME OutcomeInv, NEW r \in Requests, Commit(r)
    PROVE  OutcomeInv'
<1> DEFINE l == req[r].lead
<1>1. TypeInv /\ TypeInv' /\ UNCHANGED leadRows
  BY CommitTypeInv
  DEF OutcomeInv, Commit, CommitStage, WinNewCustomer, WinExistingCustomer, WinManual, CommitResolve
<1>2. req[r].pc # "idle" /\ l \in leadRows /\ l \in Leads
  BY <1>1 DEF TypeInv, TypeOK, RequestOK, Commit, CommitStage, WinNewCustomer,
              WinExistingCustomer, WinManual, CommitResolve
<1>3. lead[l].customer \in OptCustomer /\ lead[l].requires_manual_customer_selection \in BOOLEAN
  BY <1>1, <1>2 DEF TypeInv, TypeOK, LeadRow
<1>4. WonRow(history[l]) <=> \/ lead[l].customer # Null
                             \/ lead[l].requires_manual_customer_selection
  BY <1>2 DEF OutcomeInv, WonHasOutcome
<1>5. LinkAgreesWithLead' /\ NoOrphanCustomer'
  <2>1. CASE LinksNone
    BY <1>1, <2>1 DEF LinksNone, LinkAgreesWithLead, NoOrphanCustomer, OutcomeInv
  <2>2. QED
    BY <1>1, <2>1, CommitLinks, LinkOutcome
<1>6. CASE CommitStage(r)
  <2>1. /\ req[r].op = "transition" /\ req[r].to_stage # "won"
        /\ Transitioned(r, lead[l].customer, lead[l].requires_manual_customer_selection)
    BY <1>6 DEF CommitStage
  <2>2. QED
    BY <1>1, <1>2, <1>3, <1>4, <1>5, <2>1, TransitionOutcome DEF OutcomeInv
<1>7. ASSUME NEW c \in Customers, WinNewCustomer(r, c) \/ WinExistingCustomer(r, c)
      PROVE  OutcomeInv'
  <2>1. req[r].op = "transition" /\ req[r].to_stage = "won" /\ Transitioned(r, c, FALSE)
    BY <1>1, <1>7 DEF WinNewCustomer, WinExistingCustomer, TypeInv, RequestOK
  <2>2. QED
    BY <1>1, <1>2, <1>5, <2>1, TransitionOutcome, NullAssumption DEF OutcomeInv
<1>8. CASE WinManual(r)
  <2>1. PICK manual \in BOOLEAN :
           /\ manual /\ req[r].op = "transition" /\ req[r].to_stage = "won"
           /\ Transitioned(r, lead[l].customer, manual)
    BY <1>1, <1>8 DEF WinManual, TypeInv, RequestOK
  <2>2. QED
    BY <1>1, <1>2, <1>3, <1>5, <2>1, TransitionOutcome DEF OutcomeInv
<1>9. CASE CommitResolve(r)
  <2> DEFINE c == req[r].customer_id
             row == ResolvedLead(l, c)
  <2>1. /\ req[r].op = "resolve" /\ c \in Customers /\ lead[l] \in LeadRow
        /\ WonRow(history[l]) /\ lead \in [Leads -> LeadRow]
    BY <1>1, <1>2, <1>9 DEF CommitResolve, TypeInv, TypeOK, RequestOK, OutcomeInv, CopyOK
  <2>2. /\ row.stage = lead[l].stage /\ row.lost_reason = lead[l].lost_reason
        /\ row.customer = c /\ ~row.requires_manual_customer_selection
    BY <1>2, <2>1, ResolvedRow
  <2>3. /\ lead' = [lead EXCEPT ![l] = row] /\ Finish(r)
        /\ UNCHANGED <<leadRows, history, notifications>>
    BY <1>9 DEF CommitResolve
  <2> HIDE DEF row
  <2>4. lead'[l] = row /\ \A m \in Leads \ {l} : lead'[m] = lead[m]
    BY <1>2, <2>1, <2>3
  <2>5. WonHasOutcome'
    BY <2>1, <2>2, <2>3, <2>4, NullAssumption DEF WonHasOutcome, OutcomeInv
  <2>6. ReasonIffLost'
    BY <2>2, <2>4 DEF ReasonIffLost, OutcomeInv
  <2>7. HistoryEndsAtStage'
    <3>1. \A m \in Leads : lead'[m].stage = lead[m].stage
      BY <2>2, <2>4
    <3>2. QED
      BY <1>1, <2>3, <3>1 DEF HistoryEndsAtStage, OutcomeInv, TypeInv, TypeOK
  <2>8. UnusedOK'
    BY <1>2, <2>3, <2>4 DEF UnusedOK, OutcomeInv
  <2>9. CopyOK'
    BY <1>1, <2>3 DEF CopyOK, OutcomeInv, Finish, Idle, TypeInv, TypeOK
  <2>10. QED
    BY <1>1, <1>5, <2>5, <2>6, <2>7, <2>8, <2>9 DEF OutcomeInv
<1>10. QED
  BY <1>6, <1>7, <1>8, <1>9 DEF Commit

LEMMA CreateOutcome ==
    ASSUME OutcomeInv, NEW l \in Leads, NEW e \in OptEmail, NEW p \in OptPhone, CreateLead(l, e, p)
    PROVE  OutcomeInv'
<1>1. TypeInv /\ TypeInv'
  BY CreateTypeInv DEF OutcomeInv
<1> DEFINE h == <<[from_stage |-> Null, to_stage |-> "new"]>>
<1>2. /\ l \notin leadRows /\ leadRows' = leadRows \cup {l}
      /\ lead'[l] = NewLead(e, p) /\ history'[l] = h /\ notifications'[l] = 1
      /\ \A m \in Leads \ {l} : /\ lead'[m] = lead[m] /\ history'[m] = history[m]
                                /\ notifications'[m] = notifications[m]
      /\ UNCHANGED <<customerRows, links, req>>
  BY <1>1 DEF CreateLead, TypeInv, TypeOK
<1>3. /\ lead'[l].stage = "new" /\ ~lead'[l].lost_reason /\ lead'[l].customer = Null
      /\ ~lead'[l].requires_manual_customer_selection
  BY <1>2 DEF NewLead
<1>4. h # <<>> /\ Len(h) = 1 /\ h[Len(h)].to_stage = "new" /\ ~WonRow(h)
  BY DEF WonRow
<1> HIDE DEF h
<1>5. lead[l].customer = Null /\ ~lead[l].requires_manual_customer_selection /\ history[l] = <<>>
  BY <1>2 DEF OutcomeInv, UnusedOK
<1>6. UnusedOK'
  BY <1>2 DEF UnusedOK, OutcomeInv
<1>7. CopyOK'
  <2> SUFFICES ASSUME NEW r \in Requests, req[r].pc # "idle"
               PROVE  req[r].lead \in Leads \ {l}
    BY <1>2 DEF CopyOK, OutcomeInv
  <2>1. QED
    BY <1>1, <1>2 DEF TypeInv, TypeOK, RequestOK
<1>8. LinkAgreesWithLead' /\ NoOrphanCustomer'
  <2>1. \A m \in Leads : lead'[m].customer = lead[m].customer
    BY <1>2, <1>3, <1>5
  <2>2. LinkAgreesWithLead'
    BY <1>2, <2>1 DEF LinkAgreesWithLead, OutcomeInv
  <2>3. NoOrphanCustomer'
    BY <1>2 DEF NoOrphanCustomer, OutcomeInv
  <2>4. QED
    BY <2>2, <2>3
<1>9. WonHasOutcome'
  BY <1>2, <1>3, <1>4 DEF WonHasOutcome, OutcomeInv
<1>10. ReasonIffLost'
  BY <1>2, <1>3 DEF ReasonIffLost, OutcomeInv
<1>11. HistoryEndsAtStage'
  BY <1>1, <1>2, <1>3, <1>4 DEF HistoryEndsAtStage, OutcomeInv, TypeInv, TypeOK
<1>12. QED
  BY <1>1, <1>6, <1>7, <1>8, <1>9, <1>10, <1>11 DEF OutcomeInv

(* The strengthened invariant is inductive: any number of requests may     *)
(* overlap in any order and each may be cut short at any of its steps.     *)
THEOREM OutcomeInvariant == Spec => []OutcomeInv
<1>1. OutcomeInv /\ [Next]_vars => OutcomeInv'
  <2> SUFFICES ASSUME OutcomeInv, [Next]_vars PROVE OutcomeInv'
    OBVIOUS
  <2>1. CASE UNCHANGED vars
    <3>1. TypeInv' /\ CopyOK'
      BY <2>1 DEF OutcomeInv, TypeInv, TypeOK, RequestOK, ContactOK, CopyOK, vars
    <3>2. QED
      BY <2>1, <3>1, SameOutcome DEF vars
  <2>2. ASSUME NEW r \in Requests, ReadOnly(r) \/ Commit(r) PROVE OutcomeInv'
    BY <2>2, ReadOnlyOutcome, CommitOutcome
  <2>3. ASSUME NEW l \in Leads, NEW e \in OptEmail, NEW p \in OptPhone, CreateLead(l, e, p)
        PROVE  OutcomeInv'
    BY <2>3, CreateOutcome
  <2>4. CASE LeadEdit \/ (\E c \in Customers : EditCustomer(c)) \/ (\E k \in Contacts : EditContact(k))
    BY <2>4, EditOutcome
  <2>5. QED
    BY <2>1, <2>2, <2>3, <2>4, NextCases
<1>2. QED
  BY <1>1, InitOutcomeInv, PTL DEF Spec

(* Two records of one fact never disagree: the customer of a lead and the  *)
(* link rows, however many Won requests and resolutions race.              *)
THEOREM LinksAgree == Spec => []LinkAgreesWithLead
<1>1. OutcomeInv => LinkAgreesWithLead
  BY DEF OutcomeInv
<1>2. QED
  BY <1>1, OutcomeInvariant, PTL

(* No request that fails or loses a race leaves a customer behind.         *)
THEOREM NoOrphans == Spec => []NoOrphanCustomer
<1>1. OutcomeInv => NoOrphanCustomer
  BY DEF OutcomeInv
<1>2. QED
  BY <1>1, OutcomeInvariant, PTL

(* A winning always has an outcome, and only a winning has one.            *)
THEOREM WonOutcome == Spec => []WonHasOutcome
<1>1. OutcomeInv => WonHasOutcome
  BY DEF OutcomeInv
<1>2. QED
  BY <1>1, OutcomeInvariant, PTL

(* Reason and stage, both written from a copy, agree.                      *)
THEOREM ReasonFollowsStage == Spec => []ReasonIffLost
<1>1. OutcomeInv => ReasonIffLost
  BY DEF OutcomeInv
<1>2. QED
  BY <1>1, OutcomeInvariant, PTL

(* The newest history row names the stage, and every row was announced.    *)
THEOREM HistoryComplete == Spec => []HistoryEndsAtStage
<1>1. OutcomeInv => HistoryEndsAtStage
  BY DEF OutcomeInv
<1>2. QED
  BY <1>1, OutcomeInvariant, PTL

-------------------------------------------------------------------------------
(* Refinement                                                              *)

(* LeadPipeline implements CustomerAssignment: links, once made, stay.     *)
THEOREM Refinement == Spec => ImplementsAssignment
<1>1. Init => Assignment!Init
  <2> SUFFICES ASSUME Init PROVE Assignment!Init
    OBVIOUS
  <2>1. ASSUME NEW l \in Leads PROVE lead[l].customer = Past[l]
    BY PastAssumption DEF Init, PastLead, NewLead
  <2>2. customerRows = {Past[l] : l \in Leads} \ {Null}
    BY NullAssumption, PastAssumption DEF Init
  <2>3. QED
    BY <2>1, <2>2, PastAssumption DEF Assignment!Init
<1>2. OutcomeInv /\ [Next]_vars => [Assignment!Next]_(Assignment!vars)
  <2> SUFFICES ASSUME OutcomeInv, [Next]_vars PROVE [Assignment!Next]_(Assignment!vars)
    OBVIOUS
  <2>1. ASSUME UNCHANGED customerRows, \A l \in Leads : lead'[l].customer = lead[l].customer
        PROVE  UNCHANGED Assignment!vars
    BY <2>1 DEF Assignment!vars
  <2>2. ASSUME NEW c \in Customers, NEW l \in leadRows, LinksOne(l, c), UNCHANGED leadRows
        PROVE  Assignment!Assign(l, c)
    <3>1. lead[l].customer = Null
      BY <2>2, LinkOutcome
    <3>2. QED
      BY <2>2, <3>1 DEF LinksOne, Assignment!Assign, OutcomeInv, TypeInv, TypeOK
  <2>3. ASSUME NEW r \in Requests, Commit(r)
        PROVE  [Assignment!Next]_(Assignment!vars)
    <3>1. leadRows \subseteq Leads
      BY DEF OutcomeInv, TypeInv, TypeOK
    <3>2. LinksNone \/ \E c \in Customers : Assignment!Assign(req[r].lead, c)
      BY <2>2, <2>3, CommitLinks DEF OutcomeInv
    <3>3. req[r].lead \in Leads
      BY <2>3, <3>1, CommitLinks DEF OutcomeInv
    <3>4. QED
      BY <2>1, <3>2, <3>3 DEF LinksNone, Assignment!Next
  <2>4. ASSUME NEW r \in Requests, ReadOnly(r) PROVE UNCHANGED Assignment!vars
    BY <2>1, <2>4, ReadOnlyFrame
  <2>5. ASSUME NEW l \in Leads, NEW e \in OptEmail, NEW p \in OptPhone, CreateLead(l, e, p)
        PROVE  UNCHANGED Assignment!vars
    <3>1. lead[l].customer = Null /\ NewLead(e, p).customer = Null
      BY <2>5 DEF CreateLead, OutcomeInv, UnusedOK, NewLead
    <3>2. \A m \in Leads : lead'[m].customer = lead[m].customer
      BY <2>5, <3>1 DEF CreateLead, OutcomeInv, TypeInv, TypeOK
    <3>3. QED
      BY <2>1, <2>5, <3>2 DEF CreateLead
  <2>6. CASE LeadEdit \/ (\E c \in Customers : EditCustomer(c)) \/ (\E k \in Contacts : EditContact(k))
    <3>1. UNCHANGED customerRows
      BY <2>6 DEF LeadEdit, PatchLead, DeleteLead, RestoreLead, EditCustomer, EditContact
    <3>2. QED
      BY <2>1, <2>6, <3>1, EditColumns DEF OutcomeInv
  <2>7. CASE UNCHANGED vars
    BY <2>1, <2>7 DEF vars
  <2>8. QED
    BY <2>3, <2>4, <2>5, <2>6, <2>7, NextCases
<1>3. QED
  BY <1>1, <1>2, OutcomeInvariant, PTL DEF Spec, ImplementsAssignment, Assignment!Spec

(* A link is for life (Business Rules 5.3): no request, edit, crash or     *)
(* overlap changes the customer of a lead, takes the link row back or      *)
(* removes a customer.                                                     *)
LinkedForLife ==
    /\ \A l \in Leads : lead[l].customer # Null => lead'[l].customer = lead[l].customer
    /\ links \subseteq links'
    /\ customerRows \subseteq customerRows'

THEOREM CustomerForLife == Spec => [][LinkedForLife]_vars
<1> DEFINE customerOf == [l \in Leads |-> lead[l].customer]
<1>1. OutcomeInv /\ OutcomeInv' /\ [Assignment!Next]_(Assignment!vars) => LinkedForLife
  <2> SUFFICES ASSUME OutcomeInv, OutcomeInv', [Assignment!Next]_(Assignment!vars)
               PROVE  LinkedForLife
    OBVIOUS
  <2>1. \A l \in Leads : lead[l].customer # Null => customerOf'[l] = customerOf[l]
    <3>1. ASSUME NEW m \in Leads, NEW c \in Customers, Assignment!Assign(m, c),
                 NEW l \in Leads, lead[l].customer # Null
          PROVE  customerOf'[l] = customerOf[l]
      BY <3>1 DEF Assignment!Assign
    <3>2. QED BY <3>1 DEF Assignment!Next, Assignment!vars
  <2>2. customerRows \subseteq customerRows'
    BY DEF Assignment!Next, Assignment!Assign, Assignment!vars
  <2>3. ASSUME NEW c \in Customers, NEW l \in Leads, <<c, l>> \in links
        PROVE  <<c, l>> \in links'
    <3>1. lead[l].customer = c /\ c # Null
      BY <2>3, NullAssumption DEF OutcomeInv, LinkAgreesWithLead
    <3>2. lead'[l].customer = c
      BY <2>1, <3>1
    <3>3. QED BY <3>2 DEF OutcomeInv, LinkAgreesWithLead
  <2>4. links \subseteq Customers \X Leads
    BY DEF OutcomeInv, TypeInv, TypeOK
  <2>5. QED BY <2>1, <2>2, <2>3, <2>4 DEF LinkedForLife
<1>2. QED
  BY <1>1, OutcomeInvariant, Refinement, PTL DEF ImplementsAssignment, Assignment!Spec

-------------------------------------------------------------------------------
(* Requests that come one by one                                           *)

AloneOK == \A r, s \in Requests : req[r].pc # "idle" /\ req[s].pc # "idle" => r = s

(* What a request has read is still so.                                    *)
FreshOK ==
    \A r \in Requests : req[r].pc # "idle" =>
        /\ req[r].op = "transition" => /\ req[r].from_stage = lead[req[r].lead].stage
                                       /\ req[r].from_stage # "won"
        /\ req[r].op = "resolve" => lead[req[r].lead].requires_manual_customer_selection

(* Nobody whom the search should find is missing from what it has found.   *)
SearchOK ==
    \A r \in Requests :
        /\ req[r].pc \in {"scanning", "scanned"} => CustomerMatches(r) \subseteq req[r].matched_ids
        /\ req[r].pc = "scanned" => ContactMatches(r) \subseteq req[r].matched_ids

OutcomeIffWon ==
    \A l \in Leads :
        lead[l].stage = "won" <=> lead[l].customer # Null \/ lead[l].requires_manual_customer_selection

SerialInv ==
    /\ OutcomeInv
    /\ AloneOK /\ FreshOK /\ SearchOK
    /\ OutcomeIffWon /\ HistoryIsAChain /\ ManualMeansUnlinked

(* What the two action properties say of a step.                           *)
WonStays == \A l \in Leads : lead[l].stage = "won" => lead'[l].stage = "won"
NewIsNew == \A c \in customerRows' \ customerRows : \A party \in Parties :
                ~SameParty(customer'[c], party)

LEMMA InitSerialInv == Init => SerialInv
<1> SUFFICES ASSUME Init PROVE SerialInv
  OBVIOUS
<1>1. OutcomeInv
  BY InitOutcomeInv
<1>2. \A r \in Requests : req[r].pc = "idle"
  BY DEF Init, Idle
<1>3. ASSUME NEW l \in Leads
      PROVE  /\ lead[l].customer # Null <=> lead[l].stage = "won"
             /\ ~lead[l].requires_manual_customer_selection
  BY PastAssumption DEF Init, PastLead, NewLead
<1>4. HistoryIsAChain
  <2> SUFFICES ASSUME NEW l \in Leads, NEW i \in 2..Len(history[l])
               PROVE  history[l][i].from_stage = history[l][i - 1].to_stage
    BY DEF HistoryIsAChain
  <2>1. CASE Past[l] = Null
    BY <2>1 DEF Init
  <2>2. CASE Past[l] # Null
    <3>1. history[l] = <<[from_stage |-> Null, to_stage |-> "new"],
                         [from_stage |-> "new", to_stage |-> "won"]>>
      BY <2>2 DEF Init
    <3>2. Len(history[l]) = 2 /\ history[l][1].to_stage = "new" /\ history[l][2].from_stage = "new"
      BY <3>1
    <3>3. i = 2
      BY <3>2
    <3>4. QED BY <3>2, <3>3
  <2>3. QED BY <2>1, <2>2
<1>5. QED
  BY <1>1, <1>2, <1>3, <1>4
  DEF SerialInv, AloneOK, FreshOK, SearchOK, OutcomeIffWon, ManualMeansUnlinked

(* Nobody is being served after a step: nothing has been read.             *)
LEMMA AllIdle ==
    ASSUME \A s \in Requests : req'[s].pc = "idle"
    PROVE  AloneOK' /\ FreshOK' /\ SearchOK'
BY DEF AloneOK, FreshOK, SearchOK

LEMMA Ends ==
    ASSUME TypeInv, AloneOK, NEW r \in Requests, req[r].pc # "idle", Finish(r)
    PROVE  \A s \in Requests : req'[s].pc = "idle"
BY DEF TypeInv, TypeOK, AloneOK, Finish, Idle

(* A transition commits from the stage the lead has.                       *)
LEMMA SerialTransition ==
    ASSUME SerialInv, NEW r \in Requests, req[r].pc # "idle", req[r].op = "transition",
           NEW cust \in OptCustomer, NEW manual \in BOOLEAN, Transitioned(r, cust, manual),
           cust # Null \/ manual <=> req[r].to_stage = "won", manual => cust = Null
    PROVE  WonStays /\ OutcomeIffWon' /\ HistoryIsAChain' /\ ManualMeansUnlinked'
<1> DEFINE l == req[r].lead
<1>1. TypeInv
  BY DEF SerialInv, OutcomeInv
<1>2. /\ l \in leadRows /\ l \in Leads
      /\ lead'[l].stage = req[r].to_stage
      /\ lead'[l].customer = cust
      /\ lead'[l].requires_manual_customer_selection = manual
      /\ history'[l] = Append(history[l], StageRow(r))
      /\ \A m \in Leads \ {l} : lead'[m] = lead[m] /\ history'[m] = history[m]
  BY <1>1, TransitionedEffect
<1>3. lead[l].stage = req[r].from_stage /\ lead[l].stage # "won"
  BY DEF SerialInv, FreshOK
<1>4. history[l] \in Seq(HistoryRow) /\ history[l] # <<>>
      /\ history[l][Len(history[l])].to_stage = lead[l].stage
  BY <1>1, <1>2 DEF SerialInv, OutcomeInv, HistoryEndsAtStage, TypeInv, TypeOK
<1>5. StageRow(r) \in HistoryRow /\ StageRow(r).from_stage = req[r].from_stage
  BY <1>1 DEF StageRow, HistoryRow, TypeInv, RequestOK
<1> HIDE DEF l
<1>6. WonStays
  BY <1>2, <1>3 DEF WonStays
<1>7. OutcomeIffWon' /\ ManualMeansUnlinked'
  BY <1>2 DEF SerialInv, OutcomeIffWon, ManualMeansUnlinked
<1>8. HistoryIsAChain'
  <2> SUFFICES ASSUME NEW m \in Leads, NEW i \in 2..Len(history'[m])
               PROVE  history'[m][i].from_stage = history'[m][i - 1].to_stage
    BY DEF HistoryIsAChain
  <2>1. CASE m # l
    BY <1>2, <2>1 DEF SerialInv, HistoryIsAChain
  <2>2. CASE m = l
    <3> DEFINE n == Len(history[l])
    <3>1. /\ n \in Nat \ {0} /\ Len(history'[l]) = n + 1 /\ history'[l][n + 1] = StageRow(r)
          /\ \A j \in 1..n : history'[l][j] = history[l][j]
      BY <1>2, <1>4, <1>5
    <3>2. CASE i = n + 1
      BY <1>3, <1>4, <1>5, <2>2, <3>1, <3>2
    <3>3. CASE i \in 2..n
      <4>1. history[l][i].from_stage = history[l][i - 1].to_stage
        BY <1>2, <3>3 DEF SerialInv, HistoryIsAChain
      <4>2. i \in 1..n /\ i - 1 \in 1..n
        BY <3>1, <3>3
      <4>3. QED BY <2>2, <3>1, <4>1, <4>2
    <3>4. QED BY <2>2, <3>1, <3>2, <3>3
  <2>3. QED BY <2>1, <2>2
<1>9. QED BY <1>6, <1>7, <1>8

LEMMA SerialCommit ==
    ASSUME SerialInv, NEW r \in Requests, Commit(r)
    PROVE  SerialInv' /\ WonStays
<1> DEFINE l == req[r].lead
<1>1. TypeInv /\ OutcomeInv' /\ AloneOK
  BY CommitOutcome DEF SerialInv, OutcomeInv
<1>2. req[r].pc # "idle" /\ Finish(r)
  BY DEF Commit, CommitStage, WinNewCustomer, WinExistingCustomer, WinManual, CommitResolve,
         Transitioned
<1>3. AloneOK' /\ FreshOK' /\ SearchOK'
  BY <1>1, <1>2, Ends, AllIdle
<1>4. l \in Leads /\ lead[l] \in LeadRow /\ lead \in [Leads -> LeadRow]
  BY <1>1, <1>2 DEF TypeInv, TypeOK, RequestOK
<1>5. lead[l].customer \in OptCustomer /\ lead[l].requires_manual_customer_selection \in BOOLEAN
  BY <1>4 DEF LeadRow
<1>6. req[r].op = "transition" =>
        lead[l].customer = Null /\ ~lead[l].requires_manual_customer_selection
  BY <1>2, <1>4 DEF SerialInv, FreshOK, OutcomeIffWon
<1>7. req[r].op = "transition" /\ req[r].pc = "scanned" => req[r].to_stage = "won"
  BY <1>1, <1>2 DEF TypeInv, RequestOK
<1>8. WonStays /\ OutcomeIffWon' /\ HistoryIsAChain' /\ ManualMeansUnlinked'
  <2>1. CASE CommitStage(r)
    <3>1. req[r].op = "transition" /\ req[r].to_stage # "won"
          /\ Transitioned(r, lead[l].customer, lead[l].requires_manual_customer_selection)
      BY <2>1 DEF CommitStage
    <3>2. QED BY <1>2, <1>5, <1>6, <3>1, SerialTransition
  <2>2. ASSUME NEW c \in Customers, WinNewCustomer(r, c) \/ WinExistingCustomer(r, c)
        PROVE  WonStays /\ OutcomeIffWon' /\ HistoryIsAChain' /\ ManualMeansUnlinked'
    <3>1. req[r].op = "transition" /\ req[r].pc = "scanned" /\ Transitioned(r, c, FALSE)
      BY <2>2 DEF WinNewCustomer, WinExistingCustomer
    <3>2. QED BY <1>2, <1>7, <3>1, SerialTransition, NullAssumption
  <2>3. CASE WinManual(r)
    <3>1. PICK manual \in BOOLEAN : manual /\
            req[r].op = "transition" /\ req[r].pc = "scanned" /\ Transitioned(r, lead[l].customer, manual)
      BY <2>3 DEF WinManual
    <3>2. QED BY <1>2, <1>5, <1>6, <1>7, <3>1, SerialTransition
  <2>4. CASE CommitResolve(r)
    <3> DEFINE c == req[r].customer_id
               row == ResolvedLead(l, c)
    <3>1. c \in Customers /\ req[r].op = "resolve"
      BY <1>1, <2>4 DEF CommitResolve, TypeInv, RequestOK
    <3>2. row.stage = lead[l].stage /\ row.customer # Null /\ ~row.requires_manual_customer_selection
      BY <1>4, <3>1, ResolvedRow, NullAssumption
    <3>3. lead' = [lead EXCEPT ![l] = row] /\ UNCHANGED history
      BY <2>4 DEF CommitResolve
    <3> HIDE DEF row
    <3>4. lead'[l] = row /\ \A m \in Leads \ {l} : lead'[m] = lead[m]
      BY <1>4, <3>3
    <3>5. lead[l].stage = "won"
      BY <1>2, <1>4, <3>1 DEF SerialInv, FreshOK, OutcomeIffWon
    <3>6. QED
      BY <3>2, <3>3, <3>4, <3>5
      DEF WonStays, SerialInv, OutcomeIffWon, HistoryIsAChain, ManualMeansUnlinked
  <2>5. QED BY <2>1, <2>2, <2>3, <2>4 DEF Commit
<1>9. QED BY <1>1, <1>3, <1>8 DEF SerialInv

(* Only a Won transition makes a customer, and by then it has met every    *)
(* party there is.                                                         *)
LEMMA SerialNew ==
    ASSUME SerialInv, NEW r \in Requests, Commit(r)
    PROVE  NewIsNew
<1>1. ASSUME NEW c \in Customers, WinNewCustomer(r, c)
      PROVE  NewIsNew
  <2>1. customer \in [Customers -> CustomerRow]
    BY DEF SerialInv, OutcomeInv, TypeInv, TypeOK
  <2>2. /\ customer'[c] = NewCustomer(req[r].email, req[r].phone)
        /\ customerRows' = customerRows \cup {c} /\ req[r].pc = "scanned" /\ req[r].matched_ids = {}
    BY <1>1, <2>1 DEF WinNewCustomer
  <2>3. CustomerMatches(r) = {} /\ ContactMatches(r) = {}
    BY <2>2 DEF SerialInv, SearchOK
  <2>4. \A party \in Parties : ~SameParty(req[r], party)
    BY <2>3 DEF Parties, CustomerMatches, ContactMatches
  <2>5. customer'[c].email = req[r].email /\ customer'[c].phone = req[r].phone
    BY <2>2 DEF NewCustomer
  <2>6. \A party \in Parties : ~SameParty(customer'[c], party)
    BY <2>4, <2>5 DEF SameParty
  <2>7. QED BY <2>2, <2>6 DEF NewIsNew
<1>2. ASSUME ~\E c \in Customers : WinNewCustomer(r, c)
      PROVE  NewIsNew
  BY <1>2 DEF Commit, CommitStage, WinExistingCustomer, WinManual, CommitResolve, NewIsNew
<1>3. QED BY <1>1, <1>2

(* A request that begins is alone; one that goes on keeps what it has.     *)
LEMMA SerialRead ==
    ASSUME SerialInv, ~Overlap, NEW r \in Requests, ReadOnly(r)
    PROVE  SerialInv'
<1>1. TypeInv /\ OutcomeInv' /\ AloneOK
  BY ReadOnlyOutcome DEF SerialInv, OutcomeInv
<1>2. UNCHANGED <<leadRows, lead, customerRows, customer, contactRows, contact,
                  links, history, notifications>>
  BY ReadOnlyFrame
<1>3. OutcomeIffWon' /\ HistoryIsAChain' /\ ManualMeansUnlinked'
  BY <1>2 DEF SerialInv, OutcomeIffWon, HistoryIsAChain, ManualMeansUnlinked
<1>4. SUFFICES AloneOK' /\ FreshOK' /\ SearchOK'
  BY <1>1, <1>3 DEF SerialInv
<1>5. ASSUME NEW q, req' = [req EXCEPT ![r] = q], \A s \in Requests \ {r} : req[s].pc = "idle",
             q.pc # "idle" =>
               /\ q.op = "transition" => q.from_stage = lead[q.lead].stage /\ q.from_stage # "won"
               /\ q.op = "resolve" => lead[q.lead].requires_manual_customer_selection,
             q.pc \in {"scanning", "scanned"} => CustomerMatches(r)' \subseteq q.matched_ids,
             q.pc = "scanned" => ContactMatches(r)' \subseteq q.matched_ids
      PROVE  AloneOK' /\ FreshOK' /\ SearchOK'
  <2>1. req'[r] = q /\ \A s \in Requests \ {r} : req'[s].pc = "idle"
    BY <1>1, <1>5 DEF TypeInv, TypeOK
  <2>2. AloneOK'
    BY <2>1 DEF AloneOK
  <2>3. FreshOK'
    BY <1>2, <1>5, <2>1 DEF FreshOK
  <2>4. ASSUME NEW s \in Requests
        PROVE  /\ req'[s].pc \in {"scanning", "scanned"} => CustomerMatches(s)' \subseteq req'[s].matched_ids
               /\ req'[s].pc = "scanned" => ContactMatches(s)' \subseteq req'[s].matched_ids
    <3>1. CASE s = r
      BY <1>5, <2>1, <3>1
    <3>2. CASE s # r
      BY <2>1, <3>2
    <3>3. QED BY <3>1, <3>2
  <2>5. QED BY <2>2, <2>3, <2>4 DEF SearchOK
<1>6. ASSUME NEW l \in Leads, NEW to \in Stages, NEW reason \in BOOLEAN,
             BeginTransition(r, l, to, reason)
      PROVE  AloneOK' /\ FreshOK' /\ SearchOK'
  <2> DEFINE q == TransitionRequest(l, to, reason)
  <2>1. q.pc = "begun" /\ q.op = "transition" /\ q.from_stage = lead[l].stage /\ q.lead = l
    BY DEF TransitionRequest
  <2>2. req' = [req EXCEPT ![r] = q] /\ lead[l].stage # "won" /\ \A s \in Requests : req[s].pc = "idle"
    BY <1>6 DEF BeginTransition, Start, Arrives, MayMove
  <2> HIDE DEF q
  <2>3. QED BY <1>5, <2>1, <2>2
<1>7. ASSUME NEW l \in Leads, NEW c \in Customers, BeginResolve(r, l, c)
      PROVE  AloneOK' /\ FreshOK' /\ SearchOK'
  <2> DEFINE q == ResolveRequest(l, c)
  <2>1. q.pc = "begun" /\ q.op = "resolve" /\ q.lead = l
    BY DEF ResolveRequest
  <2>2. /\ req' = [req EXCEPT ![r] = q] /\ lead[l].requires_manual_customer_selection
        /\ \A s \in Requests : req[s].pc = "idle"
    BY <1>7 DEF BeginResolve, Start, Arrives
  <2> HIDE DEF q
  <2>3. QED BY <1>5, <2>1, <2>2
<1>8. CASE ScanCustomers(r) \/ ScanContacts(r)
  <2> DEFINE pc  == IF ScanCustomers(r) THEN "scanning" ELSE "scanned"
             ids == IF ScanCustomers(r) THEN CustomerMatches(r)
                    ELSE req[r].matched_ids \cup ContactMatches(r)
             q   == Searched(r, pc, ids)
  <2>1. /\ req' = [req EXCEPT ![r] = q] /\ req[r].pc # "idle"
        /\ ~ScanCustomers(r) => req[r].pc = "scanning"
    BY <1>8 DEF ScanCustomers, ScanContacts
  <2>2. req[r] \in Request /\ pc \in {"scanning", "scanned"}
    BY <1>1 DEF TypeInv, TypeOK
  <2>3. ids \in SUBSET Customers
    BY <1>1, <2>2 DEF CustomerMatches, ActiveCustomers, ContactMatches, ActiveContacts, ContactOK,
           TypeInv, TypeOK, Request
  <2>4. PICK p \in Request : p = req[r]
    BY <2>2
  <2> HIDE DEF ids, pc
  <2>5. q = [p EXCEPT !.pc = pc, !.matched_ids = ids]
    BY <2>4 DEF Searched
  <2>6. /\ q.pc = pc /\ q.op = p.op /\ q.lead = p.lead /\ q.from_stage = p.from_stage
        /\ q.email = p.email /\ q.phone = p.phone /\ q.matched_ids = ids
    BY <2>5 DEF Request
  <2> HIDE DEF q
  <2>7. req'[r] = q
    BY <1>1, <2>1 DEF TypeInv, TypeOK
  <2>8. \A s \in Requests \ {r} : req[s].pc = "idle"
    BY <1>1, <2>1 DEF AloneOK
  <2>9. CustomerMatches(r)' = CustomerMatches(r) /\ ContactMatches(r)' = ContactMatches(r)
    <3>1. \A party : SameParty(req'[r], party) <=> SameParty(req[r], party)
      BY <2>4, <2>6, <2>7 DEF SameParty
    <3>2. QED
      BY <1>2, <3>1 DEF CustomerMatches, ContactMatches, ActiveCustomers, ActiveContacts
  <2>10. CustomerMatches(r) \subseteq ids /\ (pc = "scanned" => ContactMatches(r) \subseteq ids)
    BY <2>1 DEF ids, pc, SerialInv, SearchOK
  <2>11. /\ q.op = "transition" => q.from_stage = lead[q.lead].stage /\ q.from_stage # "won"
         /\ q.op = "resolve" => lead[q.lead].requires_manual_customer_selection
    BY <2>1, <2>4, <2>6 DEF SerialInv, FreshOK
  <2>12. QED BY <1>5, <2>1, <2>6, <2>8, <2>9, <2>10, <2>11
<1>9. CASE Reject(r) \/ Crash(r)
  BY <1>1, <1>9, Ends, AllIdle DEF Reject, Crash
<1>10. QED BY <1>6, <1>7, <1>8, <1>9 DEF ReadOnly

(* Edits come between requests.                                            *)
LEMMA SerialEdit ==
    ASSUME SerialInv, ~Overlap,
           LeadEdit \/ (\E c \in Customers : EditCustomer(c)) \/ (\E k \in Contacts : EditContact(k))
    PROVE  SerialInv' /\ WonStays /\ NewIsNew
<1>1. TypeInv /\ OutcomeInv'
  BY EditOutcome DEF SerialInv, OutcomeInv
<1>2. \A s \in Requests : req[s].pc = "idle"
  BY DEF LeadEdit, PatchLead, DeleteLead, RestoreLead, EditCustomer, EditContact, Edit, Arrives
<1>3. UNCHANGED <<history, req, customerRows>>
  BY DEF LeadEdit, PatchLead, DeleteLead, RestoreLead, EditCustomer, EditContact
<1>4. AloneOK' /\ FreshOK' /\ SearchOK'
  BY <1>2, <1>3, AllIdle
<1>5. \A l \in Leads : /\ lead'[l].stage = lead[l].stage /\ lead'[l].customer = lead[l].customer
                       /\ lead'[l].requires_manual_customer_selection
                             = lead[l].requires_manual_customer_selection
  BY <1>1, EditColumns
<1>6. OutcomeIffWon' /\ HistoryIsAChain' /\ ManualMeansUnlinked' /\ WonStays
  BY <1>3, <1>5 DEF SerialInv, OutcomeIffWon, HistoryIsAChain, ManualMeansUnlinked, WonStays
<1>7. QED BY <1>1, <1>3, <1>4, <1>6 DEF SerialInv, NewIsNew

LEMMA SerialCreate ==
    ASSUME SerialInv, ~Overlap, NEW l \in Leads, NEW e \in OptEmail, NEW p \in OptPhone,
           CreateLead(l, e, p)
    PROVE  SerialInv' /\ WonStays /\ NewIsNew
<1>1. TypeInv /\ OutcomeInv'
  BY CreateOutcome DEF SerialInv, OutcomeInv
<1> DEFINE h == <<[from_stage |-> Null, to_stage |-> "new"]>>
           n == NewLead(e, p)
<1>2. /\ l \notin leadRows /\ lead'[l] = n /\ history'[l] = h
      /\ \A m \in Leads \ {l} : lead'[m] = lead[m] /\ history'[m] = history[m]
      /\ UNCHANGED <<customerRows, req>> /\ \A s \in Requests : req[s].pc = "idle"
  BY <1>1 DEF CreateLead, Arrives, TypeInv, TypeOK
<1>3. n.stage # "won" /\ n.customer = Null /\ ~n.requires_manual_customer_selection /\ Len(h) = 1
  BY DEF NewLead
<1>4. AloneOK' /\ FreshOK' /\ SearchOK'
  BY <1>2, AllIdle
<1>5. lead[l].stage # "won"
  <2>1. lead[l].customer = Null /\ ~lead[l].requires_manual_customer_selection
    BY <1>2 DEF SerialInv, OutcomeInv, UnusedOK
  <2>2. QED BY <2>1 DEF SerialInv, OutcomeIffWon
<1> HIDE DEF h, n
<1>6. OutcomeIffWon' /\ ManualMeansUnlinked'
  BY <1>2, <1>3 DEF SerialInv, OutcomeIffWon, ManualMeansUnlinked
<1>7. HistoryIsAChain'
  BY <1>2, <1>3 DEF SerialInv, HistoryIsAChain
<1>8. QED BY <1>1, <1>2, <1>4, <1>5, <1>6, <1>7 DEF SerialInv, WonStays, NewIsNew

LEMMA SerialStep ==
    ASSUME ~Overlap, SerialInv, [Next]_vars
    PROVE  SerialInv' /\ WonStays /\ NewIsNew
<1> DEFINE Good == SerialInv' /\ WonStays /\ NewIsNew
<1>1. ASSUME NEW r \in Requests, ReadOnly(r) PROVE Good
  <2>1. UNCHANGED <<lead, customerRows>>
    BY <1>1, ReadOnlyFrame
  <2>2. QED BY <1>1, <2>1, SerialRead DEF WonStays, NewIsNew
<1>2. ASSUME NEW r \in Requests, Commit(r) PROVE Good
  BY <1>2, SerialCommit, SerialNew
<1>3. ASSUME NEW l \in Leads, NEW e \in OptEmail, NEW p \in OptPhone, CreateLead(l, e, p) PROVE Good
  BY <1>3, SerialCreate
<1>4. ASSUME LeadEdit \/ (\E c \in Customers : EditCustomer(c)) \/ (\E k \in Contacts : EditContact(k))
      PROVE  Good
  BY <1>4, SerialEdit
<1>5. ASSUME UNCHANGED vars PROVE Good
  <2>1. UNCHANGED <<leadRows, lead, customerRows, customer, contactRows, contact, links, history,
                    notifications, req>>
    BY <1>5 DEF vars
  <2>2. TypeInv' /\ CopyOK'
    BY <1>5 DEF SerialInv, OutcomeInv, TypeInv, TypeOK, RequestOK, ContactOK, CopyOK, vars
  <2>3. OutcomeInv'
    BY <2>1, <2>2, SameOutcome DEF SerialInv
  <2>4. AloneOK' /\ FreshOK' /\ OutcomeIffWon' /\ HistoryIsAChain' /\ ManualMeansUnlinked'
    BY <2>1 DEF SerialInv, AloneOK, FreshOK, OutcomeIffWon, HistoryIsAChain, ManualMeansUnlinked
  <2>5. SearchOK'
    BY <2>1 DEF SerialInv, SearchOK, CustomerMatches, ContactMatches, ActiveCustomers,
                ActiveContacts, SameParty
  <2>6. QED BY <2>1, <2>3, <2>4, <2>5 DEF SerialInv, WonStays, NewIsNew
<1> HIDE DEF Good
<1>6. Good
  BY <1>1, <1>2, <1>3, <1>4, <1>5, NextCases
<1>7. QED BY <1>6 DEF Good

(* With requests one by one, the copy a request works on is the row: no    *)
(* transition leaves Won.                                                  *)
THEOREM SerialWonIsTerminal ==
    ASSUME ~Overlap
    PROVE  Spec => WonIsTerminal
<1>1. SerialInv /\ [Next]_vars =>
        [\A l \in Leads : lead[l].stage = "won" => lead'[l].stage = "won"]_vars
  BY SerialStep DEF WonStays
<1>2. SerialInv /\ [Next]_vars => SerialInv'
  BY SerialStep
<1>3. QED BY <1>1, <1>2, InitSerialInv, PTL DEF Spec, WonIsTerminal

(* With requests one by one, the history of a lead is a chain.             *)
THEOREM SerialHistoryIsAChain ==
    ASSUME ~Overlap
    PROVE  Spec => []HistoryIsAChain
<1>1. SerialInv => HistoryIsAChain
  BY DEF SerialInv
<1>2. SerialInv /\ [Next]_vars => SerialInv'
  BY SerialStep
<1>3. QED BY <1>1, <1>2, InitSerialInv, PTL DEF Spec

(* With requests one by one, whoever is asked to choose a customer can.    *)
THEOREM SerialManualMeansUnlinked ==
    ASSUME ~Overlap
    PROVE  Spec => []ManualMeansUnlinked
<1>1. SerialInv => ManualMeansUnlinked
  BY DEF SerialInv
<1>2. SerialInv /\ [Next]_vars => SerialInv'
  BY SerialStep
<1>3. QED BY <1>1, <1>2, InitSerialInv, PTL DEF Spec

(* With requests one by one, a customer is made for a new party only.      *)
THEOREM SerialNewCustomerIsNew ==
    ASSUME ~Overlap
    PROVE  Spec => NewCustomerIsNew
<1>1. SerialInv /\ [Next]_vars =>
        [\A c \in customerRows' \ customerRows : \A party \in Parties :
            ~SameParty(customer'[c], party)]_vars
  BY SerialStep DEF NewIsNew
<1>2. SerialInv /\ [Next]_vars => SerialInv'
  BY SerialStep
<1>3. QED BY <1>1, <1>2, InitSerialInv, PTL DEF Spec, NewCustomerIsNew
===============================================================================
