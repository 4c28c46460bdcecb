----------------------------- MODULE LeadPipeline -----------------------------
(***************************************************************************)
(* Leads, the customers they are won for, and the requests that move them. *)
(*                                                                         *)
(* Source: apps/leads/services.py, apps/leads/views.py,                    *)
(* apps/customers/services.py, apps/customers/views.py and their models.   *)
(*                                                                         *)
(* A web worker first reads the Lead and checks its rules on that copy;    *)
(* only the UPDATE issued later takes the row's lock (READ COMMITTED,      *)
(* no SELECT ... FOR UPDATE).  A request is therefore a chain of steps and *)
(* any other request may run between two of them.  What one transaction    *)
(* writes is added to the tables by its commit step, all at once.          *)
(*                                                                         *)
(* Edits that are one blind UPDATE or INSERT (PATCH, DELETE, restore,      *)
(* contacts) are one action each: what they write depends on no value read *)
(* before.  Owners, sources, tags and archiving are not in this module.    *)
(***************************************************************************)
EXTENDS Naturals, Sequences

CONSTANTS
    Leads, Customers, Contacts, \* the ids the tables may hold
    Requests,                   \* web workers serving a request at a time
    Emails, Phones,             \* contact data, up to normalisation
    Digitless,                  \* phones that normalise to the empty string
    OpenStages,                 \* the non-terminal stages (NON_TERMINAL_STAGES)
    Null,
    Past,                       \* the customer each lead was won for earlier
    PastCustomer,               \* and the contact data of those customers
    Overlap,                    \* may requests overlap, or come one by one
    MaxRequests,                \* bound: transition and resolve requests
    MaxEdits                    \* bound: PATCH/DELETE/restore/contact requests

ASSUME StageAssumption ==
    /\ "new" \in OpenStages
    /\ OpenStages \cap {"won", "lost"} = {}
ASSUME NullAssumption ==
    Null \notin Leads \cup Customers \cup Contacts \cup Emails \cup Phones
ASSUME DigitlessAssumption == Digitless \subseteq Phones
ASSUME OverlapAssumption == Overlap \in BOOLEAN
ASSUME BoundAssumption == MaxRequests \in Nat /\ MaxEdits \in Nat

VARIABLES
    leadRows, lead,          \* table leads: ids in use, and their columns
    customerRows, customer,  \* table customers
    contactRows, contact,    \* table contacts
    links,                   \* table customer_lead_links, as <<customer, lead>>
    history,                 \* table lead_stage_history, oldest first
    notifications,           \* notifications about each lead
    req,                     \* the request each worker is serving
    begun, edits             \* requests begun and edits made so far

vars == <<leadRows, lead, customerRows, customer, contactRows, contact,
          links, history, notifications, req, begun, edits>>

-------------------------------------------------------------------------------
(* Rows                                                                    *)

Stages     == OpenStages \cup {"won", "lost"}
OptEmail   == Emails \cup {Null}
OptPhone   == Phones \cup {Null}
OptCustomer == Customers \cup {Null}

LeadRow == [stage : Stages,
            lost_reason : BOOLEAN,   \* TRUE when the column is not NULL
            email : OptEmail, phone : OptPhone,
            customer : OptCustomer,
            requires_manual_customer_selection : BOOLEAN,
            deleted : BOOLEAN]

CustomerRow == [email : OptEmail, phone : OptPhone, deleted : BOOLEAN]

ContactRow == [customer : OptCustomer, email : OptEmail, phone : OptPhone,
               deleted : BOOLEAN]

HistoryRow == [from_stage : Stages \cup {Null}, to_stage : Stages]

NewLead_NoStage(e, p) == \* mutant: the stage column has no default
    [stage |-> Null, lost_reason |-> FALSE, email |-> e, phone |-> p,
     customer |-> Null, requires_manual_customer_selection |-> FALSE,
     deleted |-> FALSE]

NewLead(e, p) ==
    [stage |-> "new", lost_reason |-> FALSE, email |-> e, phone |-> p,
     customer |-> Null, requires_manual_customer_selection |-> FALSE,
     deleted |-> FALSE]

NewCustomer(e, p) == [email |-> e, phone |-> p, deleted |-> FALSE]

NewContact(c, e, p) ==
    [customer |-> c, email |-> e, phone |-> p, deleted |-> FALSE]

(* Past leads have customers of their own, which are active.               *)
ASSUME PastAssumption ==
    /\ Past \in [Leads -> OptCustomer]
    /\ \A l, m \in Leads : Past[l] = Past[m] /\ Past[l] # Null => l = m
    /\ PastCustomer \in [Customers -> CustomerRow]
    /\ \A c \in Customers : ~PastCustomer[c].deleted

(* What a manager's default queryset returns: rows that are not deleted.   *)
ActiveLeads     == {l \in leadRows : ~lead[l].deleted}
ActiveCustomers == {c \in customerRows : ~customer[c].deleted}
ActiveContacts  == {k \in contactRows : ~contact[k].deleted}

(* Normalised email or phone equal, a missing or empty value never.        *)
SameParty(a, b) ==
    \/ a.email # Null /\ a.email = b.email
    \/ a.phone \notin Digitless \cup {Null} /\ a.phone = b.phone

-------------------------------------------------------------------------------
(* Requests.  pc: "begun" the lead is read and the guards have passed;     *)
(* "scanning" the customers are searched; "scanned" the contacts too.      *)

Request == [pc : {"idle", "begun", "scanning", "scanned"},
            op : {"none", "transition", "resolve"},
            lead : Leads \cup {Null},
            from_stage : Stages \cup {Null}, to_stage : Stages \cup {Null},
            lost_reason : BOOLEAN,
            email : OptEmail, phone : OptPhone,
            customer_id : OptCustomer,
            matched_ids : SUBSET Customers]

Idle == [pc |-> "idle", op |-> "none", lead |-> Null,
         from_stage |-> Null, to_stage |-> Null, lost_reason |-> FALSE,
         email |-> Null, phone |-> Null, customer_id |-> Null,
         matched_ids |-> {}]

Finish(r) == req' = [req EXCEPT ![r] = Idle]

(* A Won transition holds the lead's row lock from its UPDATE to its end.  *)
HoldsRow(r, l) ==
    /\ req[r].op = "transition"
    /\ req[r].pc \in {"scanning", "scanned"}
    /\ req[r].lead = l

RowFree(l) == \A r \in Requests : ~HoldsRow(r, l)

(* A new request may arrive while others are still being served.           *)
Arrives == Overlap \/ \A r \in Requests : req[r].pc = "idle"

Linked(l) == \E c \in Customers : <<c, l>> \in links

-------------------------------------------------------------------------------
(* LeadService.create_lead: the row, its first history row and the notice  *)
(* to its owner, in one transaction.                                       *)
CreateLead(l, e, p) ==
    /\ Arrives
    /\ l \notin leadRows
    /\ e # Null \/ p # Null
    /\ leadRows' = leadRows \cup {l}
    /\ lead' = [lead EXCEPT ![l] = NewLead(e, p)]
    /\ history' = [history EXCEPT ![l] =
                     <<[from_stage |-> Null, to_stage |-> "new"]>>]
    /\ notifications' = [notifications EXCEPT ![l] = 1]
    /\ UNCHANGED <<customerRows, customer, contactRows, contact, links, req,
                   begun, edits>>

Start(r) ==
    /\ req[r].pc = "idle"
    /\ Arrives
    /\ begun < MaxRequests
    /\ begun' = begun + 1

(* Won is terminal.                                                        *)
MayMove_Always(l) == l \in Leads \* mutant: the guard on Won is dropped
MayMove(l) == lead[l].stage # "won"

(* lost_reason after the move: given, cleared on reactivation, or kept.    *)
NextReason_Kept(l, to, reason) == \* mutant: not cleared on reactivation
    \/ to = "lost" /\ reason
    \/ to # "lost" /\ lead[l].lost_reason
NextReason(l, to, reason) ==
    \/ to = "lost" /\ reason
    \/ to # "lost" /\ lead[l].stage # "lost" /\ lead[l].lost_reason

(* The copy of the lead a transition works on; lost_reason is the value    *)
(* its save will write.                                                    *)
TransitionRequest(l, to, reason) ==
    [pc |-> "begun", op |-> "transition", lead |-> l,
     from_stage |-> lead[l].stage, to_stage |-> to,
     lost_reason |-> NextReason(l, to, reason),
     email |-> lead[l].email, phone |-> lead[l].phone,
     customer_id |-> Null, matched_ids |-> {}]

(* POST .../stage-transition/: read the lead, check the rules on the copy. *)
BeginTransition(r, l, to, reason) ==
    /\ Start(r)
    /\ l \in ActiveLeads
    /\ MayMove(l)
    /\ to = "lost" => reason
    /\ req' = [req EXCEPT ![r] = TransitionRequest(l, to, reason)]
    /\ UNCHANGED <<leadRows, lead, customerRows, customer, contactRows,
                   contact, links, history, notifications, edits>>

(* The history row of a transition, from the copy the request read.        *)
StageRow_Swapped(r) == \* mutant: from and to exchanged
    [from_stage |-> req[r].to_stage, to_stage |-> req[r].from_stage]
StageRow_Late(r) == \* mutant: from_stage read after lead.stage is assigned
    [from_stage |-> req[r].to_stage, to_stage |-> req[r].to_stage]
StageRow(r) == [from_stage |-> req[r].from_stage, to_stage |-> req[r].to_stage]

(* lead.save(update_fields = stage, lost_reason) and the save of the       *)
(* outcome: what a transition leaves in the row that is there by then.     *)
SavedLead(r, cust, manual) ==
    [lead[req[r].lead] EXCEPT !.stage = req[r].to_stage,
                              !.lost_reason = req[r].lost_reason,
                              !.customer = cust,
                              !.requires_manual_customer_selection = manual]

(* What every committed transition leaves behind: the lead's row, a        *)
(* history row, a notification to the owner.                               *)
Transitioned(r, cust, manual) ==
    LET l == req[r].lead IN
    /\ lead' = [lead EXCEPT ![l] = SavedLead(r, cust, manual)]
    /\ history' = [history EXCEPT ![l] = Append(history[l], StageRow(r))]
    /\ notifications' = [notifications EXCEPT ![l] = notifications[l] + 1]
    /\ Finish(r)

(* A transition to any stage but Won: no search, so nothing can come       *)
(* between its UPDATE and its commit.                                      *)
CommitStage(r) ==
    LET l == req[r].lead IN
    /\ req[r].pc = "begun" /\ req[r].op = "transition"
    /\ req[r].to_stage # "won"
    /\ RowFree(l)
    /\ Transitioned(r, lead[l].customer,
                    lead[l].requires_manual_customer_selection)
    /\ UNCHANGED <<leadRows, customerRows, customer, contactRows, contact,
                   links, begun, edits>>

(* find_matching_customer_ids, first loop: the active customers.           *)
CustomerMatches_ByEmail(r) == \* mutant: the phone comparison is left out
    {c \in ActiveCustomers : req[r].email # Null /\ customer[c].email = req[r].email}
CustomerMatches(r) == {c \in ActiveCustomers : SameParty(req[r], customer[c])}

Searched(r, pc, ids) == [req[r] EXCEPT !.pc = pc, !.matched_ids = ids]

(* Before it a Won transition updates its lead row and so locks it; a      *)
(* manual resolution holds nothing.                                        *)
ScanCustomers(r) ==
    /\ req[r].pc = "begun"
    /\ \/ req[r].op = "resolve"
       \/ req[r].to_stage = "won" /\ RowFree(req[r].lead)
    /\ req' = [req EXCEPT ![r] = Searched(r, "scanning", CustomerMatches(r))]
    /\ UNCHANGED <<leadRows, lead, customerRows, customer, contactRows,
                   contact, links, history, notifications, begun, edits>>

(* find_matching_customer_ids, second loop: the customers of the active    *)
(* contacts, whatever the state of those customers.                        *)
ContactMatches(r) ==
    {contact[k].customer : k \in {j \in ActiveContacts : SameParty(req[r], contact[j])}}

ScanContacts(r) ==
    /\ req[r].pc = "scanning"
    /\ req' = [req EXCEPT ![r] = Searched(r, "scanned", req[r].matched_ids \cup ContactMatches(r))]
    /\ UNCHANGED <<leadRows, lead, customerRows, customer, contactRows,
                   contact, links, history, notifications, begun, edits>>

(* UNIQUE(lead_id) on customer_lead_links.                                 *)
InsertLink_Twice(c, l) == links' = links \cup {<<c, l>>} \* mutant: not UNIQUE
InsertLink(c, l) ==
    /\ ~Linked(l)
    /\ links' = links \cup {<<c, l>>}

WinNewCustomer_NotAtomic(r, c) == \* mutant: a refused link keeps the customer
    /\ req[r].pc = "scanned" /\ req[r].op = "transition"
    /\ req[r].matched_ids = {}
    /\ c \notin customerRows
    /\ customerRows' = customerRows \cup {c}
    /\ customer' = [customer EXCEPT ![c] = NewCustomer(req[r].email, req[r].phone)]
    /\ IF Linked(req[r].lead)
       THEN Finish(r) /\ UNCHANGED <<lead, links, history, notifications>>
       ELSE InsertLink(c, req[r].lead) /\ Transitioned(r, c, FALSE)
    /\ UNCHANGED <<leadRows, contactRows, contact, begun, edits>>

(* resolve_won_lead, no match: create the customer from the copy's data.   *)
WinNewCustomer(r, c) ==
    /\ req[r].pc = "scanned" /\ req[r].op = "transition"
    /\ req[r].matched_ids = {}
    /\ c \notin customerRows
    /\ customerRows' = customerRows \cup {c}
    /\ customer' = [customer EXCEPT ![c] = NewCustomer(req[r].email, req[r].phone)]
    /\ InsertLink(c, req[r].lead)
    /\ Transitioned(r, c, FALSE)
    /\ UNCHANGED <<leadRows, contactRows, contact, begun, edits>>

(* resolve_won_lead, one match: Customer.objects.get, then link.           *)
WinExistingCustomer(r, c) ==
    /\ req[r].pc = "scanned" /\ req[r].op = "transition"
    /\ req[r].matched_ids = {c}
    /\ c \in ActiveCustomers
    /\ InsertLink(c, req[r].lead)
    /\ Transitioned(r, c, FALSE)
    /\ UNCHANGED <<leadRows, customerRows, customer, contactRows, contact, begun, edits>>

WinManual_NoFlag(r) == \* mutant: the flag is not set
    LET l == req[r].lead IN
    /\ req[r].pc = "scanned" /\ req[r].op = "transition"
    /\ \E c, d \in req[r].matched_ids : c # d
    /\ Transitioned(r, lead[l].customer, FALSE)
    /\ UNCHANGED <<leadRows, customerRows, customer, contactRows, contact,
                   links, begun, edits>>

(* resolve_won_lead, several matches: Won, left to a human.                *)
WinManual(r) ==
    LET l == req[r].lead IN
    /\ req[r].pc = "scanned" /\ req[r].op = "transition"
    /\ \E c, d \in req[r].matched_ids : c # d
    /\ Transitioned(r, lead[l].customer, TRUE)
    /\ UNCHANGED <<leadRows, customerRows, customer, contactRows, contact,
                   links, begun, edits>>

(* The copy of the lead a manual resolution works on.                      *)
ResolveRequest(l, c) ==
    [pc |-> "begun", op |-> "resolve", lead |-> l,
     from_stage |-> Null, to_stage |-> Null, lost_reason |-> FALSE,
     email |-> lead[l].email, phone |-> lead[l].phone,
     customer_id |-> c, matched_ids |-> {}]

(* POST .../resolve-customer/: the flag is checked on the copy read here.  *)
BeginResolve(r, l, c) ==
    /\ Start(r)
    /\ l \in ActiveLeads
    /\ lead[l].requires_manual_customer_selection
    /\ req' = [req EXCEPT ![r] = ResolveRequest(l, c)]
    /\ UNCHANGED <<leadRows, lead, customerRows, customer, contactRows,
                   contact, links, history, notifications, edits>>

(* lead.save(update_fields = customer, flag).                              *)
ResolvedLead(l, c) ==
    [lead[l] EXCEPT !.customer = c, !.requires_manual_customer_selection = FALSE]

(* resolve_manual_selection after its search: link the chosen candidate    *)
(* and clear the flag.                                                     *)
CommitResolve(r) ==
    LET l == req[r].lead
        c == req[r].customer_id IN
    /\ req[r].pc = "scanned" /\ req[r].op = "resolve"
    /\ c \in req[r].matched_ids \cap ActiveCustomers
    /\ RowFree(l)
    /\ InsertLink(c, l)
    /\ lead' = [lead EXCEPT ![l] = ResolvedLead(l, c)]
    /\ Finish(r)
    /\ UNCHANGED <<leadRows, customerRows, customer, contactRows, contact,
                   history, notifications, begun, edits>>

(* The error paths after the search: DoesNotExist on the matched customer, *)
(* a candidate that does not match, IntegrityError on the link.  All of    *)
(* them roll the whole transaction back.                                   *)
Refused(r) ==
    \/ /\ req[r].op = "transition"
       /\ \E c \in req[r].matched_ids :
             req[r].matched_ids = {c} /\ c \notin ActiveCustomers
    \/ /\ req[r].op = "resolve"
       /\ req[r].customer_id \notin req[r].matched_ids \cap ActiveCustomers
    \/ /\ Linked(req[r].lead)
       /\ ~ \E c, d \in req[r].matched_ids : c # d /\ req[r].op = "transition"

Reject(r) ==
    /\ req[r].pc = "scanned"
    /\ Refused(r)
    /\ Finish(r)
    /\ UNCHANGED <<leadRows, lead, customerRows, customer, contactRows,
                   contact, links, history, notifications, begun, edits>>

(* The worker dies, the connection drops, or PostgreSQL picks the          *)
(* transaction as a deadlock victim: rolled back at any point.             *)
Crash(r) ==
    /\ req[r].pc # "idle"
    /\ Finish(r)
    /\ UNCHANGED <<leadRows, lead, customerRows, customer, contactRows,
                   contact, links, history, notifications, begun, edits>>

-------------------------------------------------------------------------------
(* Edits                                                                   *)

(* The columns a PATCH and a DELETE or restore write, in any of the tables. *)
WithContactData(row, e, p) == [row EXCEPT !.email = e, !.phone = p]
Deleted(row)  == [row EXCEPT !.deleted = TRUE]
Restored(row) == [row EXCEPT !.deleted = FALSE]

Edit == Arrives /\ edits < MaxEdits /\ edits' = edits + 1

(* PATCH of a lead's email and phone, under leads_email_or_phone_required. *)
PatchLead(l, e, p) ==
    /\ Edit
    /\ l \in ActiveLeads /\ RowFree(l)
    /\ e # Null \/ p # Null
    /\ lead' = [lead EXCEPT ![l] = WithContactData(lead[l], e, p)]
    /\ UNCHANGED <<leadRows, customerRows, customer, contactRows, contact,
                   links, history, notifications, req, begun>>

(* DELETE of a lead and its restore.                                       *)
DeleteLead(l) ==
    /\ Edit
    /\ l \in ActiveLeads /\ RowFree(l)
    /\ lead' = [lead EXCEPT ![l] = Deleted(lead[l])]
    /\ UNCHANGED <<leadRows, customerRows, customer, contactRows, contact,
                   links, history, notifications, req, begun>>

RestoreLead(l) ==
    /\ Edit
    /\ l \in leadRows \ ActiveLeads /\ RowFree(l)
    /\ lead' = [lead EXCEPT ![l] = Restored(lead[l])]
    /\ UNCHANGED <<leadRows, customerRows, customer, contactRows, contact,
                   links, history, notifications, req, begun>>

(* PATCH, DELETE and restore of a customer.                                *)
PatchCustomer(c, e, p) ==
    /\ c \in ActiveCustomers
    /\ customer' = [customer EXCEPT ![c] = WithContactData(customer[c], e, p)]

DeleteCustomer(c) ==
    /\ c \in ActiveCustomers
    /\ customer' = [customer EXCEPT ![c] = Deleted(customer[c])]

RestoreCustomer(c) ==
    /\ c \in customerRows \ ActiveCustomers
    /\ customer' = [customer EXCEPT ![c] = Restored(customer[c])]

EditCustomer(c) ==
    /\ Edit
    /\ \/ \E e \in OptEmail, p \in OptPhone : PatchCustomer(c, e, p)
       \/ DeleteCustomer(c)
       \/ RestoreCustomer(c)
    /\ UNCHANGED <<leadRows, lead, customerRows, contactRows, contact, links,
                   history, notifications, req, begun>>

(* POST of a contact on an active customer; PATCH, DELETE and restore of a *)
(* contact.  Only restore ignores whether the customer is active.          *)
CreateContact(k, c, e, p) ==
    /\ k \notin contactRows
    /\ c \in ActiveCustomers
    /\ contactRows' = contactRows \cup {k}
    /\ contact' = [contact EXCEPT ![k] = NewContact(c, e, p)]

PatchContact(k, e, p) ==
    /\ k \in ActiveContacts /\ contact[k].customer \in ActiveCustomers
    /\ contact' = [contact EXCEPT ![k] = WithContactData(contact[k], e, p)]
    /\ UNCHANGED contactRows

RemoveContact(k) ==
    /\ k \in ActiveContacts /\ contact[k].customer \in ActiveCustomers
    /\ contact' = [contact EXCEPT ![k] = Deleted(contact[k])]
    /\ UNCHANGED contactRows

RestoreContact(k) ==
    /\ k \in contactRows \ ActiveContacts
    /\ contact' = [contact EXCEPT ![k] = Restored(contact[k])]
    /\ UNCHANGED contactRows

EditContact(k) ==
    /\ Edit
    /\ \/ \E c \in Customers, e \in OptEmail, p \in OptPhone : CreateContact(k, c, e, p)
       \/ \E e \in OptEmail, p \in OptPhone : PatchContact(k, e, p)
       \/ RemoveContact(k)
       \/ RestoreContact(k)
    /\ UNCHANGED <<leadRows, lead, customerRows, customer, links, history,
                   notifications, req, begun>>

-------------------------------------------------------------------------------
(* Some leads were won before the behaviour starts: Past names the         *)
(* customer each of them was the first lead of, Null for every other lead. *)
PastLead(l) ==
    IF Past[l] = Null THEN NewLead(Null, Null)
    ELSE [NewLead(PastCustomer[Past[l]].email, PastCustomer[Past[l]].phone)
             EXCEPT !.stage = "won", !.customer = Past[l]]

Init ==
    /\ leadRows = {l \in Leads : Past[l] # Null}
    /\ lead = [l \in Leads |-> PastLead(l)]
    /\ customerRows = {Past[l] : l \in leadRows}
    /\ customer = [c \in Customers |-> PastCustomer[c]]
    /\ contactRows = {} /\ contact = [k \in Contacts |-> NewContact(Null, Null, Null)]
    /\ links = {<<Past[l], l>> : l \in leadRows}
    /\ history = [l \in Leads |->
                    IF Past[l] = Null THEN <<>>
                    ELSE <<[from_stage |-> Null, to_stage |-> "new"],
                           [from_stage |-> "new", to_stage |-> "won"]>>]
    /\ notifications = [l \in Leads |-> IF Past[l] = Null THEN 0 ELSE 2]
    /\ req = [r \in Requests |-> Idle]
    /\ begun = 0 /\ edits = 0

(* The steps a request makes on its own, once begun.                       *)
Step(r) ==
    \/ CommitStage(r)
    \/ ScanCustomers(r)
    \/ ScanContacts(r)
    \/ \E c \in Customers : WinNewCustomer(r, c)
    \/ \E c \in Customers : WinExistingCustomer(r, c)
    \/ WinManual(r)
    \/ CommitResolve(r)
    \/ Reject(r)

Begin(r) ==
    \E l \in Leads :
       \/ \E to \in Stages, reason \in BOOLEAN : BeginTransition(r, l, to, reason)
       \/ \E c \in Customers : BeginResolve(r, l, c)

EditLead(l) ==
    \/ \E e \in OptEmail, p \in OptPhone : CreateLead(l, e, p)
    \/ \E e \in OptEmail, p \in OptPhone : PatchLead(l, e, p)
    \/ DeleteLead(l)
    \/ RestoreLead(l)

Next ==
    \/ \E r \in Requests : Begin(r) \/ Step(r) \/ Crash(r)
    \/ \E l \in Leads : EditLead(l)
    \/ \E c \in Customers : EditCustomer(c)
    \/ \E k \in Contacts : EditContact(k)

Spec == Init /\ [][Next]_vars

-------------------------------------------------------------------------------
(* Properties                                                              *)

(* Every column, row set and request stays within its type.                *)
TypeOK ==
    /\ leadRows \subseteq Leads /\ lead \in [Leads -> LeadRow]
    /\ customerRows \subseteq Customers /\ customer \in [Customers -> CustomerRow]
    /\ contactRows \subseteq Contacts /\ contact \in [Contacts -> ContactRow]
    /\ links \subseteq Customers \X Leads
    /\ history \in [Leads -> Seq(HistoryRow)]
    /\ notifications \in [Leads -> Nat]
    /\ req \in [Requests -> Request]
    /\ begun \in Nat /\ edits \in Nat

(* leads.customer_id and customer_lead_links, two records of one fact, are *)
(* written by different statements and never disagree: a lead names a      *)
(* customer exactly when the link row exists, and no lead has two links.   *)
LinkAgreesWithLead ==
    \A l \in Leads, c \in Customers :
        <<c, l>> \in links <=> lead[l].customer = c

(* A customer exists only because some lead was won for it: the rollback   *)
(* of a failed or losing Won transition leaves no customer row behind.     *)
NoOrphanCustomer ==
    \A c \in customerRows : \E l \in leadRows : <<c, l>> \in links

(* A lead has a Won row in its history exactly when the winning had an     *)
(* outcome: a customer, or the flag that asks a human to choose one.       *)
WonRow(h) == \E i \in 1..Len(h) : h[i].to_stage = "won"

WonHasOutcome ==
    \A l \in Leads :
        WonRow(history[l]) <=> \/ lead[l].customer # Null
                               \/ lead[l].requires_manual_customer_selection

(* lost_reason is set exactly while the lead is Lost, even though both     *)
(* columns are written from a copy that may be out of date.                *)
ReasonIffLost ==
    \A l \in Leads : lead[l].lost_reason <=> lead[l].stage = "lost"

(* The newest history row names the lead's stage and every row has its     *)
(* notification: stage, history and notice are committed together.         *)
HistoryEndsAtStage ==
    \A l \in leadRows :
        /\ history[l] # <<>>
        /\ history[l][Len(history[l])].to_stage = lead[l].stage
        /\ notifications[l] = Len(history[l])

(* The module keeps the promise of CustomerAssignment: a lead is given a   *)
(* customer at most once and keeps it, and customers come into being only  *)
(* that way.                                                               *)
Assignment == INSTANCE CustomerAssignment
                 WITH assigned <- [l \in Leads |-> lead[l].customer],
                      known <- customerRows
ImplementsAssignment == Assignment!Spec

(* Business Rules 5.2: Won is terminal and irreversible.                   *)
WonIsTerminal ==
    [][\A l \in Leads : lead[l].stage = "won" => lead'[l].stage = "won"]_vars

(* Every history row starts where the row before it ended.                 *)
HistoryIsAChain ==
    \A l \in Leads : \A i \in 2..Len(history[l]) :
        history[l][i].from_stage = history[l][i - 1].to_stage

(* A lead that asks for a manual selection is Won and not yet linked, so   *)
(* the selection it asks for can still be made.                            *)
ManualMeansUnlinked ==
    \A l \in Leads : lead[l].requires_manual_customer_selection
                       => lead[l].stage = "won" /\ lead[l].customer = Null

(* A new customer is never the same party as a customer or a contact that  *)
(* is already active.                                                      *)
Parties == {customer[d] : d \in ActiveCustomers} \cup {contact[k] : k \in ActiveContacts}

NewCustomerIsNew ==
    [][\A c \in customerRows' \ customerRows : \A party \in Parties :
          ~SameParty(customer'[c], party)]_vars
===============================================================================
