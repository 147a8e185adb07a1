---------------------------- MODULE IncidentDesk -----------------------------
(***************************************************************************)
(* What people do with the briefs and incidents that RrtBriefs writes: the *)
(* endpoints of rrt_briefs and incidents, the push of a brief to Jira and  *)
(* the investigation of an incident in the background of the API process.  *)
(***************************************************************************)
EXTENDS RrtBriefs

CONSTANTS
  Request,      \* concurrent push-to-jira requests
  Investigator, \* concurrent background investigations
  MaxEdits

VARIABLES
  pushes,       \* push requests in progress
  tickets,      \* tickets created in Jira, by brief; overlapped and lost are history
  inquiries,    \* background investigations
  stuck,        \* history: incidents whose investigation died, or set by hand
  edits

deskVars == <<pushes, tickets, inquiries, stuck, edits>>
vars == <<briefVars, deskVars>>

IdlePush == [pc |-> "idle"]
Push == {IdlePush} \cup
  [pc : {"create", "store"}, brief : Nat, ticket : Nat, overlapped : BOOLEAN]
Ticket == [brief : Nat, overlapped : BOOLEAN, lost : BOOLEAN]

IdleInquiry == [pc |-> "idle"]
Inquiry == {IdleInquiry} \cup [pc : {"queued", "running"}, incident : Nat]

(* Types; what is pushed, held or investigated is a row or a ticket.        *)
TypeOK ==
  /\ BriefTypeOK
  /\ pushes \in [Request -> Push]
  /\ tickets \in Seq(Ticket)
  /\ inquiries \in [Investigator -> Inquiry]
  /\ stuck \subseteq Nat /\ edits \in Nat
  /\ \A r \in Request :
       /\ pushes[r].pc # "idle" => pushes[r].brief \in DOMAIN briefs
       /\ pushes[r].pc = "store" => pushes[r].ticket \in DOMAIN tickets
  /\ \A k \in DOMAIN tickets : tickets[k].brief \in DOMAIN briefs
  /\ \A b \in DOMAIN briefs : briefs[b].ticket \in {0} \cup DOMAIN tickets
  /\ \A v \in Investigator :
       inquiries[v].pc # "idle" => inquiries[v].incident \in DOMAIN incidents

Init ==
  /\ BriefInit
  /\ pushes = [r \in Request |-> IdlePush]
  /\ tickets = <<>>
  /\ inquiries = [v \in Investigator |-> IdleInquiry]
  /\ stuck = {}
  /\ edits = 0

Stored(b) == briefs[b].status \notin {"unsaved", "deleted"}

Edit == edits < MaxEdits /\ edits' = edits + 1

NoTask == UNCHANGED <<now, tasks, jobs, posted, unheard, alerted>>

-----------------------------------------------------------------------------
(* Briefs: status changes, deletion, push-to-jira                           *)

StatusSet(row, status) ==
  [row EXCEPT !.status = status,
              !.resolved = IF status = "resolved" /\ @ = 0 THEN now ELSE @]

(* PATCH and POST update; the latter also posts to the owner's team.        *)
SetBrief(b) ==
  /\ Stored(b)
  /\ Edit
  /\ \E status \in {"open", "investigating", "resolved"} :
       briefs' = [briefs EXCEPT ![b] = StatusSet(@, status)]
  /\ NoTask /\ UNCHANGED <<incidents, faults, pushes, tickets, inquiries, stuck>>

DeleteBrief(b) ==
  /\ Stored(b)
  /\ Edit
  /\ briefs' = [briefs EXCEPT ![b] = [NoBrief EXCEPT !.status = "deleted"]]
  /\ NoTask /\ UNCHANGED <<incidents, faults, pushes, tickets, inquiries, stuck>>

Pushing(b) == {r \in Request : pushes[r].pc # "idle" /\ pushes[r].brief = b}

(* Mutant: the existing ticket is not looked for.                           *)
MutStartPush(r, b) ==
  /\ pushes[r].pc = "idle"
  /\ Stored(b)
  /\ Edit
  /\ pushes' = [q \in Request |->
       IF q = r THEN [pc |-> "create", brief |-> b, ticket |-> 0,
                      overlapped |-> Pushing(b) # {}]
       ELSE IF q \in Pushing(b) THEN [pushes[q] EXCEPT !.overlapped = TRUE]
       ELSE pushes[q]]
  /\ NoTask /\ UNCHANGED <<briefs, incidents, faults, tickets, inquiries, stuck>>

(* The brief is read; one that has a ticket already is answered with it.    *)
StartPush(r, b) ==
  /\ pushes[r].pc = "idle"
  /\ Stored(b)
  /\ briefs[b].ticket = 0
  /\ Edit
  /\ pushes' = [q \in Request |->
       IF q = r THEN [pc |-> "create", brief |-> b, ticket |-> 0,
                      overlapped |-> Pushing(b) # {}]
       ELSE IF q \in Pushing(b) THEN [pushes[q] EXCEPT !.overlapped = TRUE]
       ELSE pushes[q]]
  /\ NoTask /\ UNCHANGED <<briefs, incidents, faults, tickets, inquiries, stuck>>

CreateTicket(r) ==
  /\ pushes[r].pc = "create"
  /\ tickets' = Append(tickets,
       [brief |-> pushes[r].brief, overlapped |-> FALSE, lost |-> FALSE])
  /\ pushes' = [pushes EXCEPT ![r].pc = "store", ![r].ticket = Len(tickets) + 1]
  /\ NoTask /\ UNCHANGED <<briefs, incidents, faults, inquiries, stuck, edits>>

(* No Jira integration, or Jira refuses; or the request dies, and a ticket  *)
(* it made is known to nobody.                                              *)
FailPush(r) ==
  /\ pushes[r].pc # "idle"
  /\ Fault
  /\ tickets' = IF pushes[r].pc = "store"
                THEN [tickets EXCEPT ![pushes[r].ticket].lost = TRUE] ELSE tickets
  /\ pushes' = [pushes EXCEPT ![r] = IdlePush]
  /\ NoTask /\ UNCHANGED <<briefs, incidents, inquiries, stuck, edits>>

StoreTicket(r) ==
  LET push == pushes[r] IN
  /\ push.pc = "store"
  /\ briefs' = IF Stored(push.brief)
               THEN [briefs EXCEPT ![push.brief].ticket = push.ticket] ELSE briefs
  /\ tickets' = [tickets EXCEPT ![push.ticket].overlapped = push.overlapped]
  /\ pushes' = [pushes EXCEPT ![r] = IdlePush]
  /\ NoTask /\ UNCHANGED <<incidents, faults, inquiries, stuck, edits>>

-----------------------------------------------------------------------------
(* Incidents: status changes, deletion, investigation                       *)

(* PATCH may set any status, also one that only an investigation gives.     *)
SetIncident(i) ==
  /\ Exists(i)
  /\ Edit
  /\ \E status \in IncidentStatus \ {"deleted"} :
       /\ incidents' = [incidents EXCEPT ![i] = StatusSet(@, status)]
       /\ stuck' = IF status = "analysing" THEN stuck \cup {i} ELSE stuck
  /\ NoTask /\ UNCHANGED <<briefs, faults, pushes, tickets, inquiries>>

DeleteIncident(i) ==
  /\ Exists(i)
  /\ Edit
  /\ incidents' = [incidents EXCEPT ![i].status = "deleted"]
  /\ NoTask /\ UNCHANGED <<briefs, faults, pushes, tickets, inquiries, stuck>>

(* POST investigate clears the old result and starts a background task.     *)
Reinvestigate(v, i) ==
  /\ inquiries[v].pc = "idle"
  /\ Exists(i)
  /\ Edit
  /\ incidents' = [incidents EXCEPT ![i].status = "investigating",
                                    ![i].cause = "cleared"]
  /\ inquiries' = [inquiries EXCEPT ![v] = [pc |-> "queued", incident |-> i]]
  /\ NoTask /\ UNCHANGED <<briefs, faults, pushes, tickets, stuck>>

StartInquiry(v) ==
  LET i == inquiries[v].incident IN
  /\ inquiries[v].pc = "queued"
  /\ IF Exists(i)
     THEN /\ incidents' = [incidents EXCEPT ![i].status = "analysing"]
          /\ inquiries' = [inquiries EXCEPT ![v].pc = "running"]
     ELSE /\ UNCHANGED incidents
          /\ inquiries' = [inquiries EXCEPT ![v] = IdleInquiry]
  /\ NoTask /\ UNCHANGED <<briefs, faults, pushes, tickets, stuck, edits>>

(* Mutant: after an exception only the text is stored, not the status.      *)
MutConclude(v) ==
  LET i == inquiries[v].incident IN
  /\ inquiries[v].pc = "running"
  /\ incidents' = IF Exists(i)
       THEN [incidents EXCEPT ![i].cause = "given"] ELSE incidents
  /\ inquiries' = [inquiries EXCEPT ![v] = IdleInquiry]
  /\ NoTask /\ UNCHANGED <<briefs, faults, pushes, tickets, stuck, edits>>

(* The result, or the text of an exception, and the status for review.      *)
Conclude(v) ==
  LET i == inquiries[v].incident IN
  /\ inquiries[v].pc = "running"
  /\ incidents' = IF Exists(i)
       THEN [incidents EXCEPT ![i].status = "investigating", ![i].cause = "given"]
       ELSE incidents
  /\ inquiries' = [inquiries EXCEPT ![v] = IdleInquiry]
  /\ NoTask /\ UNCHANGED <<briefs, faults, pushes, tickets, stuck, edits>>

(* The API process stops, or the last commit fails.                         *)
AbandonInquiry(v) ==
  /\ inquiries[v].pc # "idle"
  /\ Fault
  /\ stuck' = stuck \cup {inquiries[v].incident}
  /\ inquiries' = [inquiries EXCEPT ![v] = IdleInquiry]
  /\ NoTask /\ UNCHANGED <<briefs, incidents, pushes, tickets, edits>>

-----------------------------------------------------------------------------
DeskStep ==
  \/ \E b \in DOMAIN briefs : SetBrief(b) \/ DeleteBrief(b)
  \/ \E r \in Request :
       \/ \E b \in DOMAIN briefs : StartPush(r, b)
       \/ CreateTicket(r) \/ FailPush(r) \/ StoreTicket(r)
  \/ \E i \in DOMAIN incidents : SetIncident(i) \/ DeleteIncident(i)
  \/ \E v \in Investigator :
       \/ \E i \in DOMAIN incidents : Reinvestigate(v, i)
       \/ StartInquiry(v) \/ Conclude(v) \/ AbandonInquiry(v)

Next == (BriefStep /\ UNCHANGED deskVars) \/ DeskStep

Spec == Init /\ [][Next]_vars

-----------------------------------------------------------------------------
Held(k) == \E r \in Request : pushes[r].pc = "store" /\ pushes[r].ticket = k

(* A ticket in Jira that its brief does not name was made by a request that *)
(* died or that overlapped another push of the brief: "If a ticket was      *)
(* already created for this brief, returns the existing key".               *)
OrphansExplained ==
  \A k \in DOMAIN tickets :
    \/ Held(k) \/ tickets[k].overlapped \/ tickets[k].lost
    \/ briefs[tickets[k].brief].status = "deleted"
    \/ briefs[tickets[k].brief].ticket = k

InquiryOf(i, pcs) ==
  \E v \in Investigator : inquiries[v].pc \in pcs /\ inquiries[v].incident = i

(* An incident whose result was cleared, or that is being analysed, has an  *)
(* investigation under way, unless one of it died or a user set the status. *)
InquiryExplained ==
  \A i \in DOMAIN incidents :
    /\ Exists(i)
    /\ i \notin stuck
    => /\ incidents[i].cause = "cleared" => InquiryOf(i, {"queued", "running"})
       /\ incidents[i].status = "analysing" => InquiryOf(i, {"running"})
=============================================================================
