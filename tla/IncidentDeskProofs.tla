-------------------------- MODULE IncidentDeskProofs --------------------------
(***************************************************************************)
(* Proofs about RrtBriefs and IncidentDesk, for any number of workers,     *)
(* teams, requests, investigations, briefs and incidents.                  *)
(*                                                                         *)
(* Until a brief is saved, one job alone writes it, and that job knows what*)
(* was posted; the incidents a job did not find cannot become recent; and a*)
(* ticket in the hands of a push is named by no brief, while pushes of one *)
(* brief know of each other.                                               *)
(***************************************************************************)
EXTENDS IncidentDesk, TLAPS

SendingPc == {"deliver", "bot", "save"}

Sending(w) == jobs[w].pc \in SendingPc

(* The job has posted to channels p, and to those in u without being told.  *)
Known(job, p, u) ==
  /\ u \subseteq p
  /\ job.sent = p \ u
  /\ p \cap job.left = {}
  /\ job.pc \in {"deliver", "bot"} => p \subseteq Team
  /\ job.pc = "bot" => job.sent = {}

(* A brief that is being delivered is unsaved, in the hands of one job, and *)
(* posted where the job thinks, but for the posts it was not told of.       *)
DeliveryKnown ==
  \A w \in Worker :
    Sending(w) =>
      /\ briefs[jobs[w].id].status = "unsaved"
      /\ \A v \in Worker \ {w} : Sending(v) => jobs[v].id # jobs[w].id
      /\ Known(jobs[w], posted[jobs[w].id], unheard[jobs[w].id])

ChannelsInv == DeliveryKnown /\ ChannelsTruthful

(* What a job did not find when it looked is not recent when it inserts.     *)
NoneWasRecent ==
  \A w \in Worker :
    jobs[w].pc = "insert" =>
      /\ jobs[w].seen <= Len(incidents)
      /\ \A i \in DOMAIN incidents :
           i <= jobs[w].seen => ~Recent(i, jobs[w].title, jobs[w].detected)

DuplicatesInv == NoneWasRecent /\ DuplicatesOverlap

Active(r) == pushes[r].pc # "idle"

(* A brief that is or was pushed is not one that a job will still save.     *)
PushedIsSaved ==
  /\ \A r \in Request : Active(r) => briefs[pushes[r].brief].status # "unsaved"
  /\ \A k \in DOMAIN tickets : briefs[tickets[k].brief].status # "unsaved"

(* A ticket in the hands of a push is of its brief, and named by none.      *)
HeldUnnamed ==
  \A r \in Request :
    pushes[r].pc = "store" =>
      /\ tickets[pushes[r].ticket].brief = pushes[r].brief
      /\ \A b \in DOMAIN briefs : briefs[b].ticket # pushes[r].ticket
      /\ \A q \in Request \ {r} :
           pushes[q].pc = "store" => pushes[q].ticket # pushes[r].ticket

(* Two pushes of one brief know of each other, and what a brief got while   *)
(* it was being pushed is known to have overlapped.                         *)
OverlapKnown ==
  \A r \in Request :
    Active(r) =>
      /\ \A q \in Request \ {r} :
           Active(q) /\ pushes[q].brief = pushes[r].brief => pushes[r].overlapped
      /\ LET k == briefs[pushes[r].brief].ticket IN k # 0 => tickets[k].overlapped

OrphansInv == PushedIsSaved /\ HeldUnnamed /\ OverlapKnown /\ OrphansExplained

-----------------------------------------------------------------------------
(* Sequences                                                                *)

LEMMA AppendEffect ==
  ASSUME NEW S, NEW s \in Seq(S), NEW e \in S
  PROVE  /\ Append(s, e) \in Seq(S)
         /\ Len(Append(s, e)) = Len(s) + 1
         /\ DOMAIN Append(s, e) = DOMAIN s \cup {Len(s) + 1}
         /\ Len(s) + 1 \notin DOMAIN s
         /\ Append(s, e)[Len(s) + 1] = e
         /\ \A i \in DOMAIN s : Append(s, e)[i] = s[i]
OBVIOUS

LEMMA ReplaceEffect ==
  ASSUME NEW S, NEW s \in Seq(S), NEW i \in DOMAIN s, NEW e \in S
  PROVE  /\ [s EXCEPT ![i] = e] \in Seq(S)
         /\ Len([s EXCEPT ![i] = e]) = Len(s)
         /\ DOMAIN [s EXCEPT ![i] = e] = DOMAIN s
         /\ [s EXCEPT ![i] = e][i] = e
         /\ \A j \in DOMAIN s : j # i => [s EXCEPT ![i] = e][j] = s[j]
OBVIOUS

LEMMA SameDomain ==
  ASSUME NEW S, NEW T, NEW s \in Seq(S), NEW t \in Seq(T), Len(s) = Len(t)
  PROVE  DOMAIN s = DOMAIN t
OBVIOUS

-----------------------------------------------------------------------------
(* What the steps of a brief task do                                        *)

Working == [pc : {"deliver", "bot", "save", "check", "insert"}, task : Task, id : Nat,
            title : Title \cup {FirstLine}, detected : Nat, left : SUBSET Team,
            sent : SUBSET Channel, seen : Nat]

LEMMA WorkingIsJob == Working \subseteq Job
  BY DEF Working, Job

LEMMA JobType ==
  ASSUME BriefTypeOK, NEW w \in Worker, jobs[w].pc # "idle"
  PROVE  jobs[w] \in Working /\ jobs[w].id \in DOMAIN briefs
BY DEF BriefTypeOK, Job, IdleJob, Working

LEMMA IdleType == IdleJob \in Job /\ IdleJob.pc = "idle"
  BY DEF IdleJob, Job

(* Replacing what one worker does.                                          *)
LEMMA JobsType ==
  ASSUME BriefTypeOK, NEW w \in Worker, NEW job \in Job, jobs' = [jobs EXCEPT ![w] = job],
         job.pc # "idle" => job.id \in DOMAIN briefs',
         DOMAIN briefs \subseteq DOMAIN briefs'
  PROVE  /\ jobs' \in [Worker -> Job]
         /\ \A v \in Worker : jobs'[v].pc # "idle" => jobs'[v].id \in DOMAIN briefs'
BY DEF BriefTypeOK

Generated(t, title) ==
  [pc |-> Then(t.targets, {}), task |-> t, id |-> Len(briefs) + 1, title |-> title,
   detected |-> now, left |-> t.targets, sent |-> {}, seen |-> 0]

LEMMA GenerateEffect ==
  ASSUME BriefTypeOK, NEW w \in Worker, Generate(w)
  PROVE  \E t \in tasks, title \in GeneratedTitle :
           /\ tasks' = tasks \ {t}
           /\ t.targets \in SUBSET Team
           /\ Generated(t, title) \in Working
           /\ jobs' = [jobs EXCEPT ![w] = Generated(t, title)]
           /\ briefs' = Append(briefs, NoBrief) /\ NoBrief \in Brief
           /\ posted' = Append(posted, {}) /\ unheard' = Append(unheard, {})
<1>1. PICK t \in tasks, title \in GeneratedTitle :
        /\ tasks' = tasks \ {t}
        /\ jobs' = [jobs EXCEPT ![w] = Generated(t, title)]
  BY DEF Generate, Generated
<1>2. t \in Task /\ t.targets \in SUBSET Team
  BY DEF BriefTypeOK, Task
<1>3. NoBrief \in Brief
  BY DEF NoBrief, Brief, BriefStatus
<1>4. Then(t.targets, {}) \in {"deliver", "bot"}
  BY DEF Then
<1>5. Len(briefs) + 1 \in Nat /\ now \in Nat
  BY DEF BriefTypeOK
<1>6. Generated(t, title) \in Working
  BY <1>2, <1>4, <1>5 DEF Generated, Working, GeneratedTitle
<1>7. QED
  BY <1>1, <1>2, <1>3, <1>6 DEF Generate

(* One post to a channel: what the sequences of posts become.               *)
LEMMA SendEffect ==
  ASSUME BriefTypeOK, NEW id \in DOMAIN briefs, NEW c \in Channel, NEW told \in BOOLEAN,
         Send(id, c, told)
  PROVE  /\ posted' \in Seq(SUBSET Channel) /\ Len(posted') = Len(briefs)
         /\ unheard' \in Seq(SUBSET Channel) /\ Len(unheard') = Len(briefs)
         /\ \A b \in DOMAIN briefs : b # id => posted'[b] = posted[b] /\ unheard'[b] = unheard[b]
         /\ \/ /\ told /\ posted'[id] = posted[id] \cup {c} /\ unheard'[id] = unheard[id]
            \/ /\ ~told /\ posted'[id] = posted[id] /\ unheard'[id] = unheard[id]
            \/ /\ ~told /\ posted'[id] = posted[id] \cup {c}
               /\ unheard'[id] = unheard[id] \cup {c}
         /\ faults' \in Nat
<1>1. /\ DOMAIN posted = DOMAIN briefs /\ DOMAIN unheard = DOMAIN briefs
      /\ posted \in Seq(SUBSET Channel) /\ unheard \in Seq(SUBSET Channel)
      /\ posted[id] \cup {c} \in SUBSET Channel /\ unheard[id] \cup {c} \in SUBSET Channel
  BY SameDomain DEF BriefTypeOK
<1>2. CASE posted' = [posted EXCEPT ![id] = @ \cup {c}] /\ unheard' = unheard /\ told
           /\ faults' = faults
  BY <1>1, <1>2, ReplaceEffect DEF BriefTypeOK
<1>3. CASE posted' = posted /\ unheard' = unheard /\ ~told /\ Fault
  BY <1>1, <1>3 DEF BriefTypeOK, Fault
<1>4. CASE /\ posted' = [posted EXCEPT ![id] = @ \cup {c}]
           /\ unheard' = [unheard EXCEPT ![id] = @ \cup {c}]
           /\ ~told /\ Fault
  <2>1. faults' \in Nat
    BY <1>4 DEF BriefTypeOK, Fault
  <2>2. QED
    BY <1>1, <1>4, <2>1, ReplaceEffect DEF BriefTypeOK
<1>5. QED
  BY <1>2, <1>3, <1>4 DEF Send

Delivered(w, team, told) ==
  LET sent == IF told THEN jobs[w].sent \cup {team} ELSE jobs[w].sent IN
  [jobs[w] EXCEPT !.left = jobs[w].left \ {team}, !.sent = sent,
                  !.pc = Then(jobs[w].left \ {team}, sent)]

LEMMA DeliverEffect ==
  ASSUME BriefTypeOK, NEW w \in Worker, Deliver(w)
  PROVE  \E team \in jobs[w].left, told \in BOOLEAN :
           /\ team \in Team
           /\ Send(jobs[w].id, team, told)
           /\ Delivered(w, team, told) \in Working
           /\ jobs' = [jobs EXCEPT ![w] = Delivered(w, team, told)]
           /\ LET job == Delivered(w, team, told)
                  sent == IF told THEN jobs[w].sent \cup {team} ELSE jobs[w].sent
              IN  /\ job.id = jobs[w].id /\ job.left = jobs[w].left \ {team}
                  /\ job.sent = sent /\ job.pc = Then(job.left, sent)
<1>1. jobs[w] \in Working
  BY JobType DEF Deliver
<1>2. PICK team \in jobs[w].left, told \in BOOLEAN :
        /\ Send(jobs[w].id, team, told)
        /\ LET sent == IF told THEN jobs[w].sent \cup {team} ELSE jobs[w].sent
           IN  jobs' = [jobs EXCEPT
                 ![w].left = @ \ {team},
                 ![w].sent = sent,
                 ![w].pc = Then(jobs[w].left \ {team}, sent)]
  BY DEF Deliver
<1> DEFINE sent == IF told THEN jobs[w].sent \cup {team} ELSE jobs[w].sent
           pc == Then(jobs[w].left \ {team}, sent)
<1>3. /\ team \in Team /\ jobs[w].left \ {team} \in SUBSET Team
      /\ sent \in SUBSET Channel
      /\ pc \in {"deliver", "bot", "save"}
  BY <1>1 DEF Working, Channel, Then
<1>4. Delivered(w, team, told) =
        [jobs[w] EXCEPT !.left = jobs[w].left \ {team}, !.sent = sent, !.pc = pc]
  BY DEF Delivered
<1> HIDE DEF sent, pc
<1>5. Delivered(w, team, told) =
        [pc |-> pc, task |-> jobs[w].task, id |-> jobs[w].id, title |-> jobs[w].title,
         detected |-> jobs[w].detected, left |-> jobs[w].left \ {team}, sent |-> sent,
         seen |-> jobs[w].seen]
  BY <1>1, <1>4 DEF Working
<1>6. Delivered(w, team, told) \in Working
  BY <1>1, <1>3, <1>5 DEF Working
<1>7. jobs' = [jobs EXCEPT ![w] = Delivered(w, team, told)]
  BY <1>2, <1>4 DEF sent, pc
<1>8. LET job == Delivered(w, team, told) IN
      /\ job.id = jobs[w].id /\ job.left = jobs[w].left \ {team}
      /\ job.sent = sent /\ job.pc = pc
  BY <1>5
<1>9. LET job == Delivered(w, team, told) IN
      job.sent = sent /\ job.pc = Then(job.left, sent)
  BY <1>8 DEF pc
<1>10. QED
  BY <1>2, <1>3, <1>6, <1>7, <1>8, <1>9 DEF sent

(* A job that goes on to save, check or insert keeps its id and title.      *)
LEMMA WorkingMoves ==
  ASSUME NEW job \in Working, NEW pc \in {"save", "check", "insert"}
  PROVE  [job EXCEPT !.pc = pc] \in Working /\ [job EXCEPT !.pc = pc].id = job.id
BY DEF Working

LEMMA WorkingSent ==
  ASSUME NEW job \in Working, NEW sent \in SUBSET Channel
  PROVE  LET after == [job EXCEPT !.pc = "save", !.sent = sent] IN
         /\ after \in Working
         /\ after.id = job.id /\ after.left = job.left
         /\ after.pc = "save" /\ after.sent = sent
<1>1. [job EXCEPT !.pc = "save"] \in Working
  BY DEF Working
<1>2. [[job EXCEPT !.pc = "save"] EXCEPT !.sent = sent] \in Working
  BY <1>1 DEF Working
<1>3. QED
  BY <1>2 DEF Working

LEMMA WorkingSeen ==
  ASSUME NEW job \in Working, NEW seen \in Nat
  PROVE  LET after == [job EXCEPT !.pc = "insert", !.seen = seen] IN
         /\ after \in Working
         /\ after.id = job.id /\ after.title = job.title /\ after.detected = job.detected
         /\ after.pc = "insert" /\ after.seen = seen
<1>1. [job EXCEPT !.pc = "insert"] \in Working
  BY DEF Working
<1>2. [[job EXCEPT !.pc = "insert"] EXCEPT !.seen = seen] \in Working
  BY <1>1 DEF Working
<1>3. QED
  BY <1>2 DEF Working

BotTold(w, told) ==
  [jobs[w] EXCEPT !.pc = "save", !.sent = IF told THEN {"bot"} ELSE jobs[w].sent]

LEMMA FallbackEffect ==
  ASSUME BriefTypeOK, NEW w \in Worker, Fallback(w)
  PROVE  \/ \E told \in BOOLEAN :
              /\ Send(jobs[w].id, "bot", told)
              /\ BotTold(w, told) \in Working
              /\ BotTold(w, told).id = jobs[w].id
              /\ BotTold(w, told).pc = "save"
              /\ BotTold(w, told).left = jobs[w].left
              /\ BotTold(w, told).sent = IF told THEN {"bot"} ELSE jobs[w].sent
              /\ jobs' = [jobs EXCEPT ![w] = BotTold(w, told)]
         \/ /\ [jobs[w] EXCEPT !.pc = "save"] \in Working
            /\ jobs' = [jobs EXCEPT ![w] = [jobs[w] EXCEPT !.pc = "save"]]
            /\ UNCHANGED <<posted, unheard, faults>>
<1>1. jobs[w] \in Working
  BY JobType DEF Fallback
<1>2. CASE \E told \in BOOLEAN :
             /\ Send(jobs[w].id, "bot", told)
             /\ jobs' = [jobs EXCEPT ![w].pc = "save",
                                     ![w].sent = IF told THEN {"bot"} ELSE @]
  <2>1. PICK told \in BOOLEAN :
          /\ Send(jobs[w].id, "bot", told)
          /\ jobs' = [jobs EXCEPT ![w].pc = "save",
                                  ![w].sent = IF told THEN {"bot"} ELSE @]
    BY <1>2
  <2> DEFINE sent == IF told THEN {"bot"} ELSE jobs[w].sent
  <2>2. sent \in SUBSET Channel
    BY <1>1 DEF Working, Channel
  <2>3. BotTold(w, told) = [jobs[w] EXCEPT !.pc = "save", !.sent = sent]
    BY DEF BotTold
  <2>4. jobs' = [jobs EXCEPT ![w] = BotTold(w, told)]
    BY <2>1, <2>3
  <2> HIDE DEF sent
  <2>5. /\ BotTold(w, told) \in Working /\ BotTold(w, told).id = jobs[w].id
        /\ BotTold(w, told).pc = "save" /\ BotTold(w, told).left = jobs[w].left
        /\ BotTold(w, told).sent = sent
    <3>1. LET after == [jobs[w] EXCEPT !.pc = "save", !.sent = sent] IN
          /\ after \in Working
          /\ after.id = jobs[w].id /\ after.left = jobs[w].left
          /\ after.pc = "save" /\ after.sent = sent
      BY <1>1, <2>2, WorkingSent, Zenon
    <3>2. QED
      BY <2>3, <3>1
  <2>6. BotTold(w, told).sent = IF told THEN {"bot"} ELSE jobs[w].sent
    BY <2>5 DEF sent
  <2>7. QED
    BY <2>1, <2>4, <2>5, <2>6
<1>3. CASE /\ jobs' = [jobs EXCEPT ![w].pc = "save"]
           /\ UNCHANGED <<posted, unheard, faults>>
  BY <1>1, <1>3, WorkingMoves
<1>4. QED
  BY <1>2, <1>3 DEF Fallback

Saved(sent) == [status |-> "open", resolved |-> 0, sent |-> sent, ticket |-> 0]

LEMMA SaveEffect ==
  ASSUME BriefTypeOK, NEW w \in Worker, Save(w)
  PROVE  /\ jobs[w].id \in DOMAIN briefs
         /\ [jobs[w] EXCEPT !.pc = "check"] \in Working
         /\ [jobs[w] EXCEPT !.pc = "check"].id = jobs[w].id
         /\ [jobs[w] EXCEPT !.pc = "check"].pc = "check"
         /\ jobs' = [jobs EXCEPT ![w] = [jobs[w] EXCEPT !.pc = "check"]]
         /\ Saved(jobs[w].sent) \in Brief
         /\ \/ briefs' = [briefs EXCEPT ![jobs[w].id] = Saved(jobs[w].sent)]
            \/ briefs' = briefs
         /\ faults' \in Nat
<1>1. jobs[w] \in Working /\ jobs[w].id \in DOMAIN briefs
  BY JobType DEF Save
<1>2. Saved(jobs[w].sent) \in Brief
  BY <1>1 DEF Working, Saved, Brief, BriefStatus
<1>3. [jobs[w] EXCEPT !.pc = "check"].pc = "check"
  BY <1>1 DEF Working
<1>4. faults' \in Nat
  BY DEF Save, Fault, BriefTypeOK
<1>5. jobs' = [jobs EXCEPT ![w] = [jobs[w] EXCEPT !.pc = "check"]]
  BY DEF Save
<1>6. \/ briefs' = [briefs EXCEPT ![jobs[w].id] = Saved(jobs[w].sent)]
      \/ briefs' = briefs
  BY DEF Save, Saved
<1>7. QED
  BY <1>1, <1>2, <1>3, <1>4, <1>5, <1>6, WorkingMoves

LEMMA CheckEffect ==
  ASSUME BriefTypeOK, NEW w \in Worker, CheckIncident(w)
  PROVE  LET job == [jobs[w] EXCEPT !.pc = "insert", !.seen = Len(incidents)] IN
         /\ job \in Working /\ job.id = jobs[w].id
         /\ job.pc = "insert" /\ job.seen = Len(incidents)
         /\ job.title = jobs[w].title /\ job.detected = jobs[w].detected
         /\ \/ jobs' = [jobs EXCEPT ![w] = IdleJob]
            \/ /\ jobs' = [jobs EXCEPT ![w] = job]
               /\ \A i \in DOMAIN incidents :
                    ~Recent(i, jobs[w].title, jobs[w].detected)
<1> DEFINE job == [jobs[w] EXCEPT !.pc = "insert", !.seen = Len(incidents)]
<1>1. jobs[w] \in Working /\ Len(incidents) \in Nat
  BY JobType DEF CheckIncident, BriefTypeOK
<1>2. /\ job \in Working /\ job.id = jobs[w].id
      /\ job.pc = "insert" /\ job.seen = Len(incidents)
      /\ job.title = jobs[w].title /\ job.detected = jobs[w].detected
  BY <1>1, WorkingSeen
<1>3. QED
  BY <1>2 DEF CheckIncident

NewIncident(w) ==
  [title |-> jobs[w].title, at |-> now, detected |-> jobs[w].detected,
   seen |-> jobs[w].seen, brief |-> jobs[w].id,
   status |-> "open", resolved |-> 0, cause |-> "given"]

LEMMA InsertEffect ==
  ASSUME BriefTypeOK, NEW w \in Worker, InsertIncident(w)
  PROVE  /\ NewIncident(w) \in Incident
         /\ incidents' = Append(incidents, NewIncident(w))
         /\ jobs' = [jobs EXCEPT ![w] = IdleJob]
<1>1. jobs[w] \in Working /\ now \in Nat
  BY JobType DEF InsertIncident, BriefTypeOK
<1>2. NewIncident(w) \in Incident
  BY <1>1 DEF Working, NewIncident, Incident, IncidentStatus
<1>3. QED
  BY <1>2 DEF InsertIncident, NewIncident

-----------------------------------------------------------------------------
(* Types                                                                    *)

LEMMA TypeInit == Init => TypeOK
<1> SUFFICES ASSUME Init PROVE TypeOK
  OBVIOUS
<1>1. BriefTypeOK
  BY IdleType DEF Init, BriefInit, BriefTypeOK
<1>2. QED
  BY <1>1 DEF Init, BriefInit, TypeOK, IdlePush, Push, IdleInquiry, Inquiry

LEMMA TasksType ==
  ASSUME NEW t \in Task
  PROVE  Again(t) \subseteq Task /\ BriefTask(t) \in Task
<1>1. [t EXCEPT !.tries = 1] \in Task
  BY DEF Task
<1>2. [t EXCEPT !.kind = "brief"] \in Task
  BY DEF Task
<1>3. [[t EXCEPT !.kind = "brief"] EXCEPT !.tries = 0] \in Task
  <2>1. \A r \in Task : [r EXCEPT !.tries = 0] \in Task
    BY DEF Task
  <2>2. QED
    BY <1>2, <2>1
<1>4. QED
  BY <1>1, <1>3 DEF Again, BriefTask

(* The steps of the scan and of the workers keep the types of their         *)
(* variables, and remove no brief and no incident.                          *)
LEMMA BriefTypeNext ==
  ASSUME BriefTypeOK, BriefStep
  PROVE  /\ BriefTypeOK'
         /\ DOMAIN briefs \subseteq DOMAIN briefs'
         /\ DOMAIN incidents \subseteq DOMAIN incidents'
<1> USE DEF BriefTypeOK
<1>1. CASE Alert \/ Ingest
  <2>1. tasks' \subseteq Task
    <3>1. alerted + 1 \in Nat
      OBVIOUS
    <3>2. CASE Alert
      BY <3>1, <3>2 DEF Alert, Task
    <3>3. CASE Ingest
      BY <3>1, <3>3 DEF Ingest, Task
    <3>4. QED
      BY <1>1, <3>2, <3>3
  <2>2. QED
    BY <1>1, <2>1 DEF Alert, Ingest
<1>2. CASE Enrich
  <2>1. tasks' \subseteq Task
    BY <1>2, TasksType DEF Enrich
  <2>2. faults' \in Nat
    BY <1>2 DEF Enrich, Fault
  <2>3. QED
    BY <1>2, <2>1, <2>2 DEF Enrich
<1>3. CASE Tick
  BY <1>3 DEF Tick
<1>4. ASSUME NEW w \in Worker, Generate(w)
      PROVE  BriefTypeOK' /\ DOMAIN briefs \subseteq DOMAIN briefs' /\ incidents' = incidents
  <2>1. PICK t \in tasks, title \in GeneratedTitle :
           /\ tasks' = tasks \ {t}
           /\ Generated(t, title) \in Working
           /\ jobs' = [jobs EXCEPT ![w] = Generated(t, title)]
           /\ briefs' = Append(briefs, NoBrief) /\ NoBrief \in Brief
           /\ posted' = Append(posted, {}) /\ unheard' = Append(unheard, {})
    BY <1>4, GenerateEffect
  <2>2. /\ briefs' \in Seq(Brief) /\ Len(briefs') = Len(briefs) + 1
        /\ DOMAIN briefs' = DOMAIN briefs \cup {Len(briefs) + 1}
    BY <2>1, AppendEffect
  <2>3. /\ posted' \in Seq(SUBSET Channel) /\ Len(posted') = Len(briefs) + 1
        /\ unheard' \in Seq(SUBSET Channel) /\ Len(unheard') = Len(briefs) + 1
    BY <2>1, AppendEffect
  <2>4. Generated(t, title).id \in DOMAIN briefs'
    BY <2>2 DEF Generated
  <2>5. QED
    BY <1>4, <2>1, <2>2, <2>3, <2>4, WorkingIsJob, JobsType DEF Generate
<1>5. ASSUME NEW w \in Worker, Deliver(w) PROVE BriefTypeOK'
  <2>1. PICK team \in jobs[w].left, told \in BOOLEAN :
           /\ team \in Team
           /\ Send(jobs[w].id, team, told)
           /\ Delivered(w, team, told) \in Working
           /\ jobs' = [jobs EXCEPT ![w] = Delivered(w, team, told)]
           /\ Delivered(w, team, told).id = jobs[w].id
    BY <1>5, DeliverEffect
  <2>2. jobs[w].id \in DOMAIN briefs
    BY <1>5, JobType DEF Deliver
  <2>3. briefs' = briefs
    BY <1>5 DEF Deliver
  <2>4. /\ posted' \in Seq(SUBSET Channel) /\ Len(posted') = Len(briefs)
        /\ unheard' \in Seq(SUBSET Channel) /\ Len(unheard') = Len(briefs)
        /\ faults' \in Nat
    BY <2>1, <2>2, SendEffect DEF Channel
  <2>5. QED
    BY <1>5, <2>1, <2>2, <2>3, <2>4, WorkingIsJob, JobsType DEF Deliver
<1>6. ASSUME NEW w \in Worker, Fallback(w) PROVE BriefTypeOK'
  <2>1. jobs[w] \in Working /\ jobs[w].id \in DOMAIN briefs
    BY <1>6, JobType DEF Fallback
  <2>2. PICK job \in Working : job.id = jobs[w].id /\ jobs' = [jobs EXCEPT ![w] = job]
    BY <1>6, <2>1, FallbackEffect, WorkingMoves
  <2>3. /\ posted' \in Seq(SUBSET Channel) /\ Len(posted') = Len(briefs)
        /\ unheard' \in Seq(SUBSET Channel) /\ Len(unheard') = Len(briefs)
        /\ faults' \in Nat
    <3>1. "bot" \in Channel
      BY DEF Channel
    <3>2. QED
      BY <1>6, <2>1, <3>1, FallbackEffect, SendEffect
  <2>4. briefs' = briefs
    BY <1>6 DEF Fallback
  <2>5. QED
    BY <1>6, <2>1, <2>2, <2>3, <2>4, WorkingIsJob, JobsType DEF Fallback
<1>7. ASSUME NEW w \in Worker, Save(w)
      PROVE  BriefTypeOK' /\ DOMAIN briefs' = DOMAIN briefs /\ incidents' = incidents
  <2>1. briefs' \in Seq(Brief) /\ Len(briefs') = Len(briefs) /\ DOMAIN briefs' = DOMAIN briefs
    <3>1. CASE briefs' = [briefs EXCEPT ![jobs[w].id] = Saved(jobs[w].sent)]
      <4>1. jobs[w].id \in DOMAIN briefs /\ Saved(jobs[w].sent) \in Brief
        BY <1>7, SaveEffect
      <4>2. QED
        BY <3>1, <4>1, ReplaceEffect
    <3>2. CASE briefs' = briefs
      BY <3>2
    <3>3. QED
      BY <1>7, <3>1, <3>2, SaveEffect
  <2>2. QED
    BY <1>7, <2>1, SaveEffect, WorkingIsJob, JobsType DEF Save
<1>8. ASSUME NEW w \in Worker, CheckIncident(w) PROVE BriefTypeOK'
  <2>1. PICK job \in Job :
           jobs' = [jobs EXCEPT ![w] = job] /\ (job.pc # "idle" => job.id = jobs[w].id)
    BY <1>8, CheckEffect, WorkingIsJob, IdleType
  <2>2. jobs[w].id \in DOMAIN briefs /\ briefs' = briefs
    BY <1>8, JobType DEF CheckIncident
  <2>3. QED
    BY <1>8, <2>1, <2>2, JobsType DEF CheckIncident
<1>9. ASSUME NEW w \in Worker, InsertIncident(w)
      PROVE  BriefTypeOK' /\ briefs' = briefs /\ DOMAIN incidents \subseteq DOMAIN incidents'
  <2>1. incidents' \in Seq(Incident) /\ DOMAIN incidents \subseteq DOMAIN incidents'
    <3>1. NewIncident(w) \in Incident /\ incidents' = Append(incidents, NewIncident(w))
      BY <1>9, InsertEffect
    <3>2. QED
      BY <3>1, AppendEffect
  <2>2. QED
    BY <1>9, <2>1, InsertEffect, IdleType, JobsType DEF InsertIncident
<1>10. ASSUME NEW w \in Worker, SkipIncident(w) \/ FailBrief(w) \/ Die(w) PROVE BriefTypeOK'
  <2>1. jobs[w].pc # "idle" /\ jobs' = [jobs EXCEPT ![w] = IdleJob] /\ briefs' = briefs
    BY <1>10 DEF SkipIncident, FailBrief, Die
  <2>2. tasks' \subseteq Task
    <3>1. jobs[w].task \in Task
      BY <2>1, JobType DEF Working
    <3>2. QED
      BY <1>10, <3>1, TasksType DEF SkipIncident, FailBrief, Die
  <2>3. faults' \in Nat
    BY <1>10 DEF SkipIncident, FailBrief, Die, Fault
  <2>4. QED
    BY <1>10, <2>1, <2>2, <2>3, IdleType, JobsType DEF SkipIncident, FailBrief, Die
<1>11. QED
  BY <1>1, <1>2, <1>3, <1>4, <1>5, <1>6, <1>7, <1>8, <1>9, <1>10
     DEF BriefStep, Alert, Ingest, Enrich, Tick, Deliver, Fallback, CheckIncident,
         SkipIncident, FailBrief, Die

(* The desk's records.                                                      *)
Pushed == [pc : {"create", "store"}, brief : Nat, ticket : Nat, overlapped : BOOLEAN]

LEMMA PushType ==
  ASSUME TypeOK, NEW r \in Request, Active(r)
  PROVE  pushes[r] \in Pushed /\ pushes[r].brief \in DOMAIN briefs
BY DEF TypeOK, Push, IdlePush, Pushed, Active

LEMMA InquiryType ==
  ASSUME TypeOK, NEW v \in Investigator, inquiries[v].pc # "idle"
  PROVE  /\ inquiries[v] \in [pc : {"queued", "running"}, incident : Nat]
         /\ inquiries[v].incident \in DOMAIN incidents
BY DEF TypeOK, Inquiry, IdleInquiry

LEMMA DeskIdleType ==
  /\ IdlePush \in Push /\ IdlePush.pc = "idle"
  /\ IdleInquiry \in Inquiry /\ IdleInquiry.pc = "idle"
BY DEF IdlePush, Push, IdleInquiry, Inquiry

(* What StatusSet does to a brief and to an incident.                       *)
LEMMA BriefStatusSet ==
  ASSUME TypeOK, NEW b \in DOMAIN briefs, NEW status \in {"open", "investigating", "resolved"}
  PROVE  LET row == StatusSet(briefs[b], status) IN
         /\ row \in Brief /\ row.status = status
         /\ row.sent = briefs[b].sent /\ row.ticket = briefs[b].ticket
<1> DEFINE resolved == IF status = "resolved" /\ briefs[b].resolved = 0 THEN now
                       ELSE briefs[b].resolved
<1>1. briefs[b] \in Brief /\ now \in Nat
  BY DEF TypeOK, BriefTypeOK
<1>2. resolved \in Nat /\ status \in BriefStatus
  BY <1>1 DEF Brief, BriefStatus
<1>3. StatusSet(briefs[b], status) = [briefs[b] EXCEPT !.status = status, !.resolved = resolved]
  BY DEF StatusSet
<1> HIDE DEF resolved
<1>4. QED
  BY <1>1, <1>2, <1>3 DEF Brief

LEMMA IncidentStatusSet ==
  ASSUME TypeOK, NEW i \in DOMAIN incidents, NEW status \in IncidentStatus
  PROVE  LET row == StatusSet(incidents[i], status) IN
         /\ row \in Incident /\ row.status = status
         /\ row.title = incidents[i].title /\ row.at = incidents[i].at
         /\ row.detected = incidents[i].detected /\ row.seen = incidents[i].seen
         /\ row.cause = incidents[i].cause
<1> DEFINE resolved == IF status = "resolved" /\ incidents[i].resolved = 0 THEN now
                       ELSE incidents[i].resolved
<1>1. incidents[i] \in Incident /\ now \in Nat
  BY DEF TypeOK, BriefTypeOK
<1>2. resolved \in Nat
  BY <1>1 DEF Incident
<1>3. StatusSet(incidents[i], status) =
        [incidents[i] EXCEPT !.status = status, !.resolved = resolved]
  BY DEF StatusSet
<1> HIDE DEF resolved
<1>4. [incidents[i] EXCEPT !.status = status] \in Incident
  BY <1>1 DEF Incident
<1>5. [[incidents[i] EXCEPT !.status = status] EXCEPT !.resolved = resolved] \in Incident
  BY <1>2, <1>4 DEF Incident
<1>6. QED
  BY <1>1, <1>3, <1>5 DEF Incident

LEMMA IncidentRewritten ==
  ASSUME NEW row \in Incident, NEW status \in IncidentStatus, NEW cause \in {"given", "cleared"}
  PROVE  LET new == [row EXCEPT !.status = status, !.cause = cause] IN
         /\ new \in Incident /\ new.status = status /\ new.cause = cause
         /\ new.title = row.title /\ new.at = row.at
         /\ new.detected = row.detected /\ new.seen = row.seen
<1>1. [row EXCEPT !.status = status] \in Incident
  BY DEF Incident
<1>2. [[row EXCEPT !.status = status] EXCEPT !.cause = cause] \in Incident
  BY <1>1 DEF Incident
<1>3. QED
  BY <1>2 DEF Incident

-----------------------------------------------------------------------------
(* What the desk does to briefs                                             *)

LEMMA EditBriefEffect ==
  ASSUME TypeOK, NEW b \in DOMAIN briefs, SetBrief(b) \/ DeleteBrief(b)
  PROVE  \E row \in Brief :
           /\ briefs' = [briefs EXCEPT ![b] = row]
           /\ Stored(b) /\ row.status # "unsaved"
           /\ \/ row.sent = briefs[b].sent /\ row.ticket = briefs[b].ticket
              \/ row.status = "deleted" /\ row.ticket = 0
<1>1. CASE SetBrief(b)
  <2>1. PICK status \in {"open", "investigating", "resolved"} :
          briefs' = [briefs EXCEPT ![b] = StatusSet(briefs[b], status)]
    BY <1>1 DEF SetBrief
  <2>2. QED
    BY <1>1, <2>1, BriefStatusSet DEF SetBrief
<1>2. CASE DeleteBrief(b)
  <2>1. LET row == [NoBrief EXCEPT !.status = "deleted"] IN
        row \in Brief /\ row.status = "deleted" /\ row.ticket = 0
    BY DEF NoBrief, Brief, BriefStatus
  <2>2. QED
    BY <1>2, <2>1 DEF DeleteBrief
<1>3. QED
  BY <1>1, <1>2

(* A push that starts makes itself and the other pushes of its brief known  *)
(* to each other.                                                           *)
LEMMA StartPushEffect ==
  ASSUME TypeOK, NEW r \in Request, NEW b \in DOMAIN briefs, StartPush(r, b)
  PROVE  /\ pushes' \in [Request -> Push]
         /\ pushes'[r].pc = "create" /\ pushes'[r].brief = b
         /\ (\E q \in Request : Active(q) /\ pushes[q].brief = b) => pushes'[r].overlapped
         /\ ~Active(r)
         /\ \A q \in Request \ {r} :
              /\ pushes'[q].pc = pushes[q].pc
              /\ Active(q) => /\ pushes'[q].brief = pushes[q].brief
                              /\ pushes'[q].ticket = pushes[q].ticket
                              /\ pushes[q].overlapped \/ pushes[q].brief = b
                                   => pushes'[q].overlapped
<1> DEFINE new == [pc |-> "create", brief |-> b, ticket |-> 0, overlapped |-> Pushing(b) # {}]
<1>1. pushes' = [q \in Request |->
        IF q = r THEN new
        ELSE IF q \in Pushing(b) THEN [pushes[q] EXCEPT !.overlapped = TRUE]
        ELSE pushes[q]]
  BY DEF StartPush
<1>2. new \in Pushed /\ new.pc = "create" /\ new.brief = b /\ new.overlapped = (Pushing(b) # {})
  BY DEF Pushed, TypeOK, BriefTypeOK
<1>3. Pushed \subseteq Push
  BY DEF Push, Pushed
<1>4. \A q \in Pushing(b) : Active(q) /\ pushes[q].brief = b /\ q \in Request
  BY DEF Pushing, Active
<1>5. \A q \in Request : Active(q) /\ pushes[q].brief = b => q \in Pushing(b)
  BY DEF Pushing, Active
<1>6. \A q \in Request : Active(q) =>
        LET known == [pushes[q] EXCEPT !.overlapped = TRUE] IN
        /\ known \in Pushed /\ known.pc = pushes[q].pc /\ known.brief = pushes[q].brief
        /\ known.ticket = pushes[q].ticket /\ known.overlapped
  BY PushType DEF Pushed
<1> HIDE DEF new
<1>7. pushes'[r] = new
  BY <1>1
<1>8. \A q \in Request \ {r} :
        pushes'[q] = IF q \in Pushing(b) THEN [pushes[q] EXCEPT !.overlapped = TRUE]
                     ELSE pushes[q]
  BY <1>1
<1>9. pushes' \in [Request -> Push]
  <2>1. \A q \in Request : pushes'[q] \in Push
    BY <1>2, <1>3, <1>4, <1>6, <1>7, <1>8 DEF TypeOK
  <2>2. QED
    BY <1>1, <2>1
<1>10. ASSUME NEW q \in Request \ {r}
       PROVE  /\ pushes'[q].pc = pushes[q].pc
              /\ Active(q) => /\ pushes'[q].brief = pushes[q].brief
                              /\ pushes'[q].ticket = pushes[q].ticket
                              /\ pushes[q].overlapped \/ pushes[q].brief = b
                                   => pushes'[q].overlapped
  <2>1. CASE q \in Pushing(b)
    BY <1>4, <1>6, <1>8, <2>1
  <2>2. CASE q \notin Pushing(b)
    BY <1>5, <1>8, <2>2
  <2>3. QED
    BY <2>1, <2>2
<1>11. (\E q \in Request : Active(q) /\ pushes[q].brief = b) => pushes'[r].overlapped
  BY <1>2, <1>5, <1>7
<1>12. QED
  BY <1>2, <1>7, <1>9, <1>10, <1>11 DEF StartPush, Active

NewTicket(r) == [brief |-> pushes[r].brief, overlapped |-> FALSE, lost |-> FALSE]

LEMMA CreateTicketEffect ==
  ASSUME TypeOK, NEW r \in Request, CreateTicket(r)
  PROVE  LET push == [pushes[r] EXCEPT !.pc = "store", !.ticket = Len(tickets) + 1] IN
         /\ push \in Pushed /\ push.pc = "store" /\ push.brief = pushes[r].brief
         /\ push.ticket = Len(tickets) + 1 /\ push.overlapped = pushes[r].overlapped
         /\ pushes' = [pushes EXCEPT ![r] = push]
         /\ NewTicket(r) \in Ticket
         /\ tickets' = Append(tickets, NewTicket(r))
<1>1. pushes[r] \in Pushed /\ Len(tickets) + 1 \in Nat
  BY PushType DEF CreateTicket, Active, TypeOK
<1>2. \A push \in Pushed, k \in Nat :
        LET new == [push EXCEPT !.pc = "store", !.ticket = k] IN
        /\ new \in Pushed /\ new.pc = "store" /\ new.brief = push.brief
        /\ new.ticket = k /\ new.overlapped = push.overlapped
  BY DEF Pushed
<1>3. NewTicket(r) \in Ticket
  BY <1>1 DEF NewTicket, Ticket, Pushed
<1>4. QED
  BY <1>1, <1>2, <1>3 DEF CreateTicket, NewTicket

LEMMA TicketRewritten ==
  ASSUME NEW t \in Ticket, NEW v \in BOOLEAN
  PROVE  /\ [t EXCEPT !.lost = v] \in Ticket
         /\ [t EXCEPT !.lost = v].brief = t.brief /\ [t EXCEPT !.lost = v].lost = v
         /\ [t EXCEPT !.lost = v].overlapped = t.overlapped
         /\ [t EXCEPT !.overlapped = v] \in Ticket
         /\ [t EXCEPT !.overlapped = v].brief = t.brief
         /\ [t EXCEPT !.overlapped = v].overlapped = v
         /\ [t EXCEPT !.overlapped = v].lost = t.lost
BY DEF Ticket

(* The end of a push: what becomes of the ticket in its hands.              *)
LEMMA FailPushEffect ==
  ASSUME TypeOK, NEW r \in Request, FailPush(r)
  PROVE  /\ tickets' \in Seq(Ticket) /\ DOMAIN tickets' = DOMAIN tickets
         /\ \A k \in DOMAIN tickets :
              /\ tickets'[k].brief = tickets[k].brief
              /\ tickets'[k].overlapped = tickets[k].overlapped
              /\ tickets[k].lost \/ (pushes[r].pc = "store" /\ pushes[r].ticket = k)
                   => tickets'[k].lost
         /\ pushes' = [pushes EXCEPT ![r] = IdlePush]
<1>1. CASE pushes[r].pc = "store"
  <2> DEFINE k == pushes[r].ticket
             t == [tickets[k] EXCEPT !.lost = TRUE]
  <2>1. k \in DOMAIN tickets /\ tickets[k] \in Ticket
    BY <1>1 DEF TypeOK
  <2>2. t \in Ticket /\ t.brief = tickets[k].brief /\ t.lost /\ t.overlapped = tickets[k].overlapped
    BY <2>1, TicketRewritten
  <2>3. tickets' = [tickets EXCEPT ![k] = t]
    BY <1>1 DEF FailPush
  <2> HIDE DEF t
  <2>4. QED
    BY <1>1, <2>1, <2>2, <2>3, ReplaceEffect DEF TypeOK, FailPush
<1>2. CASE pushes[r].pc # "store"
  BY <1>2 DEF FailPush, TypeOK
<1>3. QED
  BY <1>1, <1>2

LEMMA StoreTicketEffect ==
  ASSUME TypeOK, NEW r \in Request, StoreTicket(r)
  PROVE  /\ tickets' \in Seq(Ticket) /\ DOMAIN tickets' = DOMAIN tickets
         /\ \A k \in DOMAIN tickets :
              /\ tickets'[k].brief = tickets[k].brief
              /\ tickets'[k].lost = tickets[k].lost
              /\ tickets'[k].overlapped = IF k = pushes[r].ticket THEN pushes[r].overlapped
                                          ELSE tickets[k].overlapped
         /\ pushes[r].pc = "store" /\ pushes' = [pushes EXCEPT ![r] = IdlePush]
         /\ briefs' \in Seq(Brief) /\ Len(briefs') = Len(briefs)
         /\ DOMAIN briefs' = DOMAIN briefs
         /\ \A b \in DOMAIN briefs :
              /\ briefs'[b].status = briefs[b].status /\ briefs'[b].sent = briefs[b].sent
              /\ briefs'[b].ticket = IF b = pushes[r].brief /\ Stored(b) THEN pushes[r].ticket
                                     ELSE briefs[b].ticket
<1> DEFINE k == pushes[r].ticket
           b == pushes[r].brief
           t == [tickets[k] EXCEPT !.overlapped = pushes[r].overlapped]
           row == [briefs[b] EXCEPT !.ticket = k]
<1>1. /\ pushes[r].pc = "store" /\ pushes[r] \in Pushed
      /\ k \in DOMAIN tickets /\ b \in DOMAIN briefs
  BY PushType DEF StoreTicket, Active, TypeOK
<1>2. /\ tickets[k] \in Ticket /\ briefs[b] \in Brief /\ k \in Nat
      /\ pushes[r].overlapped \in BOOLEAN
  BY <1>1 DEF TypeOK, BriefTypeOK, Pushed
<1>3. /\ t \in Ticket /\ t.brief = tickets[k].brief /\ t.lost = tickets[k].lost
      /\ t.overlapped = pushes[r].overlapped
  BY <1>2 DEF Ticket
<1>4. /\ row \in Brief /\ row.status = briefs[b].status /\ row.sent = briefs[b].sent
      /\ row.ticket = k
  BY <1>2 DEF Brief
<1>5. tickets' = [tickets EXCEPT ![k] = t]
  BY DEF StoreTicket
<1>6. briefs' = IF Stored(b) THEN [briefs EXCEPT ![b] = row] ELSE briefs
  BY DEF StoreTicket
<1> HIDE DEF t, row
<1>7. /\ tickets' \in Seq(Ticket) /\ DOMAIN tickets' = DOMAIN tickets
      /\ tickets'[k] = t /\ \A j \in DOMAIN tickets : j # k => tickets'[j] = tickets[j]
  BY <1>1, <1>3, <1>5, ReplaceEffect DEF TypeOK
<1>8. CASE Stored(b)
  <2>1. /\ briefs' \in Seq(Brief) /\ DOMAIN briefs' = DOMAIN briefs /\ Len(briefs') = Len(briefs)
        /\ briefs'[b] = row /\ \A c \in DOMAIN briefs : c # b => briefs'[c] = briefs[c]
    BY <1>1, <1>4, <1>6, <1>8, ReplaceEffect DEF TypeOK, BriefTypeOK
  <2>2. QED
    BY <1>1, <1>3, <1>4, <1>7, <1>8, <2>1 DEF StoreTicket
<1>9. CASE ~Stored(b)
  BY <1>1, <1>3, <1>6, <1>7, <1>9 DEF StoreTicket, TypeOK, BriefTypeOK
<1>10. QED
  BY <1>8, <1>9

-----------------------------------------------------------------------------
(* What the desk does to incidents                                          *)

(* One incident is rewritten to row.                                        *)
Rewrites(i, row) ==
  /\ row \in Incident
  /\ row.title = incidents[i].title /\ row.at = incidents[i].at
  /\ row.detected = incidents[i].detected /\ row.seen = incidents[i].seen
  /\ incidents' = [incidents EXCEPT ![i] = row]

LEMMA IncidentsRewritten ==
  ASSUME TypeOK, NEW i \in DOMAIN incidents, NEW row, Rewrites(i, row)
  PROVE  /\ incidents' \in Seq(Incident)
         /\ DOMAIN incidents' = DOMAIN incidents
         /\ incidents'[i] = row
         /\ \A j \in DOMAIN incidents :
              /\ j # i => incidents'[j] = incidents[j]
              /\ incidents'[j].title = incidents[j].title
              /\ incidents'[j].at = incidents[j].at
              /\ incidents'[j].detected = incidents[j].detected
              /\ incidents'[j].seen = incidents[j].seen
<1>1. /\ incidents' \in Seq(Incident) /\ DOMAIN incidents' = DOMAIN incidents
      /\ incidents'[i] = row
      /\ \A j \in DOMAIN incidents : j # i => incidents'[j] = incidents[j]
  BY ReplaceEffect DEF Rewrites, TypeOK, BriefTypeOK
<1>2. QED
  BY <1>1 DEF Rewrites

LEMMA IncidentType ==
  ASSUME TypeOK, NEW i \in DOMAIN incidents
  PROVE  incidents[i] \in Incident
BY DEF TypeOK, BriefTypeOK

LEMMA SetIncidentEffect ==
  ASSUME TypeOK, NEW i \in DOMAIN incidents, SetIncident(i)
  PROVE  \E row \in Incident :
           /\ Rewrites(i, row) /\ row.cause = incidents[i].cause
           /\ row.status = "analysing" => i \in stuck'
           /\ stuck' \in {stuck, stuck \cup {i}}
<1>1. PICK status \in IncidentStatus \ {"deleted"} :
        /\ incidents' = [incidents EXCEPT ![i] = StatusSet(incidents[i], status)]
        /\ stuck' = IF status = "analysing" THEN stuck \cup {i} ELSE stuck
  BY DEF SetIncident
<1>2. QED
  BY <1>1, IncidentStatusSet DEF Rewrites

LEMMA DeleteIncidentEffect ==
  ASSUME TypeOK, NEW i \in DOMAIN incidents, DeleteIncident(i)
  PROVE  \E row \in Incident : Rewrites(i, row) /\ row.status = "deleted"
<1> DEFINE row == [incidents[i] EXCEPT !.status = "deleted"]
<1>1. incidents' = [incidents EXCEPT ![i] = row]
  BY DEF DeleteIncident
<1>2. /\ row \in Incident /\ row.status = "deleted"
      /\ row.title = incidents[i].title /\ row.at = incidents[i].at
      /\ row.detected = incidents[i].detected /\ row.seen = incidents[i].seen
  BY IncidentType DEF Incident, IncidentStatus
<1>3. QED
  BY <1>1, <1>2 DEF Rewrites

LEMMA ReinvestigateEffect ==
  ASSUME TypeOK, NEW v \in Investigator, NEW i \in DOMAIN incidents, Reinvestigate(v, i)
  PROVE  /\ \E row \in Incident :
              Rewrites(i, row) /\ row.status = "investigating" /\ row.cause = "cleared"
         /\ [pc |-> "queued", incident |-> i] \in Inquiry
         /\ inquiries' = [inquiries EXCEPT ![v] = [pc |-> "queued", incident |-> i]]
<1> DEFINE row == [incidents[i] EXCEPT !.status = "investigating", !.cause = "cleared"]
<1>1. incidents' = [incidents EXCEPT ![i] = row]
  BY DEF Reinvestigate
<1>2. "investigating" \in IncidentStatus /\ "cleared" \in {"given", "cleared"}
  BY DEF IncidentStatus
<1>3. /\ row \in Incident /\ row.status = "investigating" /\ row.cause = "cleared"
      /\ row.title = incidents[i].title /\ row.at = incidents[i].at
      /\ row.detected = incidents[i].detected /\ row.seen = incidents[i].seen
  BY <1>2, IncidentType, IncidentRewritten
<1>4. [pc |-> "queued", incident |-> i] \in Inquiry
  BY DEF Inquiry, TypeOK, BriefTypeOK
<1> HIDE DEF row
<1>5. QED
  BY <1>1, <1>3, <1>4 DEF Rewrites, Reinvestigate

LEMMA StartInquiryEffect ==
  ASSUME TypeOK, NEW v \in Investigator, StartInquiry(v)
  PROVE  LET i == inquiries[v].incident IN
         /\ i \in DOMAIN incidents /\ inquiries[v].pc = "queued"
         /\ \/ /\ Exists(i)
               /\ \E row \in Incident :
                    /\ Rewrites(i, row) /\ row.status = "analysing"
                    /\ row.cause = incidents[i].cause
               /\ \E inquiry \in Inquiry :
                    /\ inquiry.pc = "running" /\ inquiry.incident = i
                    /\ inquiries' = [inquiries EXCEPT ![v] = inquiry]
            \/ /\ ~Exists(i) /\ incidents' = incidents
               /\ inquiries' = [inquiries EXCEPT ![v] = IdleInquiry]
<1> DEFINE i == inquiries[v].incident
           row == [incidents[i] EXCEPT !.status = "analysing"]
           inquiry == [inquiries[v] EXCEPT !.pc = "running"]
<1>1. /\ i \in DOMAIN incidents /\ inquiries[v].pc = "queued"
      /\ inquiries[v] \in [pc : {"queued", "running"}, incident : Nat]
  BY InquiryType DEF StartInquiry
<1>2. /\ row \in Incident /\ row.status = "analysing" /\ row.cause = incidents[i].cause
      /\ row.title = incidents[i].title /\ row.at = incidents[i].at
      /\ row.detected = incidents[i].detected /\ row.seen = incidents[i].seen
  BY <1>1, IncidentType DEF Incident, IncidentStatus
<1>3. inquiry \in Inquiry /\ inquiry.pc = "running" /\ inquiry.incident = i
  BY <1>1 DEF Inquiry
<1>4. CASE Exists(i)
  <2>1. incidents' = [incidents EXCEPT ![i] = row]
    BY <1>4 DEF StartInquiry
  <2>2. inquiries' = [inquiries EXCEPT ![v] = inquiry]
    BY <1>4 DEF StartInquiry
  <2> HIDE DEF row, inquiry
  <2>3. QED
    BY <1>1, <1>2, <1>3, <1>4, <2>1, <2>2 DEF Rewrites
<1>5. CASE ~Exists(i)
  BY <1>1, <1>5 DEF StartInquiry
<1>6. QED
  BY <1>4, <1>5

LEMMA ConcludeEffect ==
  ASSUME TypeOK, NEW v \in Investigator, Conclude(v)
  PROVE  LET i == inquiries[v].incident IN
         /\ i \in DOMAIN incidents /\ inquiries[v].pc = "running"
         /\ inquiries' = [inquiries EXCEPT ![v] = IdleInquiry]
         /\ \/ /\ Exists(i)
               /\ \E row \in Incident :
                    Rewrites(i, row) /\ row.status = "investigating" /\ row.cause = "given"
            \/ ~Exists(i) /\ incidents' = incidents
<1> DEFINE i == inquiries[v].incident
           row == [incidents[i] EXCEPT !.status = "investigating", !.cause = "given"]
<1>1. i \in DOMAIN incidents /\ inquiries[v].pc = "running"
  BY InquiryType DEF Conclude
<1>2. "investigating" \in IncidentStatus /\ "given" \in {"given", "cleared"}
  BY DEF IncidentStatus
<1>3. /\ row \in Incident /\ row.status = "investigating" /\ row.cause = "given"
      /\ row.title = incidents[i].title /\ row.at = incidents[i].at
      /\ row.detected = incidents[i].detected /\ row.seen = incidents[i].seen
  <2>1. incidents[i] \in Incident
    BY <1>1, IncidentType
  <2>2. QED
    BY <1>2, <2>1, IncidentRewritten
<1>4. Exists(i) => incidents' = [incidents EXCEPT ![i] = row]
  BY DEF Conclude
<1>5. ~Exists(i) => incidents' = incidents
  BY DEF Conclude
<1> HIDE DEF row
<1>6. QED
  BY <1>1, <1>3, <1>4, <1>5 DEF Rewrites, Conclude

(* What no step of the desk does: it saves no brief, brings back none, and  *)
(* leaves what a brief says of its deliveries.                              *)
LEMMA DeskBriefs ==
  ASSUME TypeOK, DeskStep
  PROVE  /\ briefs' \in Seq(Brief) /\ Len(briefs') = Len(briefs)
         /\ DOMAIN briefs' = DOMAIN briefs
         /\ \A b \in DOMAIN briefs :
              /\ briefs'[b].status = "unsaved" <=> briefs[b].status = "unsaved"
              /\ briefs'[b].status \notin {"unsaved", "deleted"} =>
                   /\ briefs'[b].sent = briefs[b].sent
                   /\ briefs[b].status \notin {"unsaved", "deleted"}
         /\ NoTask
<1>1. CASE \E b \in DOMAIN briefs : SetBrief(b) \/ DeleteBrief(b)
  <2>1. PICK b \in DOMAIN briefs : SetBrief(b) \/ DeleteBrief(b)
    BY <1>1
  <2>2. PICK row \in Brief :
          /\ briefs' = [briefs EXCEPT ![b] = row]
          /\ Stored(b) /\ row.status # "unsaved"
          /\ row.sent = briefs[b].sent \/ row.status = "deleted"
    BY <2>1, EditBriefEffect
  <2>3. /\ briefs' \in Seq(Brief) /\ Len(briefs') = Len(briefs)
        /\ DOMAIN briefs' = DOMAIN briefs
        /\ briefs'[b] = row
        /\ \A c \in DOMAIN briefs : c # b => briefs'[c] = briefs[c]
    BY <2>2, ReplaceEffect DEF TypeOK, BriefTypeOK
  <2>4. NoTask
    BY <2>1 DEF SetBrief, DeleteBrief
  <2>5. QED
    BY <2>2, <2>3, <2>4 DEF Stored
<1>2. CASE \E r \in Request : StoreTicket(r)
  <2>1. PICK r \in Request : StoreTicket(r)
    BY <1>2
  <2>2. NoTask
    BY <2>1 DEF StoreTicket
  <2>3. QED
    BY <2>1, <2>2, StoreTicketEffect
<1>3. ASSUME briefs' = briefs, NoTask
      PROVE  /\ briefs' \in Seq(Brief) /\ Len(briefs') = Len(briefs)
             /\ DOMAIN briefs' = DOMAIN briefs
             /\ \A b \in DOMAIN briefs :
                  /\ briefs'[b].status = "unsaved" <=> briefs[b].status = "unsaved"
                  /\ briefs'[b].status \notin {"unsaved", "deleted"} =>
                       /\ briefs'[b].sent = briefs[b].sent
                       /\ briefs[b].status \notin {"unsaved", "deleted"}
  BY <1>3 DEF TypeOK, BriefTypeOK
<1>4. ASSUME NEW r \in Request,
             (\E b \in DOMAIN briefs : StartPush(r, b)) \/ CreateTicket(r) \/ FailPush(r)
      PROVE  briefs' = briefs /\ NoTask
  BY <1>4 DEF StartPush, CreateTicket, FailPush
<1>5. ASSUME NEW i \in DOMAIN incidents, SetIncident(i) \/ DeleteIncident(i)
      PROVE  briefs' = briefs /\ NoTask
  BY <1>5 DEF SetIncident, DeleteIncident
<1>6. ASSUME NEW v \in Investigator,
             \/ \E i \in DOMAIN incidents : Reinvestigate(v, i)
             \/ StartInquiry(v) \/ Conclude(v) \/ AbandonInquiry(v)
      PROVE  briefs' = briefs /\ NoTask
  BY <1>6 DEF Reinvestigate, StartInquiry, Conclude, AbandonInquiry
<1> HIDE DEF NoTask
<1>7. QED
  BY <1>1, <1>2, <1>3, <1>4, <1>5, <1>6 DEF DeskStep

LEMMA DeskIncidents ==
  ASSUME TypeOK, DeskStep
  PROVE  /\ incidents' \in Seq(Incident)
         /\ DOMAIN incidents' = DOMAIN incidents
         /\ \A i \in DOMAIN incidents :
              /\ incidents'[i].title = incidents[i].title
              /\ incidents'[i].at = incidents[i].at
              /\ incidents'[i].detected = incidents[i].detected
              /\ incidents'[i].seen = incidents[i].seen
              /\ incidents'[i].status # "deleted" => incidents[i].status # "deleted"
<1> DEFINE Kept ==
      /\ incidents' \in Seq(Incident)
      /\ DOMAIN incidents' = DOMAIN incidents
      /\ \A i \in DOMAIN incidents :
           /\ incidents'[i].title = incidents[i].title
           /\ incidents'[i].at = incidents[i].at
           /\ incidents'[i].detected = incidents[i].detected
           /\ incidents'[i].seen = incidents[i].seen
           /\ incidents'[i].status # "deleted" => incidents[i].status # "deleted"
<1>1. ASSUME incidents' = incidents PROVE Kept
  BY <1>1 DEF TypeOK, BriefTypeOK
<1>2. ASSUME NEW i \in DOMAIN incidents, NEW row, Rewrites(i, row), Exists(i) PROVE Kept
  BY <1>2, IncidentsRewritten DEF Exists
<1> HIDE DEF Kept
<1>3. ASSUME NEW b \in DOMAIN briefs, SetBrief(b) \/ DeleteBrief(b) PROVE Kept
  BY <1>1, <1>3 DEF SetBrief, DeleteBrief
<1>4. ASSUME NEW r \in Request,
             \/ \E b \in DOMAIN briefs : StartPush(r, b)
             \/ CreateTicket(r) \/ FailPush(r) \/ StoreTicket(r)
      PROVE  Kept
  BY <1>1, <1>4 DEF StartPush, CreateTicket, FailPush, StoreTicket
<1>5. ASSUME NEW i \in DOMAIN incidents, SetIncident(i) \/ DeleteIncident(i) PROVE Kept
  BY <1>2, <1>5, SetIncidentEffect, DeleteIncidentEffect DEF SetIncident, DeleteIncident
<1>6. ASSUME NEW v \in Investigator, NEW i \in DOMAIN incidents, Reinvestigate(v, i) PROVE Kept
  BY <1>2, <1>6, ReinvestigateEffect DEF Reinvestigate
<1>7. ASSUME NEW v \in Investigator, StartInquiry(v) PROVE Kept
  BY <1>1, <1>2, <1>7, StartInquiryEffect
<1>8. ASSUME NEW v \in Investigator, Conclude(v) PROVE Kept
  BY <1>1, <1>2, <1>8, ConcludeEffect
<1>9. ASSUME NEW v \in Investigator, AbandonInquiry(v) PROVE Kept
  BY <1>1, <1>9 DEF AbandonInquiry
<1>10. Kept
  BY <1>3, <1>4, <1>5, <1>6, <1>7, <1>8, <1>9 DEF DeskStep
<1>11. QED
  BY <1>10 DEF Kept

LEMMA TypeNext == TypeOK /\ [Next]_vars => TypeOK'
<1> SUFFICES ASSUME TypeOK, [Next]_vars PROVE TypeOK'
  OBVIOUS
<1>1. CASE BriefStep /\ UNCHANGED deskVars
  <2>1. /\ BriefTypeOK' /\ DOMAIN briefs \subseteq DOMAIN briefs'
        /\ DOMAIN incidents \subseteq DOMAIN incidents'
    BY <1>1, BriefTypeNext DEF TypeOK
  <2>2. \A b \in DOMAIN briefs' : briefs'[b].ticket \in {0} \cup DOMAIN tickets
    <3>1. CASE briefs' = briefs
      BY <3>1 DEF TypeOK
    <3>2. CASE \E w \in Worker : Generate(w)
      <4>1. briefs' = Append(briefs, NoBrief) /\ NoBrief \in Brief
        BY <3>2, GenerateEffect DEF TypeOK
      <4>2. NoBrief.ticket = 0
        BY DEF NoBrief
      <4>3. briefs \in Seq(Brief)
        BY DEF TypeOK, BriefTypeOK
      <4>4. /\ DOMAIN briefs' = DOMAIN briefs \cup {Len(briefs) + 1}
            /\ briefs'[Len(briefs) + 1] = NoBrief
            /\ \A b \in DOMAIN briefs : briefs'[b] = briefs[b]
        BY <4>1, <4>3, AppendEffect
      <4>5. QED
        BY <4>2, <4>4 DEF TypeOK
    <3>3. CASE \E w \in Worker : Save(w)
      <4>1. PICK w \in Worker : Save(w)
        BY <3>3
      <4>2. CASE briefs' = [briefs EXCEPT ![jobs[w].id] = Saved(jobs[w].sent)]
        <5>1. Saved(jobs[w].sent) \in Brief /\ Saved(jobs[w].sent).ticket = 0
          BY <4>1, SaveEffect DEF TypeOK, Saved
        <5>2. jobs[w].id \in DOMAIN briefs
          BY <4>1, SaveEffect DEF TypeOK
        <5>3. QED
          BY <4>2, <5>1, <5>2, ReplaceEffect DEF TypeOK, BriefTypeOK
      <4>3. QED
        BY <3>1, <4>1, <4>2, SaveEffect DEF TypeOK
    <3>4. QED
      BY <1>1, <3>1, <3>2, <3>3
         DEF BriefStep, Alert, Ingest, Enrich, Tick, Deliver, Fallback, CheckIncident,
             InsertIncident, SkipIncident, FailBrief, Die
  <2>3. QED
    BY <1>1, <2>1, <2>2 DEF TypeOK, deskVars, BriefTypeOK
<1>2. CASE UNCHANGED vars
  BY <1>2 DEF vars, briefVars, deskVars, TypeOK, BriefTypeOK
<1>3. ASSUME DeskStep PROVE BriefTypeOK'
  <2>1. faults' \in Nat
    <3>1. faults' = faults \/ Fault
      BY <1>3 DEF DeskStep, SetBrief, DeleteBrief, StartPush, CreateTicket, FailPush, StoreTicket,
                  SetIncident, DeleteIncident, Reinvestigate, StartInquiry, Conclude,
                  AbandonInquiry
    <3>2. QED
      BY <3>1 DEF Fault, TypeOK, BriefTypeOK
  <2>2. QED
    BY <1>3, <2>1, DeskBriefs, DeskIncidents DEF NoTask, TypeOK, BriefTypeOK
<1> DEFINE PushesTyped ==
             /\ pushes \in [Request -> Push] /\ tickets \in Seq(Ticket)
             /\ \A r \in Request :
                  /\ pushes[r].pc # "idle" => pushes[r].brief \in DOMAIN briefs
                  /\ pushes[r].pc = "store" => pushes[r].ticket \in DOMAIN tickets
             /\ \A k \in DOMAIN tickets : tickets[k].brief \in DOMAIN briefs
             /\ \A b \in DOMAIN briefs : briefs[b].ticket \in {0} \cup DOMAIN tickets
           InquiriesTyped ==
             /\ inquiries \in [Investigator -> Inquiry]
             /\ stuck \subseteq Nat /\ edits \in Nat
             /\ \A v \in Investigator :
                  inquiries[v].pc # "idle" => inquiries[v].incident \in DOMAIN incidents
<1>4. PushesTyped /\ InquiriesTyped
  BY DEF TypeOK
<1>5. ASSUME briefs' = briefs, tickets' = tickets, pushes' = pushes PROVE PushesTyped'
  BY <1>4, <1>5
<1>6. ASSUME DOMAIN incidents' = DOMAIN incidents, inquiries' = inquiries, stuck' = stuck,
             edits' \in Nat
      PROVE  InquiriesTyped'
  BY <1>4, <1>6
<1>7. DeskStep => edits' \in Nat
  <2>1. DeskStep => edits' = edits \/ Edit
    BY DEF DeskStep, SetBrief, DeleteBrief, StartPush, CreateTicket, FailPush, StoreTicket,
           SetIncident, DeleteIncident, Reinvestigate, StartInquiry, Conclude, AbandonInquiry
  <2>2. QED
    BY <2>1 DEF Edit, TypeOK
<1>8. ASSUME BriefTypeOK', PushesTyped', InquiriesTyped' PROVE TypeOK'
  BY <1>8 DEF TypeOK
<1>9. ASSUME NEW b \in DOMAIN briefs, SetBrief(b) \/ DeleteBrief(b), DeskStep PROVE TypeOK'
  <2>1. PICK row \in Brief :
          /\ briefs' = [briefs EXCEPT ![b] = row]
          /\ row.ticket \in {0, briefs[b].ticket}
    BY <1>9, EditBriefEffect
  <2>2. /\ DOMAIN briefs' = DOMAIN briefs /\ briefs'[b] = row
        /\ \A c \in DOMAIN briefs : c # b => briefs'[c] = briefs[c]
    BY <2>1, ReplaceEffect DEF TypeOK, BriefTypeOK
  <2>3. PushesTyped'
    BY <1>4, <1>9, <2>1, <2>2 DEF SetBrief, DeleteBrief
  <2>4. InquiriesTyped'
    BY <1>6, <1>7, <1>9 DEF SetBrief, DeleteBrief
  <2>5. QED
    BY <1>3, <1>8, <1>9, <2>3, <2>4
<1>10. ASSUME NEW r \in Request, NEW b \in DOMAIN briefs, StartPush(r, b), DeskStep PROVE TypeOK'
  <2>1. PushesTyped'
    BY <1>4, <1>10, StartPushEffect DEF StartPush, Active
  <2>2. InquiriesTyped'
    BY <1>6, <1>7, <1>10 DEF StartPush
  <2>3. QED
    BY <1>3, <1>8, <1>10, <2>1, <2>2
<1>11. ASSUME NEW r \in Request, CreateTicket(r), DeskStep PROVE TypeOK'
  <2> DEFINE push == [pushes[r] EXCEPT !.pc = "store", !.ticket = Len(tickets) + 1]
  <2>1. /\ push \in Push /\ push.brief = pushes[r].brief /\ push.ticket = Len(tickets) + 1
        /\ pushes' = [pushes EXCEPT ![r] = push]
        /\ NewTicket(r) \in Ticket /\ NewTicket(r).brief = pushes[r].brief
        /\ tickets' = Append(tickets, NewTicket(r))
    BY <1>11, CreateTicketEffect DEF Push, Pushed, NewTicket
  <2> HIDE DEF push
  <2>2. /\ tickets' \in Seq(Ticket) /\ DOMAIN tickets' = DOMAIN tickets \cup {Len(tickets) + 1}
        /\ tickets'[Len(tickets) + 1] = NewTicket(r)
        /\ \A k \in DOMAIN tickets : tickets'[k] = tickets[k]
    BY <1>4, <2>1, AppendEffect
  <2>3. pushes[r].brief \in DOMAIN briefs /\ briefs' = briefs
    BY <1>4, <1>11 DEF CreateTicket
  <2>4. PushesTyped'
    BY <1>4, <2>1, <2>2, <2>3
  <2>5. InquiriesTyped'
    BY <1>6, <1>7, <1>11 DEF CreateTicket
  <2>6. QED
    BY <1>3, <1>8, <1>11, <2>4, <2>5
<1>12. ASSUME NEW r \in Request, FailPush(r) \/ StoreTicket(r), DeskStep PROVE TypeOK'
  <2>1. /\ tickets' \in Seq(Ticket) /\ DOMAIN tickets' = DOMAIN tickets
        /\ \A k \in DOMAIN tickets : tickets'[k].brief = tickets[k].brief
        /\ pushes' = [pushes EXCEPT ![r] = IdlePush]
    BY <1>12, FailPushEffect, StoreTicketEffect
  <2>2. \A b \in DOMAIN briefs' : briefs'[b].ticket \in {0} \cup DOMAIN tickets
    <3>1. CASE FailPush(r)
      BY <1>4, <3>1 DEF FailPush
    <3>2. CASE StoreTicket(r)
      <4>1. pushes[r].ticket \in DOMAIN tickets
        BY <1>4, <3>2, StoreTicketEffect
      <4>2. QED
        BY <1>4, <3>2, <4>1, StoreTicketEffect
    <3>3. QED
      BY <1>12, <3>1, <3>2
  <2>3. DOMAIN briefs' = DOMAIN briefs
    BY <1>12, DeskBriefs
  <2>4. PushesTyped'
    BY <1>4, <2>1, <2>2, <2>3, DeskIdleType
  <2>5. InquiriesTyped'
    BY <1>6, <1>7, <1>12 DEF FailPush, StoreTicket
  <2>6. QED
    BY <1>3, <1>8, <1>12, <2>4, <2>5
<1>13. ASSUME NEW i \in DOMAIN incidents, SetIncident(i) \/ DeleteIncident(i), DeskStep
       PROVE  TypeOK'
  <2>1. PushesTyped'
    BY <1>5, <1>13 DEF SetIncident, DeleteIncident
  <2>2. stuck' \subseteq Nat
    <3>1. i \in Nat
      BY DEF TypeOK, BriefTypeOK
    <3>2. QED
      BY <1>4, <1>13, <3>1, SetIncidentEffect DEF DeleteIncident
  <2>3. InquiriesTyped'
    <3>1. inquiries' = inquiries
      BY <1>13 DEF SetIncident, DeleteIncident
    <3>2. DOMAIN incidents' = DOMAIN incidents
      BY <1>13, DeskIncidents
    <3>3. QED
      BY <1>4, <1>7, <1>13, <2>2, <3>1, <3>2
  <2>4. QED
    BY <1>3, <1>8, <1>13, <2>1, <2>3
<1>14. ASSUME NEW v \in Investigator, DeskStep,
              \/ \E i \in DOMAIN incidents : Reinvestigate(v, i)
              \/ StartInquiry(v) \/ Conclude(v) \/ AbandonInquiry(v)
       PROVE  TypeOK'
  <2>1. PushesTyped'
    BY <1>5, <1>14 DEF Reinvestigate, StartInquiry, Conclude, AbandonInquiry
  <2>2. DOMAIN incidents' = DOMAIN incidents
    BY <1>14, DeskIncidents
  <2>3. PICK inquiry \in Inquiry :
          /\ inquiries' = [inquiries EXCEPT ![v] = inquiry]
          /\ inquiry.pc # "idle" => inquiry.incident \in DOMAIN incidents
    <3>1. CASE \E i \in DOMAIN incidents : Reinvestigate(v, i)
      <4>1. PICK i \in DOMAIN incidents : Reinvestigate(v, i)
        BY <3>1
      <4>2. QED
        BY <4>1, ReinvestigateEffect
    <3>2. CASE StartInquiry(v)
      BY <3>2, StartInquiryEffect, DeskIdleType
    <3>3. CASE Conclude(v)
      BY <3>3, ConcludeEffect, DeskIdleType
    <3>4. CASE AbandonInquiry(v)
      BY <3>4, DeskIdleType DEF AbandonInquiry
    <3>5. QED
      BY <1>14, <3>1, <3>2, <3>3, <3>4
  <2>4. stuck' \subseteq Nat
    <3>1. CASE AbandonInquiry(v)
      <4>1. inquiries[v].incident \in DOMAIN incidents
        BY <1>4, <3>1 DEF AbandonInquiry
      <4>2. inquiries[v].incident \in Nat
        BY <4>1 DEF TypeOK, BriefTypeOK
      <4>3. QED
        BY <1>4, <3>1, <4>2 DEF AbandonInquiry
    <3>2. QED
      BY <1>4, <1>14, <3>1 DEF Reinvestigate, StartInquiry, Conclude
  <2>5. InquiriesTyped'
    BY <1>4, <1>7, <1>14, <2>2, <2>3, <2>4
  <2>6. QED
    BY <1>3, <1>8, <1>14, <2>1, <2>5
<1> HIDE DEF PushesTyped, InquiriesTyped
<1>15. CASE DeskStep
  BY <1>9, <1>10, <1>11, <1>12, <1>13, <1>14, <1>15 DEF DeskStep
<1>16. QED
  BY <1>1, <1>2, <1>15 DEF Next

(* Every job, push, ticket and investigation refers to a brief, a ticket or *)
(* an incident that exists, whatever is retried, deleted or lost.           *)
THEOREM TypeCorrect == Spec => []TypeOK
  BY TypeInit, TypeNext, PTL DEF Spec

-----------------------------------------------------------------------------
(* The channels of a brief                                                  *)

LEMMA ChannelsInit == Init => ChannelsInv
  BY DEF Init, BriefInit, IdleJob, ChannelsInv, DeliveryKnown, Sending, SendingPc,
         ChannelsTruthful

(* A step that posts nothing, and after which no further brief is sent.     *)
LEMMA ChannelsStay ==
  ASSUME TypeOK, ChannelsInv, posted' = posted, unheard' = unheard, briefs' = briefs,
         \A w \in Worker : jobs'[w].pc \in SendingPc => jobs'[w] = jobs[w]
  PROVE  ChannelsInv'
<1>1. \A w \in Worker : Sending(w)' => Sending(w) /\ jobs'[w] = jobs[w]
  BY DEF Sending
<1>2. DeliveryKnown'
  BY <1>1 DEF ChannelsInv, DeliveryKnown, Known
<1>3. ChannelsTruthful'
  BY DEF ChannelsInv, ChannelsTruthful
<1>4. QED
  BY <1>2, <1>3 DEF ChannelsInv

(* A step of the job that sends the brief, to which only its posts belong.  *)
LEMMA ChannelsSent ==
  ASSUME TypeOK, ChannelsInv, NEW w \in Worker, Sending(w), briefs' = briefs,
         NEW job, jobs' = [jobs EXCEPT ![w] = job], job.id = jobs[w].id,
         \A b \in DOMAIN briefs : b # jobs[w].id =>
           posted'[b] = posted[b] /\ unheard'[b] = unheard[b],
         Known(job, posted'[job.id], unheard'[job.id])
  PROVE  ChannelsInv'
<1>1. jobs'[w] = job /\ \A v \in Worker \ {w} : jobs'[v] = jobs[v]
  BY DEF TypeOK, BriefTypeOK
<1>2. DeliveryKnown'
  <2> SUFFICES ASSUME NEW v \in Worker, Sending(v)'
               PROVE  /\ briefs[jobs'[v].id].status = "unsaved"
                      /\ \A x \in Worker \ {v} : Sending(x)' => jobs'[x].id # jobs'[v].id
                      /\ Known(jobs'[v], posted'[jobs'[v].id], unheard'[jobs'[v].id])
    BY DEF DeliveryKnown, Known
  <2>1. \A x \in Worker : jobs'[x].id = jobs[x].id /\ (Sending(x)' => Sending(x))
    BY <1>1 DEF Sending
  <2>2. /\ briefs[jobs[v].id].status = "unsaved"
        /\ \A x \in Worker \ {v} : Sending(x) => jobs[x].id # jobs[v].id
        /\ Known(jobs[v], posted[jobs[v].id], unheard[jobs[v].id])
    BY <2>1 DEF ChannelsInv, DeliveryKnown
  <2>3. CASE v = w
    BY <1>1, <2>1, <2>2, <2>3
  <2>4. CASE v # w
    <3>1. jobs'[v] = jobs[v] /\ jobs[v].id # jobs[w].id
      BY <1>1, <2>2, <2>4
    <3>2. jobs[v].id \in DOMAIN briefs
      BY <2>1, JobType DEF TypeOK, Sending, SendingPc
    <3>3. QED
      BY <2>1, <2>2, <3>1, <3>2
  <2>5. QED
    BY <2>3, <2>4
<1>3. ChannelsTruthful'
  <2>1. briefs[jobs[w].id].status = "unsaved"
    BY DEF ChannelsInv, DeliveryKnown
  <2>2. QED
    BY <2>1 DEF ChannelsInv, ChannelsTruthful
<1>4. QED
  BY <1>2, <1>3 DEF ChannelsInv

LEMMA ChannelsGenerate ==
  ASSUME TypeOK, ChannelsInv, NEW w \in Worker, Generate(w)
  PROVE  ChannelsInv'
<1>1. PICK t \in tasks, title \in GeneratedTitle :
        /\ t.targets \in SUBSET Team
        /\ jobs' = [jobs EXCEPT ![w] = Generated(t, title)]
        /\ briefs' = Append(briefs, NoBrief) /\ NoBrief \in Brief
        /\ posted' = Append(posted, {}) /\ unheard' = Append(unheard, {})
  BY GenerateEffect DEF TypeOK
<1> DEFINE n == Len(briefs) + 1
<1>2. /\ briefs \in Seq(Brief) /\ posted \in Seq(SUBSET Channel) /\ unheard \in Seq(SUBSET Channel)
      /\ Len(posted) = Len(briefs) /\ Len(unheard) = Len(briefs)
      /\ DOMAIN posted = DOMAIN briefs /\ DOMAIN unheard = DOMAIN briefs
  BY SameDomain DEF TypeOK, BriefTypeOK
<1>3. /\ DOMAIN briefs' = DOMAIN briefs \cup {n} /\ n \notin DOMAIN briefs
      /\ briefs'[n] = NoBrief /\ \A b \in DOMAIN briefs : briefs'[b] = briefs[b]
  BY <1>1, <1>2, AppendEffect
<1>4. posted'[n] = {} /\ \A b \in DOMAIN briefs : posted'[b] = posted[b]
  BY <1>1, <1>2, AppendEffect
<1>5. unheard'[n] = {} /\ \A b \in DOMAIN briefs : unheard'[b] = unheard[b]
  BY <1>1, <1>2, AppendEffect
<1>6. /\ jobs'[w] = Generated(t, title) /\ jobs'[w].id = n
      /\ \A v \in Worker \ {w} : jobs'[v] = jobs[v]
  BY <1>1 DEF TypeOK, BriefTypeOK, Generated
<1>7. \A v \in Worker : Sending(v) => jobs[v].id \in DOMAIN briefs
  BY JobType DEF TypeOK, Sending, SendingPc
<1>8. NoBrief.status = "unsaved"
  BY DEF NoBrief
<1>9. DeliveryKnown'
  <2> SUFFICES ASSUME NEW v \in Worker, Sending(v)'
               PROVE  /\ briefs'[jobs'[v].id].status = "unsaved"
                      /\ \A x \in Worker \ {v} : Sending(x)' => jobs'[x].id # jobs'[v].id
                      /\ Known(jobs'[v], posted'[jobs'[v].id], unheard'[jobs'[v].id])
    BY DEF DeliveryKnown, Known
  <2>1. \A x \in Worker \ {w} : Sending(x)' => Sending(x) /\ jobs'[x].id # n
    BY <1>3, <1>6, <1>7 DEF Sending
  <2>2. CASE v = w
    <3>1. Known(Generated(t, title), {}, {})
      BY DEF Known, Generated
    <3>2. QED
      BY <1>3, <1>4, <1>5, <1>6, <1>8, <2>1, <2>2, <3>1
  <2>3. CASE v # w
    <3>1. /\ briefs[jobs[v].id].status = "unsaved"
          /\ \A x \in Worker \ {v} : Sending(x) => jobs[x].id # jobs[v].id
          /\ Known(jobs[v], posted[jobs[v].id], unheard[jobs[v].id])
      BY <2>1, <2>3 DEF ChannelsInv, DeliveryKnown
    <3>2. jobs'[v] = jobs[v] /\ jobs[v].id \in DOMAIN briefs
      BY <1>6, <1>7, <2>1, <2>3
    <3>3. \A x \in Worker \ {v} : Sending(x)' => jobs'[x].id # jobs'[v].id
      BY <1>3, <1>6, <2>1, <3>1, <3>2
    <3>4. QED
      BY <1>3, <1>4, <1>5, <3>1, <3>2, <3>3
  <2>4. QED
    BY <2>2, <2>3
<1>10. ChannelsTruthful'
  BY <1>3, <1>4, <1>5, <1>8 DEF ChannelsInv, ChannelsTruthful
<1>11. QED
  BY <1>9, <1>10 DEF ChannelsInv

LEMMA ChannelsDeliver ==
  ASSUME TypeOK, ChannelsInv, NEW w \in Worker, Deliver(w)
  PROVE  ChannelsInv'
<1> DEFINE id == jobs[w].id
<1>1. PICK team \in jobs[w].left, told \in BOOLEAN :
        /\ team \in Team
        /\ Send(id, team, told)
        /\ jobs' = [jobs EXCEPT ![w] = Delivered(w, team, told)]
        /\ LET job == Delivered(w, team, told)
               sent == IF told THEN jobs[w].sent \cup {team} ELSE jobs[w].sent
           IN  /\ job.id = id /\ job.left = jobs[w].left \ {team}
               /\ job.sent = sent /\ job.pc = Then(job.left, sent)
  BY DeliverEffect DEF TypeOK
<1> DEFINE job == Delivered(w, team, told)
<1>2. Sending(w) /\ id \in DOMAIN briefs /\ jobs[w].pc = "deliver"
  BY JobType DEF Deliver, Sending, SendingPc, TypeOK
<1>3. Known(jobs[w], posted[id], unheard[id])
  BY <1>2 DEF ChannelsInv, DeliveryKnown
<1>4. team \notin posted[id] /\ posted[id] \subseteq Team
  BY <1>2, <1>3 DEF Known
<1>5. /\ \A b \in DOMAIN briefs : b # id => posted'[b] = posted[b] /\ unheard'[b] = unheard[b]
      /\ \/ /\ told /\ posted'[id] = posted[id] \cup {team} /\ unheard'[id] = unheard[id]
         \/ /\ ~told /\ posted'[id] = posted[id] /\ unheard'[id] = unheard[id]
         \/ /\ ~told /\ posted'[id] = posted[id] \cup {team}
            /\ unheard'[id] = unheard[id] \cup {team}
  BY <1>1, <1>2, SendEffect DEF TypeOK, Channel
<1>6. job.pc = "bot" => job.sent = {}
  BY <1>1 DEF Then
<1>7. posted'[id] \cap job.left = {} /\ posted'[id] \subseteq Team
  BY <1>1, <1>3, <1>4, <1>5 DEF Known
<1>8. unheard'[id] \subseteq posted'[id]
  BY <1>3, <1>5 DEF Known
<1>9. job.sent = posted'[id] \ unheard'[id]
  BY <1>1, <1>3, <1>4, <1>5 DEF Known
<1>10. Known(job, posted'[job.id], unheard'[job.id]) /\ job.id = id
  BY <1>1, <1>6, <1>7, <1>8, <1>9 DEF Known
<1>11. briefs' = briefs
  BY DEF Deliver
<1> HIDE DEF job
<1>12. QED
  BY <1>1, <1>2, <1>5, <1>10, <1>11, ChannelsSent DEF job

LEMMA ChannelsFallback ==
  ASSUME TypeOK, ChannelsInv, NEW w \in Worker, Fallback(w)
  PROVE  ChannelsInv'
<1> DEFINE id == jobs[w].id
<1>1. Sending(w) /\ id \in DOMAIN briefs /\ jobs[w].pc = "bot" /\ jobs[w] \in Working
  BY JobType DEF Fallback, Sending, SendingPc, TypeOK
<1>2. Known(jobs[w], posted[id], unheard[id])
  BY <1>1 DEF ChannelsInv, DeliveryKnown
<1>3. "bot" \notin posted[id] /\ "bot" \notin jobs[w].left
  <2>1. "bot" \notin Team
    BY BriefAssumption
  <2>2. posted[id] \subseteq Team
    BY <1>1, <1>2 DEF Known
  <2>3. jobs[w].left \subseteq Team
    BY <1>1 DEF Working
  <2>4. QED
    BY <2>1, <2>2, <2>3
<1>4. briefs' = briefs
  BY DEF Fallback
<1>5. CASE \E told \in BOOLEAN :
             /\ Send(id, "bot", told)
             /\ BotTold(w, told).id = id
             /\ BotTold(w, told).pc = "save"
             /\ BotTold(w, told).left = jobs[w].left
             /\ BotTold(w, told).sent = IF told THEN {"bot"} ELSE jobs[w].sent
             /\ jobs' = [jobs EXCEPT ![w] = BotTold(w, told)]
  <2>1. PICK told \in BOOLEAN :
             /\ Send(id, "bot", told)
             /\ BotTold(w, told).id = id
             /\ BotTold(w, told).pc = "save"
             /\ BotTold(w, told).left = jobs[w].left
             /\ BotTold(w, told).sent = IF told THEN {"bot"} ELSE jobs[w].sent
             /\ jobs' = [jobs EXCEPT ![w] = BotTold(w, told)]
    BY <1>5
  <2> DEFINE job == BotTold(w, told)
  <2>2. /\ \A b \in DOMAIN briefs :
             b # id => posted'[b] = posted[b] /\ unheard'[b] = unheard[b]
        /\ \/ /\ told /\ posted'[id] = posted[id] \cup {"bot"} /\ unheard'[id] = unheard[id]
           \/ /\ ~told /\ posted'[id] = posted[id] /\ unheard'[id] = unheard[id]
           \/ /\ ~told /\ posted'[id] = posted[id] \cup {"bot"}
              /\ unheard'[id] = unheard[id] \cup {"bot"}
    <3>1. BriefTypeOK /\ "bot" \in Channel /\ id \in DOMAIN briefs /\ Send(id, "bot", told)
      BY <1>1, <2>1 DEF TypeOK, Channel
    <3>2. QED
      BY <3>1, SendEffect
  <2>3. unheard'[id] \subseteq posted'[id] /\ posted'[id] \cap job.left = {}
    BY <1>2, <1>3, <2>1, <2>2 DEF Known
  <2>4. job.sent = posted'[id] \ unheard'[id]
    BY <1>1, <1>2, <1>3, <2>1, <2>2 DEF Known
  <2>5. Known(job, posted'[job.id], unheard'[job.id]) /\ job.id = id
    BY <2>1, <2>3, <2>4 DEF Known
  <2> HIDE DEF job
  <2>6. QED
    BY <1>1, <1>4, <2>1, <2>2, <2>5, ChannelsSent DEF job
<1>6. CASE /\ jobs' = [jobs EXCEPT ![w] = [jobs[w] EXCEPT !.pc = "save"]]
           /\ UNCHANGED <<posted, unheard, faults>>
  <2> DEFINE job == [jobs[w] EXCEPT !.pc = "save"]
  <2>1. /\ job.id = id /\ job.pc = "save" /\ job.left = jobs[w].left
        /\ job.sent = jobs[w].sent
    BY <1>1 DEF Working
  <2>2. Known(job, posted'[job.id], unheard'[job.id])
    BY <1>2, <1>6, <2>1 DEF Known
  <2> HIDE DEF job
  <2>3. QED
    BY <1>1, <1>4, <1>6, <2>1, <2>2, ChannelsSent DEF job
<1>7. QED
  BY <1>5, <1>6, FallbackEffect DEF TypeOK

LEMMA ChannelsSave ==
  ASSUME TypeOK, ChannelsInv, NEW w \in Worker, Save(w)
  PROVE  ChannelsInv'
<1> DEFINE id == jobs[w].id
           job == [jobs[w] EXCEPT !.pc = "check"]
<1>1. /\ id \in DOMAIN briefs /\ job.pc = "check"
      /\ jobs' = [jobs EXCEPT ![w] = job]
      /\ Saved(jobs[w].sent) \in Brief
      /\ \/ briefs' = [briefs EXCEPT ![id] = Saved(jobs[w].sent)]
         \/ briefs' = briefs
  BY SaveEffect DEF TypeOK
<1>2. Sending(w) /\ posted' = posted /\ unheard' = unheard
  BY DEF Save, Sending, SendingPc
<1>3. /\ \A v \in Worker \ {w} : Sending(v) => jobs[v].id # id
      /\ jobs[w].sent = posted[id] \ unheard[id]
  BY <1>2 DEF ChannelsInv, DeliveryKnown, Known
<1>4. ~Sending(w)' /\ \A v \in Worker \ {w} : jobs'[v] = jobs[v]
  BY <1>1 DEF TypeOK, BriefTypeOK, Sending, SendingPc
<1>5. /\ DOMAIN briefs' = DOMAIN briefs
      /\ briefs'[id] = Saved(jobs[w].sent) \/ briefs'[id] = briefs[id]
      /\ \A b \in DOMAIN briefs : b # id => briefs'[b] = briefs[b]
  <2>1. CASE briefs' = [briefs EXCEPT ![id] = Saved(jobs[w].sent)]
    BY <1>1, <2>1, ReplaceEffect DEF TypeOK, BriefTypeOK
  <2>2. CASE briefs' = briefs
    BY <2>2
  <2>3. QED
    BY <1>1, <2>1, <2>2
<1>6. DeliveryKnown'
  <2>1. \A v \in Worker : Sending(v)' =>
          v # w /\ Sending(v) /\ jobs'[v] = jobs[v] /\ jobs[v].id # id
    BY <1>3, <1>4 DEF Sending
  <2>2. \A v \in Worker : Sending(v) => jobs[v].id \in DOMAIN briefs
    BY JobType DEF TypeOK, Sending, SendingPc
  <2>3. QED
    BY <1>2, <1>5, <2>1, <2>2 DEF ChannelsInv, DeliveryKnown, Known
<1>7. ChannelsTruthful'
  <2>1. Saved(jobs[w].sent).sent = posted[id] \ unheard[id]
    BY <1>3 DEF Saved
  <2>2. QED
    BY <1>2, <1>5, <2>1 DEF ChannelsInv, ChannelsTruthful
<1>8. QED
  BY <1>6, <1>7 DEF ChannelsInv

LEMMA ChannelsDesk ==
  ASSUME TypeOK, ChannelsInv, DeskStep
  PROVE  ChannelsInv'
<1>1. /\ DOMAIN briefs' = DOMAIN briefs
      /\ \A b \in DOMAIN briefs :
           /\ briefs'[b].status = "unsaved" <=> briefs[b].status = "unsaved"
           /\ briefs'[b].status \notin {"unsaved", "deleted"} =>
                /\ briefs'[b].sent = briefs[b].sent
                /\ briefs[b].status \notin {"unsaved", "deleted"}
      /\ jobs' = jobs /\ posted' = posted /\ unheard' = unheard
  BY DeskBriefs DEF NoTask
<1>2. \A v \in Worker : Sending(v) => jobs[v].id \in DOMAIN briefs
  BY JobType DEF TypeOK, Sending, SendingPc
<1>3. \A v \in Worker : Sending(v)' = Sending(v)
  BY <1>1 DEF Sending
<1>4. DeliveryKnown'
  BY <1>1, <1>2, <1>3 DEF ChannelsInv, DeliveryKnown, Known
<1>5. ChannelsTruthful'
  BY <1>1 DEF ChannelsInv, ChannelsTruthful
<1>6. QED
  BY <1>4, <1>5 DEF ChannelsInv

LEMMA ChannelsNext == TypeOK /\ ChannelsInv /\ [Next]_vars => ChannelsInv'
<1> SUFFICES ASSUME TypeOK, ChannelsInv, [Next]_vars PROVE ChannelsInv'
  OBVIOUS
<1>1. CASE UNCHANGED vars
  BY <1>1, ChannelsStay DEF vars, briefVars
<1>2. CASE Alert \/ Ingest \/ Enrich \/ Tick
  <2>1. UNCHANGED <<jobs, posted, unheard, briefs>>
    BY <1>2 DEF Alert, Ingest, Enrich, Tick
  <2>2. QED
    BY <2>1, ChannelsStay
<1>3. ASSUME NEW w \in Worker,
             \/ CheckIncident(w) \/ InsertIncident(w) \/ SkipIncident(w)
             \/ FailBrief(w) \/ Die(w)
      PROVE  ChannelsInv'
  <2>1. UNCHANGED <<posted, unheard, briefs>>
    BY <1>3 DEF CheckIncident, InsertIncident, SkipIncident, FailBrief, Die
  <2>2. PICK job : jobs' = [jobs EXCEPT ![w] = job] /\ job.pc \notin SendingPc
    <3>1. CASE CheckIncident(w)
      BY <3>1, CheckEffect, IdleType DEF SendingPc, TypeOK
    <3>2. CASE InsertIncident(w) \/ SkipIncident(w) \/ FailBrief(w) \/ Die(w)
      BY <3>2, IdleType DEF InsertIncident, SkipIncident, FailBrief, Die, SendingPc
    <3>3. QED
      BY <1>3, <3>1, <3>2
  <2>3. jobs'[w] = job /\ \A v \in Worker \ {w} : jobs'[v] = jobs[v]
    BY <2>2 DEF TypeOK, BriefTypeOK
  <2>4. QED
    BY <2>1, <2>2, <2>3, ChannelsStay
<1>4. CASE BriefStep
  BY <1>2, <1>3, <1>4, ChannelsGenerate, ChannelsDeliver, ChannelsFallback, ChannelsSave
     DEF BriefStep
<1>5. QED
  BY <1>1, <1>4, ChannelsDesk DEF Next

(* What a brief says of its deliveries is what was posted, but for posts    *)
(* taken for failures: retries, deaths and status changes do not touch it.  *)
THEOREM ChannelsHold == Spec => []ChannelsTruthful
<1>1. ChannelsInv => ChannelsTruthful
  BY DEF ChannelsInv
<1>2. QED
  BY <1>1, TypeCorrect, ChannelsInit, ChannelsNext, PTL DEF Spec

-----------------------------------------------------------------------------
(* The incidents of one title                                               *)

LEMMA DuplicatesInit == Init => DuplicatesInv
  BY DEF Init, BriefInit, IdleJob, DuplicatesInv, NoneWasRecent, DuplicatesOverlap

(* A step that inserts no incident, brings none back, and after which no    *)
(* further job is about to insert.                                          *)
LEMMA DuplicatesStay ==
  ASSUME TypeOK, DuplicatesInv,
         Len(incidents') = Len(incidents), DOMAIN incidents' = DOMAIN incidents,
         \A i \in DOMAIN incidents :
           /\ incidents'[i].title = incidents[i].title
           /\ incidents'[i].at = incidents[i].at
           /\ incidents'[i].detected = incidents[i].detected
           /\ incidents'[i].seen = incidents[i].seen
           /\ incidents'[i].status # "deleted" => incidents[i].status # "deleted",
         \A w \in Worker : jobs'[w].pc = "insert" => jobs'[w] = jobs[w]
  PROVE  DuplicatesInv'
<1>1. NoneWasRecent'
  <2> SUFFICES ASSUME NEW w \in Worker, jobs'[w].pc = "insert"
               PROVE  /\ jobs'[w].seen <= Len(incidents')
                      /\ \A i \in DOMAIN incidents' :
                           i <= jobs'[w].seen =>
                             ~Recent(i, jobs[w].title, jobs[w].detected)'
    BY DEF NoneWasRecent, Recent, Exists
  <2>1. /\ jobs[w].seen <= Len(incidents)
        /\ \A i \in DOMAIN incidents :
             i <= jobs[w].seen => ~Recent(i, jobs[w].title, jobs[w].detected)
        /\ jobs'[w] = jobs[w]
    BY DEF DuplicatesInv, NoneWasRecent
  <2>2. QED
    BY <2>1 DEF Recent, Exists
<1>2. DuplicatesOverlap'
  BY DEF DuplicatesInv, DuplicatesOverlap, Exists
<1>3. QED
  BY <1>1, <1>2 DEF DuplicatesInv

LEMMA DuplicatesCheck ==
  ASSUME TypeOK, DuplicatesInv, NEW w \in Worker, CheckIncident(w)
  PROVE  DuplicatesInv'
<1> DEFINE job == [jobs[w] EXCEPT !.pc = "insert", !.seen = Len(incidents)]
<1>1. /\ job.seen = Len(incidents)
      /\ job.title = jobs[w].title /\ job.detected = jobs[w].detected
      /\ \/ jobs' = [jobs EXCEPT ![w] = IdleJob]
         \/ /\ jobs' = [jobs EXCEPT ![w] = job]
            /\ \A i \in DOMAIN incidents : ~Recent(i, jobs[w].title, jobs[w].detected)
  BY CheckEffect DEF TypeOK
<1>2. incidents' = incidents
  BY DEF CheckIncident
<1>3. \A v \in Worker \ {w} : jobs'[v] = jobs[v]
  BY <1>1 DEF TypeOK, BriefTypeOK
<1> HIDE DEF job
<1>4. CASE jobs' = [jobs EXCEPT ![w] = IdleJob]
  <2>1. jobs'[w].pc = "idle"
    BY <1>4, IdleType DEF TypeOK, BriefTypeOK
  <2>2. QED
    BY <1>2, <1>3, <2>1, DuplicatesStay
<1>5. CASE /\ jobs' = [jobs EXCEPT ![w] = job]
           /\ \A i \in DOMAIN incidents : ~Recent(i, jobs[w].title, jobs[w].detected)
  <2>1. jobs'[w] = job
    BY <1>5 DEF TypeOK, BriefTypeOK
  <2>2. Len(incidents) \in Nat
    BY DEF TypeOK, BriefTypeOK
  <2>3. NoneWasRecent'
    <3> SUFFICES ASSUME NEW v \in Worker, jobs'[v].pc = "insert"
                 PROVE  /\ jobs'[v].seen <= Len(incidents)
                        /\ \A i \in DOMAIN incidents :
                             i <= jobs'[v].seen =>
                               ~Recent(i, jobs'[v].title, jobs'[v].detected)
      BY <1>2 DEF NoneWasRecent, Recent, Exists
    <3>1. CASE v = w
      BY <1>1, <1>5, <2>1, <2>2, <3>1
    <3>2. CASE v # w
      BY <1>3, <3>2 DEF DuplicatesInv, NoneWasRecent
    <3>3. QED
      BY <3>1, <3>2
  <2>4. DuplicatesOverlap'
    BY <1>2 DEF DuplicatesInv, DuplicatesOverlap, Exists
  <2>5. QED
    BY <2>3, <2>4 DEF DuplicatesInv
<1>6. QED
  BY <1>1, <1>4, <1>5

LEMMA DuplicatesInsert ==
  ASSUME TypeOK, DuplicatesInv, NEW w \in Worker, InsertIncident(w)
  PROVE  DuplicatesInv'
<1> DEFINE n == Len(incidents) + 1
           new == NewIncident(w)
<1>1. /\ new \in Incident /\ incidents' = Append(incidents, new)
      /\ jobs' = [jobs EXCEPT ![w] = IdleJob]
  BY InsertEffect DEF TypeOK
<1>2. incidents \in Seq(Incident) /\ DOMAIN incidents = 1 .. Len(incidents)
      /\ Len(incidents) \in Nat
  BY DEF TypeOK, BriefTypeOK
<1>3. /\ DOMAIN incidents' = DOMAIN incidents \cup {n} /\ n \notin DOMAIN incidents
      /\ Len(incidents') = n
      /\ incidents'[n] = new
      /\ \A i \in DOMAIN incidents : incidents'[i] = incidents[i]
  BY <1>1, <1>2, AppendEffect
<1>4. /\ new.title = jobs[w].title /\ new.detected = jobs[w].detected
      /\ new.seen = jobs[w].seen
  BY DEF NewIncident
<1> HIDE DEF new
<1>5. /\ jobs'[w].pc = "idle" /\ \A v \in Worker \ {w} : jobs'[v] = jobs[v]
  BY <1>1, IdleType DEF TypeOK, BriefTypeOK
<1>6. NoneWasRecent'
  <2> SUFFICES ASSUME NEW v \in Worker, jobs'[v].pc = "insert"
               PROVE  /\ jobs'[v].seen <= Len(incidents')
                      /\ \A i \in DOMAIN incidents' :
                           i <= jobs'[v].seen =>
                             ~Recent(i, jobs[v].title, jobs[v].detected)'
    BY DEF NoneWasRecent, Recent, Exists
  <2>1. jobs'[v] = jobs[v] /\ jobs[v].pc = "insert"
    BY <1>5
  <2>2. /\ jobs[v].seen <= Len(incidents)
        /\ \A i \in DOMAIN incidents :
             i <= jobs[v].seen => ~Recent(i, jobs[v].title, jobs[v].detected)
    BY <2>1 DEF DuplicatesInv, NoneWasRecent
  <2>3. jobs[v].seen \in Nat
    BY <2>1, JobType DEF TypeOK, Working
  <2>4. jobs'[v].seen <= Len(incidents') /\ jobs'[v].seen < n
    BY <1>2, <1>3, <2>1, <2>2, <2>3
  <2>5. ASSUME NEW i \in DOMAIN incidents', i <= jobs'[v].seen
        PROVE  ~Recent(i, jobs[v].title, jobs[v].detected)'
    <3>1. i \in DOMAIN incidents
      BY <1>2, <1>3, <2>1, <2>3, <2>4, <2>5
    <3>2. incidents'[i] = incidents[i] /\ ~Recent(i, jobs[v].title, jobs[v].detected)
      BY <1>3, <2>1, <2>2, <2>5, <3>1
    <3>3. QED
      BY <2>1, <3>2 DEF Recent, Exists
  <2>6. QED
    BY <2>4, <2>5
<1>7. DuplicatesOverlap'
  <2> SUFFICES ASSUME NEW i \in DOMAIN incidents', NEW j \in DOMAIN incidents',
                      i < j, Exists(i)',
                      incidents'[i].title = incidents'[j].title,
                      incidents'[i].at + Cooldown >= incidents'[j].detected
               PROVE  incidents'[j].seen < i
    BY DEF DuplicatesOverlap, Exists
  <2>1. i \in DOMAIN incidents /\ incidents'[i] = incidents[i] /\ Exists(i)
    BY <1>2, <1>3 DEF Exists
  <2>2. CASE j = n
    <3>1. Recent(i, jobs[w].title, jobs[w].detected)
      BY <1>3, <1>4, <2>1, <2>2 DEF Recent
    <3>2. ~(i <= jobs[w].seen)
      BY <2>1, <3>1 DEF DuplicatesInv, NoneWasRecent, InsertIncident
    <3>3. jobs[w].seen \in Nat /\ i \in Nat
      BY <1>2, <2>1, JobType DEF TypeOK, Working, InsertIncident
    <3>4. QED
      BY <1>3, <1>4, <2>2, <3>2, <3>3
  <2>3. CASE j # n
    <3>1. j \in DOMAIN incidents /\ incidents'[j] = incidents[j]
      BY <1>3, <2>3
    <3>2. QED
      BY <2>1, <3>1 DEF DuplicatesInv, DuplicatesOverlap
  <2>4. QED
    BY <2>2, <2>3
<1>8. QED
  BY <1>6, <1>7 DEF DuplicatesInv

LEMMA DuplicatesNext == TypeOK /\ DuplicatesInv /\ [Next]_vars => DuplicatesInv'
<1> SUFFICES ASSUME TypeOK, DuplicatesInv, [Next]_vars PROVE DuplicatesInv'
  OBVIOUS
<1>1. ASSUME incidents' = incidents,
             \A w \in Worker : jobs'[w].pc = "insert" => jobs'[w] = jobs[w]
      PROVE  DuplicatesInv'
  BY <1>1, DuplicatesStay
<1>2. CASE UNCHANGED vars
  BY <1>1, <1>2 DEF vars, briefVars
<1>3. CASE Alert \/ Ingest \/ Enrich \/ Tick
  BY <1>1, <1>3 DEF Alert, Ingest, Enrich, Tick
<1>4. ASSUME NEW w \in Worker,
             \/ Generate(w) \/ Deliver(w) \/ Fallback(w) \/ Save(w) \/ SkipIncident(w)
             \/ FailBrief(w) \/ Die(w)
      PROVE  DuplicatesInv'
  <2>1. incidents' = incidents
    BY <1>4 DEF Generate, Deliver, Fallback, Save, SkipIncident, FailBrief, Die
  <2>2. PICK job : jobs' = [jobs EXCEPT ![w] = job] /\ job.pc # "insert"
    <3>1. CASE Generate(w)
      <4>1. PICK t \in tasks, title \in GeneratedTitle :
              jobs' = [jobs EXCEPT ![w] = Generated(t, title)]
        BY <3>1, GenerateEffect DEF TypeOK
      <4>2. Generated(t, title).pc # "insert"
        BY DEF Generated, Then
      <4>3. QED
        BY <4>1, <4>2
    <3>2. CASE Deliver(w)
      BY <3>2, DeliverEffect DEF TypeOK, Then
    <3>3. CASE Fallback(w)
      <4>1. [jobs[w] EXCEPT !.pc = "save"].pc # "insert"
        BY <3>3, JobType DEF TypeOK, Working, Fallback
      <4>2. QED
        BY <3>3, <4>1, FallbackEffect DEF TypeOK
    <3>4. CASE Save(w)
      BY <3>4, SaveEffect DEF TypeOK
    <3>5. CASE SkipIncident(w) \/ FailBrief(w) \/ Die(w)
      BY <3>5, IdleType DEF SkipIncident, FailBrief, Die
    <3>6. QED
      BY <1>4, <3>1, <3>2, <3>3, <3>4, <3>5
  <2>3. jobs'[w] = job /\ \A v \in Worker \ {w} : jobs'[v] = jobs[v]
    BY <2>2 DEF TypeOK, BriefTypeOK
  <2>4. QED
    BY <1>1, <2>1, <2>2, <2>3
<1>5. CASE BriefStep
  BY <1>3, <1>4, <1>5, DuplicatesCheck, DuplicatesInsert DEF BriefStep
<1>6. CASE DeskStep
  <2>1. /\ incidents' \in Seq(Incident)
        /\ DOMAIN incidents' = DOMAIN incidents
        /\ \A i \in DOMAIN incidents :
             /\ incidents'[i].title = incidents[i].title
             /\ incidents'[i].at = incidents[i].at
             /\ incidents'[i].detected = incidents[i].detected
             /\ incidents'[i].seen = incidents[i].seen
             /\ incidents'[i].status # "deleted" => incidents[i].status # "deleted"
        /\ jobs' = jobs
    BY <1>6, DeskIncidents, DeskBriefs DEF NoTask
  <2>2. Len(incidents') = Len(incidents)
    BY <2>1 DEF TypeOK, BriefTypeOK
  <2>3. QED
    BY <2>1, <2>2, DuplicatesStay
<1>7. QED
  BY <1>2, <1>5, <1>6 DEF Next

(* Two incidents of one title within the cooldown come from tasks that      *)
(* overlapped, whatever users do with the earlier one short of deleting it. *)
THEOREM DuplicatesHold == Spec => []DuplicatesOverlap
<1>1. DuplicatesInv => DuplicatesOverlap
  BY DEF DuplicatesInv
<1>2. QED
  BY <1>1, TypeCorrect, DuplicatesInit, DuplicatesNext, PTL DEF Spec

-----------------------------------------------------------------------------
(* The tickets of a brief                                                   *)

LEMMA OrphansInit == Init => OrphansInv
  BY DEF Init, BriefInit, IdlePush, OrphansInv, PushedIsSaved, HeldUnnamed, OverlapKnown,
         OrphansExplained, Active

(* A step that changes only briefs: those it saves had no push and no       *)
(* ticket, and a ticket is only forgotten with its brief.                   *)
LEMMA OrphansBriefs ==
  ASSUME TypeOK, OrphansInv, pushes' = pushes, tickets' = tickets,
         DOMAIN briefs \subseteq DOMAIN briefs',
         \A b \in DOMAIN briefs :
           briefs[b].status # "unsaved" =>
             /\ briefs'[b].status # "unsaved"
             /\ briefs[b].status = "deleted" => briefs'[b].status = "deleted"
             /\ briefs'[b].status = "deleted" \/ briefs'[b].ticket = briefs[b].ticket,
         \A b \in DOMAIN briefs' :
           \/ briefs'[b].ticket = 0
           \/ b \in DOMAIN briefs /\ briefs'[b].ticket = briefs[b].ticket
  PROVE  OrphansInv'
<1>1. /\ \A r \in Request : Active(r) => pushes[r].brief \in DOMAIN briefs
      /\ \A k \in DOMAIN tickets : tickets[k].brief \in DOMAIN briefs /\ k # 0
      /\ \A r \in Request : pushes[r].pc = "store" => pushes[r].ticket \in DOMAIN tickets
  BY DEF TypeOK, Active
<1>2. \A r \in Request : Active(r)' = Active(r)
  BY DEF Active
<1>3. PushedIsSaved'
  BY <1>1, <1>2 DEF OrphansInv, PushedIsSaved
<1>4. HeldUnnamed'
  <2> SUFFICES ASSUME NEW r \in Request, pushes[r].pc = "store"
               PROVE  /\ tickets[pushes[r].ticket].brief = pushes[r].brief
                      /\ \A b \in DOMAIN briefs' : briefs'[b].ticket # pushes[r].ticket
                      /\ \A q \in Request \ {r} :
                           pushes[q].pc = "store" => pushes[q].ticket # pushes[r].ticket
    BY DEF HeldUnnamed
  <2>1. pushes[r].ticket # 0
    BY <1>1
  <2>2. QED
    BY <2>1 DEF OrphansInv, HeldUnnamed
<1>5. OverlapKnown'
  BY <1>1, <1>2 DEF OrphansInv, OverlapKnown
<1>6. OrphansExplained'
  <2> SUFFICES ASSUME NEW k \in DOMAIN tickets
               PROVE  \/ Held(k)' \/ tickets[k].overlapped \/ tickets[k].lost
                      \/ briefs'[tickets[k].brief].status = "deleted"
                      \/ briefs'[tickets[k].brief].ticket = k
    BY DEF OrphansExplained, Held
  <2>1. Held(k)' = Held(k)
    BY DEF Held
  <2>2. tickets[k].brief \in DOMAIN briefs /\ briefs[tickets[k].brief].status # "unsaved"
    BY <1>1 DEF OrphansInv, PushedIsSaved
  <2>3. QED
    BY <2>1, <2>2 DEF OrphansInv, OrphansExplained
<1>7. QED
  BY <1>3, <1>4, <1>5, <1>6 DEF OrphansInv

LEMMA OrphansBriefStep ==
  ASSUME TypeOK, ChannelsInv, OrphansInv, BriefStep, UNCHANGED deskVars
  PROVE  OrphansInv'
<1>1. pushes' = pushes /\ tickets' = tickets
  BY DEF deskVars
<1>2. CASE briefs' = briefs
  BY <1>1, <1>2, OrphansBriefs
<1>3. ASSUME NEW w \in Worker, Generate(w) PROVE OrphansInv'
  <2>1. briefs' = Append(briefs, NoBrief) /\ NoBrief \in Brief /\ NoBrief.ticket = 0
    BY <1>3, GenerateEffect DEF TypeOK, NoBrief
  <2>2. /\ DOMAIN briefs' = DOMAIN briefs \cup {Len(briefs) + 1}
        /\ briefs'[Len(briefs) + 1] = NoBrief
        /\ \A b \in DOMAIN briefs : briefs'[b] = briefs[b]
    BY <2>1, AppendEffect DEF TypeOK, BriefTypeOK
  <2>3. QED
    BY <1>1, <2>1, <2>2, OrphansBriefs
<1>4. ASSUME NEW w \in Worker, Save(w) PROVE OrphansInv'
  <2> DEFINE id == jobs[w].id
             row == Saved(jobs[w].sent)
  <2>1. CASE briefs' = [briefs EXCEPT ![id] = row]
    <3>1. id \in DOMAIN briefs /\ row \in Brief /\ row.ticket = 0
      BY <1>4, SaveEffect DEF TypeOK, Saved
    <3>2. briefs[id].status = "unsaved"
      BY <1>4 DEF ChannelsInv, DeliveryKnown, Sending, SendingPc, Save
    <3> HIDE DEF row
    <3>3. /\ DOMAIN briefs' = DOMAIN briefs /\ briefs'[id] = row
          /\ \A b \in DOMAIN briefs : b # id => briefs'[b] = briefs[b]
      BY <2>1, <3>1, ReplaceEffect DEF TypeOK, BriefTypeOK
    <3>4. QED
      BY <1>1, <3>1, <3>2, <3>3, OrphansBriefs
  <2>2. QED
    BY <1>2, <1>4, <2>1, SaveEffect DEF TypeOK
<1>5. ASSUME NEW w \in Worker,
             \/ Deliver(w) \/ Fallback(w) \/ CheckIncident(w) \/ InsertIncident(w)
             \/ SkipIncident(w) \/ FailBrief(w) \/ Die(w)
      PROVE  briefs' = briefs
  BY <1>5 DEF Deliver, Fallback, CheckIncident, InsertIncident, SkipIncident, FailBrief, Die
<1>6. CASE Alert \/ Ingest \/ Enrich \/ Tick
  BY <1>2, <1>6 DEF Alert, Ingest, Enrich, Tick
<1>7. QED
  BY <1>2, <1>3, <1>4, <1>5, <1>6 DEF BriefStep

LEMMA OrphansEdit ==
  ASSUME TypeOK, OrphansInv, NEW b \in DOMAIN briefs, SetBrief(b) \/ DeleteBrief(b)
  PROVE  OrphansInv'
<1>1. PICK row \in Brief :
        /\ briefs' = [briefs EXCEPT ![b] = row]
        /\ Stored(b) /\ row.status # "unsaved"
        /\ \/ row.sent = briefs[b].sent /\ row.ticket = briefs[b].ticket
           \/ row.status = "deleted" /\ row.ticket = 0
  BY EditBriefEffect
<1>2. /\ DOMAIN briefs' = DOMAIN briefs /\ briefs'[b] = row
      /\ \A c \in DOMAIN briefs : c # b => briefs'[c] = briefs[c]
  BY <1>1, ReplaceEffect DEF TypeOK, BriefTypeOK
<1>3. pushes' = pushes /\ tickets' = tickets
  BY DEF SetBrief, DeleteBrief
<1>4. QED
  BY <1>1, <1>2, <1>3, OrphansBriefs DEF Stored

LEMMA OrphansStart ==
  ASSUME TypeOK, OrphansInv, NEW r \in Request, NEW b \in DOMAIN briefs, StartPush(r, b)
  PROVE  OrphansInv'
<1>1. /\ pushes'[r].pc = "create" /\ pushes'[r].brief = b
      /\ (\E q \in Request : Active(q) /\ pushes[q].brief = b) => pushes'[r].overlapped
      /\ ~Active(r)
      /\ \A q \in Request \ {r} :
           /\ pushes'[q].pc = pushes[q].pc
           /\ Active(q) => /\ pushes'[q].brief = pushes[q].brief
                           /\ pushes'[q].ticket = pushes[q].ticket
                           /\ pushes[q].overlapped \/ pushes[q].brief = b
                                => pushes'[q].overlapped
  BY StartPushEffect
<1>2. /\ briefs' = briefs /\ tickets' = tickets /\ briefs[b].ticket = 0
      /\ briefs[b].status # "unsaved"
  BY DEF StartPush, Stored
<1>3. \A q \in Request \ {r} : Active(q)' = Active(q)
  BY <1>1 DEF Active
<1>4. \A q \in Request : pushes'[q].pc = "store" =>
        /\ q # r /\ pushes[q].pc = "store" /\ Active(q)
        /\ pushes'[q].brief = pushes[q].brief /\ pushes'[q].ticket = pushes[q].ticket
  BY <1>1 DEF Active
<1>5. PushedIsSaved'
  BY <1>1, <1>2, <1>3 DEF OrphansInv, PushedIsSaved
<1>6. HeldUnnamed'
  BY <1>2, <1>4 DEF OrphansInv, HeldUnnamed
<1>7. OverlapKnown'
  <2> SUFFICES ASSUME NEW q \in Request, Active(q)'
               PROVE  /\ \A x \in Request \ {q} :
                           Active(x)' /\ pushes'[x].brief = pushes'[q].brief
                             => pushes'[q].overlapped
                      /\ LET k == briefs'[pushes'[q].brief].ticket IN
                           k # 0 => tickets'[k].overlapped
    BY DEF OverlapKnown
  <2>1. CASE q = r
    BY <1>1, <1>2, <1>3, <2>1
  <2>2. CASE q # r
    <3>1. /\ Active(q) /\ pushes'[q].brief = pushes[q].brief
          /\ pushes[q].overlapped \/ pushes[q].brief = b => pushes'[q].overlapped
      BY <1>1, <1>3, <2>2
    <3>2. /\ \A x \in Request \ {q} :
               Active(x) /\ pushes[x].brief = pushes[q].brief => pushes[q].overlapped
          /\ LET k == briefs[pushes[q].brief].ticket IN k # 0 => tickets[k].overlapped
      BY <3>1 DEF OrphansInv, OverlapKnown
    <3>3. \A x \in Request \ {q} :
            Active(x)' /\ pushes'[x].brief = pushes'[q].brief => pushes'[q].overlapped
      BY <1>1, <1>3, <3>1, <3>2
    <3>4. QED
      BY <1>2, <3>1, <3>2, <3>3
  <2>3. QED
    BY <2>1, <2>2
<1>8. OrphansExplained'
  <2>1. \A k : Held(k) => Held(k)'
    BY <1>1 DEF Held, Active
  <2>2. QED
    BY <1>2, <2>1 DEF OrphansInv, OrphansExplained
<1>9. QED
  BY <1>5, <1>6, <1>7, <1>8 DEF OrphansInv

LEMMA OrphansCreate ==
  ASSUME TypeOK, OrphansInv, NEW r \in Request, CreateTicket(r)
  PROVE  OrphansInv'
<1> DEFINE push == [pushes[r] EXCEPT !.pc = "store", !.ticket = Len(tickets) + 1]
           n == Len(tickets) + 1
<1>1. /\ push.pc = "store" /\ push.brief = pushes[r].brief
      /\ push.ticket = n /\ push.overlapped = pushes[r].overlapped
      /\ pushes' = [pushes EXCEPT ![r] = push]
      /\ NewTicket(r) \in Ticket /\ NewTicket(r).brief = pushes[r].brief
      /\ tickets' = Append(tickets, NewTicket(r))
  BY CreateTicketEffect DEF NewTicket
<1>2. /\ DOMAIN tickets' = DOMAIN tickets \cup {n} /\ n \notin DOMAIN tickets /\ n # 0
      /\ tickets'[n] = NewTicket(r)
      /\ \A k \in DOMAIN tickets : tickets'[k] = tickets[k]
  BY <1>1, AppendEffect DEF TypeOK
<1> HIDE DEF push
<1>3. pushes'[r] = push /\ \A q \in Request \ {r} : pushes'[q] = pushes[q]
  BY <1>1 DEF TypeOK
<1> HIDE DEF n
<1>4. briefs' = briefs /\ pushes[r].pc = "create"
  BY DEF CreateTicket
<1>5. /\ \A q \in Request : Active(q)' = Active(q) /\ pushes'[q].brief = pushes[q].brief
      /\ \A q \in Request : pushes'[q].overlapped = pushes[q].overlapped
      /\ Active(r)
  BY <1>1, <1>3, <1>4 DEF Active
<1>6. /\ \A q \in Request : pushes[q].pc = "store" => pushes[q].ticket \in DOMAIN tickets
      /\ \A b \in DOMAIN briefs : briefs[b].ticket \in {0} \cup DOMAIN tickets
      /\ \A q \in Request : Active(q) => pushes[q].brief \in DOMAIN briefs
  BY DEF TypeOK, Active
<1>7. PushedIsSaved'
  BY <1>1, <1>2, <1>4, <1>5 DEF OrphansInv, PushedIsSaved
<1>8. HeldUnnamed'
  <2> SUFFICES ASSUME NEW q \in Request, pushes'[q].pc = "store"
               PROVE  /\ tickets'[pushes'[q].ticket].brief = pushes'[q].brief
                      /\ \A b \in DOMAIN briefs' : briefs'[b].ticket # pushes'[q].ticket
                      /\ \A x \in Request \ {q} :
                           pushes'[x].pc = "store" => pushes'[x].ticket # pushes'[q].ticket
    BY DEF HeldUnnamed
  <2>1. CASE q = r
    BY <1>1, <1>2, <1>3, <1>4, <1>6, <2>1
  <2>2. CASE q # r
    <3>1. pushes'[q] = pushes[q] /\ pushes[q].ticket \in DOMAIN tickets
      BY <1>3, <1>6, <2>2
    <3>2. QED
      BY <1>1, <1>2, <1>3, <1>4, <3>1 DEF OrphansInv, HeldUnnamed
  <2>3. QED
    BY <2>1, <2>2
<1>9. OverlapKnown'
  BY <1>2, <1>4, <1>5, <1>6 DEF OrphansInv, OverlapKnown
<1>10. OrphansExplained'
  <2> SUFFICES ASSUME NEW k \in DOMAIN tickets'
               PROVE  \/ Held(k)' \/ tickets'[k].overlapped \/ tickets'[k].lost
                      \/ briefs'[tickets'[k].brief].status = "deleted"
                      \/ briefs'[tickets'[k].brief].ticket = k
    BY DEF OrphansExplained, Held
  <2>1. CASE k = n
    BY <1>1, <1>3, <2>1 DEF Held
  <2>2. CASE k \in DOMAIN tickets
    <3>1. Held(k) => Held(k)'
      BY <1>3, <1>4 DEF Held
    <3>2. QED
      BY <1>2, <1>4, <2>2, <3>1 DEF OrphansInv, OrphansExplained
  <2>3. QED
    BY <1>2, <2>1, <2>2
<1>11. QED
  BY <1>7, <1>8, <1>9, <1>10 DEF OrphansInv

LEMMA OrphansFail ==
  ASSUME TypeOK, OrphansInv, NEW r \in Request, FailPush(r)
  PROVE  OrphansInv'
<1>1. /\ DOMAIN tickets' = DOMAIN tickets
      /\ \A k \in DOMAIN tickets :
           /\ tickets'[k].brief = tickets[k].brief
           /\ tickets'[k].overlapped = tickets[k].overlapped
           /\ tickets[k].lost \/ (pushes[r].pc = "store" /\ pushes[r].ticket = k)
                => tickets'[k].lost
      /\ pushes' = [pushes EXCEPT ![r] = IdlePush]
  BY FailPushEffect
<1>2. /\ pushes'[r].pc = "idle" /\ \A q \in Request \ {r} : pushes'[q] = pushes[q]
      /\ briefs' = briefs
  BY <1>1, DeskIdleType DEF TypeOK, FailPush
<1>3. /\ \A q \in Request : Active(q)' => q # r /\ Active(q)
      /\ \A q \in Request : pushes[q].pc = "store" => pushes[q].ticket \in DOMAIN tickets
      /\ \A b \in DOMAIN briefs : briefs[b].ticket \in {0} \cup DOMAIN tickets
      /\ \A q \in Request : Active(q) => pushes[q].brief \in DOMAIN briefs
  BY <1>2 DEF TypeOK, Active
<1>4. PushedIsSaved'
  BY <1>1, <1>2, <1>3 DEF OrphansInv, PushedIsSaved
<1>5. HeldUnnamed'
  <2>1. \A q \in Request : pushes'[q].pc = "store" =>
          q # r /\ pushes'[q] = pushes[q] /\ pushes[q].ticket \in DOMAIN tickets
    BY <1>2, <1>3
  <2>2. QED
    BY <1>1, <1>2, <2>1 DEF OrphansInv, HeldUnnamed
<1>6. OverlapKnown'
  BY <1>1, <1>2, <1>3 DEF OrphansInv, OverlapKnown
<1>7. OrphansExplained'
  <2>1. \A k : Held(k) => Held(k)' \/ (pushes[r].pc = "store" /\ pushes[r].ticket = k)
    BY <1>2 DEF Held
  <2>2. QED
    BY <1>1, <1>2, <2>1 DEF OrphansInv, OrphansExplained
<1>8. QED
  BY <1>4, <1>5, <1>6, <1>7 DEF OrphansInv

(* The brief's name for its ticket is replaced only by a push that          *)
(* overlapped the one that stored it.                                       *)
LEMMA OrphansStore ==
  ASSUME TypeOK, OrphansInv, NEW r \in Request, StoreTicket(r)
  PROVE  OrphansInv'
<1> DEFINE mine == pushes[r].ticket
           brief == pushes[r].brief
<1>1. /\ DOMAIN tickets' = DOMAIN tickets
      /\ \A k \in DOMAIN tickets :
           /\ tickets'[k].brief = tickets[k].brief
           /\ tickets'[k].lost = tickets[k].lost
           /\ k # mine => tickets'[k].overlapped = tickets[k].overlapped
           /\ k = mine => tickets'[k].overlapped = pushes[r].overlapped
      /\ pushes[r].pc = "store" /\ pushes' = [pushes EXCEPT ![r] = IdlePush]
      /\ DOMAIN briefs' = DOMAIN briefs
      /\ \A b \in DOMAIN briefs :
           /\ briefs'[b].status = briefs[b].status
           /\ b = brief /\ Stored(b) => briefs'[b].ticket = mine
           /\ ~(b = brief /\ Stored(b)) => briefs'[b].ticket = briefs[b].ticket
  BY StoreTicketEffect
<1>2. /\ pushes'[r].pc = "idle" /\ \A q \in Request \ {r} : pushes'[q] = pushes[q]
  BY <1>1, DeskIdleType DEF TypeOK
<1>3. /\ \A q \in Request : Active(q)' => q # r /\ Active(q)
      /\ \A q \in Request : pushes[q].pc = "store" => pushes[q].ticket \in DOMAIN tickets
      /\ \A b \in DOMAIN briefs : briefs[b].ticket \in {0} \cup DOMAIN tickets
      /\ \A q \in Request : Active(q) => pushes[q].brief \in DOMAIN briefs
      /\ mine \in DOMAIN tickets /\ brief \in DOMAIN briefs /\ mine # 0 /\ Active(r)
  BY <1>1, <1>2 DEF TypeOK, Active
<1>4. /\ tickets[mine].brief = brief
      /\ \A b \in DOMAIN briefs : briefs[b].ticket # mine
      /\ \A q \in Request \ {r} : pushes[q].pc = "store" => pushes[q].ticket # mine
  BY <1>1 DEF OrphansInv, HeldUnnamed
<1>5. /\ \A q \in Request \ {r} : Active(q) /\ pushes[q].brief = brief => pushes[r].overlapped
      /\ briefs[brief].ticket # 0 => tickets[briefs[brief].ticket].overlapped
  BY <1>3 DEF OrphansInv, OverlapKnown
<1>6. PushedIsSaved'
  <2>1. \A k \in DOMAIN tickets : tickets[k].brief \in DOMAIN briefs
    BY DEF TypeOK
  <2>2. QED
    BY <1>1, <1>2, <1>3, <2>1 DEF OrphansInv, PushedIsSaved
<1>7. HeldUnnamed'
  <2> SUFFICES ASSUME NEW q \in Request, pushes'[q].pc = "store"
               PROVE  /\ tickets'[pushes'[q].ticket].brief = pushes'[q].brief
                      /\ \A b \in DOMAIN briefs' : briefs'[b].ticket # pushes'[q].ticket
                      /\ \A x \in Request \ {q} :
                           pushes'[x].pc = "store" => pushes'[x].ticket # pushes'[q].ticket
    BY DEF HeldUnnamed
  <2>1. /\ q # r /\ pushes'[q] = pushes[q] /\ pushes[q].pc = "store"
        /\ pushes[q].ticket \in DOMAIN tickets /\ pushes[q].ticket # mine
    BY <1>2, <1>3, <1>4
  <2>2. QED
    BY <1>1, <1>2, <2>1 DEF OrphansInv, HeldUnnamed
<1>8. OverlapKnown'
  <2> SUFFICES ASSUME NEW q \in Request, Active(q)'
               PROVE  /\ \A x \in Request \ {q} :
                           Active(x)' /\ pushes'[x].brief = pushes'[q].brief
                             => pushes'[q].overlapped
                      /\ LET k == briefs'[pushes'[q].brief].ticket IN
                           k # 0 => tickets'[k].overlapped
    BY DEF OverlapKnown
  <2>1. q # r /\ Active(q) /\ pushes'[q] = pushes[q] /\ pushes[q].brief \in DOMAIN briefs
    BY <1>2, <1>3
  <2>2. \A x \in Request \ {q} :
          Active(x)' /\ pushes'[x].brief = pushes'[q].brief => pushes'[q].overlapped
    BY <1>2, <1>3, <2>1 DEF OrphansInv, OverlapKnown
  <2>3. LET k == briefs[pushes[q].brief].ticket IN k # 0 => tickets[k].overlapped
    BY <2>1 DEF OrphansInv, OverlapKnown
  <2>4. CASE pushes[q].brief = brief /\ Stored(brief)
    <3>1. briefs'[pushes'[q].brief].ticket = mine
      BY <1>1, <2>1, <2>4
    <3>2. tickets'[mine].overlapped
      BY <1>1, <1>3, <1>5, <2>1, <2>4
    <3>3. QED
      BY <2>2, <3>1, <3>2
  <2>5. CASE ~(pushes[q].brief = brief /\ Stored(brief))
    <3>1. briefs'[pushes'[q].brief].ticket = briefs[pushes[q].brief].ticket
      BY <1>1, <2>1, <2>5
    <3>2. QED
      BY <1>1, <1>3, <1>4, <2>1, <2>2, <2>3, <3>1
  <2>6. QED
    BY <2>4, <2>5
<1>9. OrphansExplained'
  <2> SUFFICES ASSUME NEW k \in DOMAIN tickets
               PROVE  \/ Held(k)' \/ tickets'[k].overlapped \/ tickets'[k].lost
                      \/ briefs'[tickets'[k].brief].status = "deleted"
                      \/ briefs'[tickets'[k].brief].ticket = k
    BY <1>1 DEF OrphansExplained, Held
  <2>1. tickets'[k].brief = tickets[k].brief /\ tickets[k].brief \in DOMAIN briefs
    BY <1>1 DEF TypeOK
  <2>2. CASE k = mine
    <3>1. briefs[brief].status # "unsaved"
      BY <1>3 DEF OrphansInv, PushedIsSaved
    <3>2. CASE Stored(brief)
      BY <1>1, <1>3, <1>4, <2>1, <2>2, <3>2
    <3>3. CASE ~Stored(brief)
      BY <1>1, <1>3, <1>4, <2>1, <2>2, <3>1, <3>3 DEF Stored
    <3>4. QED
      BY <3>2, <3>3
  <2>3. CASE k # mine
    <3>1. \/ Held(k) \/ tickets[k].overlapped \/ tickets[k].lost
          \/ briefs[tickets[k].brief].status = "deleted"
          \/ briefs[tickets[k].brief].ticket = k
      BY DEF OrphansInv, OrphansExplained
    <3>2. Held(k) => Held(k)'
      BY <1>2, <2>3 DEF Held
    <3>3. CASE briefs[tickets[k].brief].ticket = k
      <4>1. CASE tickets[k].brief = brief
        <5>1. k # 0
          BY DEF TypeOK
        <5>2. tickets[k].overlapped
          BY <1>5, <3>3, <4>1, <5>1
        <5>3. QED
          BY <1>1, <2>3, <5>2
      <4>2. CASE tickets[k].brief # brief
        BY <1>1, <2>1, <3>3, <4>2
      <4>3. QED
        BY <4>1, <4>2
    <3>4. QED
      BY <1>1, <2>1, <2>3, <3>1, <3>2, <3>3
  <2>4. QED
    BY <2>2, <2>3
<1>10. QED
  BY <1>6, <1>7, <1>8, <1>9 DEF OrphansInv

LEMMA OrphansNext == TypeOK /\ ChannelsInv /\ OrphansInv /\ [Next]_vars => OrphansInv'
<1> SUFFICES ASSUME TypeOK, ChannelsInv, OrphansInv, [Next]_vars PROVE OrphansInv'
  OBVIOUS
<1>1. ASSUME UNCHANGED <<briefs, pushes, tickets>> PROVE OrphansInv'
  BY <1>1, OrphansBriefs
<1>2. ASSUME NEW i \in DOMAIN incidents, SetIncident(i) \/ DeleteIncident(i) PROVE OrphansInv'
  BY <1>1, <1>2 DEF SetIncident, DeleteIncident
<1>3. ASSUME NEW v \in Investigator,
             \/ \E i \in DOMAIN incidents : Reinvestigate(v, i)
             \/ StartInquiry(v) \/ Conclude(v) \/ AbandonInquiry(v)
      PROVE  OrphansInv'
  BY <1>1, <1>3 DEF Reinvestigate, StartInquiry, Conclude, AbandonInquiry
<1>4. CASE DeskStep
  BY <1>2, <1>3, <1>4, OrphansEdit, OrphansStart, OrphansCreate, OrphansFail, OrphansStore
     DEF DeskStep
<1>5. CASE UNCHANGED vars
  BY <1>1, <1>5 DEF vars, briefVars, deskVars
<1>6. QED
  BY <1>4, <1>5, OrphansBriefStep DEF Next

(* A ticket its brief does not name was made by a request that died or that *)
(* overlapped another push: a lone push never makes a second ticket.        *)
THEOREM OrphansHold == Spec => []OrphansExplained
<1>1. OrphansInv => OrphansExplained
  BY DEF OrphansInv
<1>2. QED
  BY <1>1, TypeCorrect, ChannelsInit, ChannelsNext, OrphansInit, OrphansNext, PTL DEF Spec

-----------------------------------------------------------------------------
(* The investigations of an incident                                        *)

LEMMA InquiryInit == Init => InquiryExplained
  BY DEF Init, BriefInit, InquiryExplained

(* A step of one investigation v, after which each incident needs no other  *)
(* investigation than before, but for those that v is now on.               *)
LEMMA InquiryStep ==
  ASSUME TypeOK, InquiryExplained, NEW v \in Investigator, NEW inquiry,
         inquiries' = [inquiries EXCEPT ![v] = inquiry], stuck \subseteq stuck',
         NEW i \in DOMAIN incidents,
         inquiries[v].pc # "idle" => inquiries[v].incident = i,
         \A j \in DOMAIN incidents' : j # i =>
           j \in DOMAIN incidents /\ incidents'[j] = incidents[j],
         incidents'[i].status # "deleted" /\ i \notin stuck' =>
           /\ incidents'[i].cause = "cleared" =>
                inquiry.pc \in {"queued", "running"} /\ inquiry.incident = i
           /\ incidents'[i].status = "analysing" =>
                inquiry.pc = "running" /\ inquiry.incident = i
  PROVE  InquiryExplained'
<1>1. inquiries'[v] = inquiry /\ \A u \in Investigator \ {v} : inquiries'[u] = inquiries[u]
  BY DEF TypeOK
<1> SUFFICES ASSUME NEW j \in DOMAIN incidents', Exists(j)', j \notin stuck'
             PROVE  /\ incidents'[j].cause = "cleared" => InquiryOf(j, {"queued", "running"})'
                    /\ incidents'[j].status = "analysing" => InquiryOf(j, {"running"})'
  BY DEF InquiryExplained, Exists, InquiryOf
<1>2. CASE j = i
  BY <1>1, <1>2 DEF InquiryOf, Exists
<1>3. CASE j # i
  <2>1. j \in DOMAIN incidents /\ incidents'[j] = incidents[j] /\ Exists(j) /\ j \notin stuck
    BY <1>3 DEF Exists
  <2>2. /\ incidents[j].cause = "cleared" => InquiryOf(j, {"queued", "running"})
        /\ incidents[j].status = "analysing" => InquiryOf(j, {"running"})
    BY <2>1 DEF InquiryExplained
  <2>3. \A u \in Investigator :
          inquiries[u].pc # "idle" /\ inquiries[u].incident = j => inquiries'[u] = inquiries[u]
    BY <1>1, <1>3
  <2>4. QED
    BY <2>1, <2>2, <2>3 DEF InquiryOf
<1>4. QED
  BY <1>2, <1>3

(* A step that leaves the investigations alone.                             *)
LEMMA InquiryStay ==
  ASSUME InquiryExplained, inquiries' = inquiries, stuck \subseteq stuck',
         \A i \in DOMAIN incidents' :
           i \notin stuck' /\ incidents'[i].status # "deleted" =>
             \/ /\ i \in DOMAIN incidents /\ Exists(i)
                /\ incidents'[i].cause = incidents[i].cause
                /\ incidents'[i].status = "analysing" => incidents[i].status = "analysing"
             \/ incidents'[i].cause = "given" /\ incidents'[i].status # "analysing"
  PROVE  InquiryExplained'
<1>1. \A j, pcs : InquiryOf(j, pcs) => \E v \in Investigator :
        inquiries'[v].pc \in pcs /\ inquiries'[v].incident = j
  BY DEF InquiryOf
<1> SUFFICES ASSUME NEW j \in DOMAIN incidents', Exists(j)', j \notin stuck'
             PROVE  /\ incidents'[j].cause = "cleared" => InquiryOf(j, {"queued", "running"})'
                    /\ incidents'[j].status = "analysing" => InquiryOf(j, {"running"})'
  BY DEF InquiryExplained, Exists, InquiryOf
<1>2. QED
  BY <1>1 DEF InquiryExplained, Exists, InquiryOf

LEMMA InquiryInsert ==
  ASSUME TypeOK, InquiryExplained, NEW w \in Worker, InsertIncident(w), UNCHANGED deskVars
  PROVE  InquiryExplained'
<1>1. /\ incidents' = Append(incidents, NewIncident(w)) /\ NewIncident(w) \in Incident
      /\ NewIncident(w).cause = "given" /\ NewIncident(w).status = "open"
  BY InsertEffect DEF TypeOK, NewIncident
<1>2. /\ DOMAIN incidents' = DOMAIN incidents \cup {Len(incidents) + 1}
      /\ incidents'[Len(incidents) + 1] = NewIncident(w)
      /\ \A i \in DOMAIN incidents : incidents'[i] = incidents[i]
  BY <1>1, AppendEffect DEF TypeOK, BriefTypeOK
<1>3. inquiries' = inquiries /\ stuck' = stuck
  BY DEF deskVars
<1>4. QED
  BY <1>1, <1>2, <1>3, InquiryStay DEF Exists

LEMMA InquiryEdit ==
  ASSUME TypeOK, InquiryExplained, NEW i \in DOMAIN incidents, SetIncident(i) \/ DeleteIncident(i)
  PROVE  InquiryExplained'
<1>1. inquiries' = inquiries /\ Exists(i)
  BY DEF SetIncident, DeleteIncident
<1>2. CASE SetIncident(i)
  <2>1. PICK row \in Incident :
          /\ Rewrites(i, row) /\ row.cause = incidents[i].cause
          /\ row.status = "analysing" => i \in stuck'
          /\ stuck' \in {stuck, stuck \cup {i}}
    BY <1>2, SetIncidentEffect
  <2>2. /\ DOMAIN incidents' = DOMAIN incidents /\ incidents'[i] = row
        /\ \A j \in DOMAIN incidents : j # i => incidents'[j] = incidents[j]
    BY <2>1, IncidentsRewritten
  <2>3. QED
    BY <1>1, <2>1, <2>2, InquiryStay DEF Exists
<1>3. CASE DeleteIncident(i)
  <2>1. PICK row \in Incident : Rewrites(i, row) /\ row.status = "deleted"
    BY <1>3, DeleteIncidentEffect
  <2>2. /\ DOMAIN incidents' = DOMAIN incidents /\ incidents'[i] = row
        /\ \A j \in DOMAIN incidents : j # i => incidents'[j] = incidents[j]
    BY <2>1, IncidentsRewritten
  <2>3. stuck' = stuck
    BY <1>3 DEF DeleteIncident
  <2>4. QED
    BY <1>1, <2>1, <2>2, <2>3, InquiryStay DEF Exists
<1>4. QED
  BY <1>2, <1>3

LEMMA InquiryMoves ==
  ASSUME TypeOK, InquiryExplained, NEW v \in Investigator,
         \/ \E i \in DOMAIN incidents : Reinvestigate(v, i)
         \/ StartInquiry(v) \/ Conclude(v) \/ AbandonInquiry(v)
  PROVE  InquiryExplained'
<1>1. CASE \E i \in DOMAIN incidents : Reinvestigate(v, i)
  <2>1. PICK i \in DOMAIN incidents : Reinvestigate(v, i)
    BY <1>1
  <2> DEFINE inquiry == [pc |-> "queued", incident |-> i]
  <2>2. PICK row \in Incident :
          Rewrites(i, row) /\ row.status = "investigating" /\ row.cause = "cleared"
    BY <2>1, ReinvestigateEffect
  <2>3. /\ inquiries' = [inquiries EXCEPT ![v] = inquiry]
        /\ inquiries[v].pc = "idle" /\ stuck' = stuck
        /\ inquiry.pc = "queued" /\ inquiry.incident = i
    BY <2>1 DEF Reinvestigate
  <2> HIDE DEF inquiry
  <2>4. /\ DOMAIN incidents' = DOMAIN incidents /\ incidents'[i] = row
        /\ \A j \in DOMAIN incidents : j # i => incidents'[j] = incidents[j]
    BY <2>2, IncidentsRewritten
  <2>5. QED
    BY <2>2, <2>3, <2>4, InquiryStep
<1> DEFINE i == inquiries[v].incident
<1>2. CASE StartInquiry(v)
  <2>1. i \in DOMAIN incidents /\ stuck' = stuck
    BY <1>2, StartInquiryEffect DEF StartInquiry
  <2>2. CASE Exists(i)
    <3>1. PICK row \in Incident :
            /\ Rewrites(i, row) /\ row.status = "analysing"
            /\ row.cause = incidents[i].cause
      BY <1>2, <2>2, StartInquiryEffect
    <3>2. PICK inquiry \in Inquiry :
            /\ inquiry.pc = "running" /\ inquiry.incident = i
            /\ inquiries' = [inquiries EXCEPT ![v] = inquiry]
      BY <1>2, <2>2, StartInquiryEffect
    <3>3. /\ DOMAIN incidents' = DOMAIN incidents /\ incidents'[i] = row
          /\ \A j \in DOMAIN incidents : j # i => incidents'[j] = incidents[j]
      BY <2>1, <3>1, IncidentsRewritten
    <3>4. /\ \A j \in DOMAIN incidents' : j # i =>
                j \in DOMAIN incidents /\ incidents'[j] = incidents[j]
          /\ inquiry.pc \in {"queued", "running"}
      BY <3>2, <3>3
    <3>5. QED
      BY <2>1, <3>2, <3>4, InquiryStep
  <2>3. CASE ~Exists(i)
    <3>1. incidents' = incidents /\ inquiries' = [inquiries EXCEPT ![v] = IdleInquiry]
      BY <1>2, <2>3, StartInquiryEffect
    <3>2. incidents'[i].status = "deleted"
      BY <2>3, <3>1 DEF Exists
    <3>3. QED
      BY <2>1, <3>1, <3>2, InquiryStep
  <2>4. QED
    BY <2>2, <2>3
<1>3. CASE Conclude(v)
  <2>1. /\ i \in DOMAIN incidents /\ stuck' = stuck
        /\ inquiries' = [inquiries EXCEPT ![v] = IdleInquiry]
    BY <1>3, ConcludeEffect DEF Conclude
  <2>2. CASE Exists(i)
    <3>1. PICK row \in Incident :
            Rewrites(i, row) /\ row.status = "investigating" /\ row.cause = "given"
      BY <1>3, <2>2, ConcludeEffect
    <3>2. /\ DOMAIN incidents' = DOMAIN incidents /\ incidents'[i] = row
          /\ \A j \in DOMAIN incidents : j # i => incidents'[j] = incidents[j]
      BY <2>1, <3>1, IncidentsRewritten
    <3>3. QED
      BY <2>1, <3>1, <3>2, InquiryStep
  <2>3. CASE ~Exists(i)
    <3>1. incidents' = incidents
      BY <1>3, <2>3, ConcludeEffect
    <3>2. incidents'[i].status = "deleted"
      BY <2>3, <3>1 DEF Exists
    <3>3. QED
      BY <2>1, <3>1, <3>2, InquiryStep
  <2>4. QED
    BY <2>2, <2>3
<1>4. CASE AbandonInquiry(v)
  <2>1. i \in DOMAIN incidents
    BY <1>4, InquiryType DEF AbandonInquiry
  <2>2. /\ stuck' = stuck \cup {i} /\ incidents' = incidents
        /\ inquiries' = [inquiries EXCEPT ![v] = IdleInquiry]
    BY <1>4 DEF AbandonInquiry
  <2>3. QED
    BY <2>1, <2>2, InquiryStep
<1>5. QED
  BY <1>1, <1>2, <1>3, <1>4

LEMMA InquiryNext == TypeOK /\ InquiryExplained /\ [Next]_vars => InquiryExplained'
<1> SUFFICES ASSUME TypeOK, InquiryExplained, [Next]_vars PROVE InquiryExplained'
  OBVIOUS
<1>1. ASSUME UNCHANGED <<incidents, inquiries, stuck>> PROVE InquiryExplained'
  BY <1>1, InquiryStay DEF Exists
<1>2. CASE UNCHANGED vars
  BY <1>1, <1>2 DEF vars, briefVars, deskVars
<1>3. ASSUME NEW w \in Worker, UNCHANGED deskVars,
             \/ Generate(w) \/ Deliver(w) \/ Fallback(w) \/ Save(w) \/ CheckIncident(w)
             \/ SkipIncident(w) \/ FailBrief(w) \/ Die(w)
      PROVE  InquiryExplained'
  BY <1>1, <1>3
     DEF Generate, Deliver, Fallback, Save, CheckIncident, SkipIncident, FailBrief, Die, deskVars
<1>4. CASE (Alert \/ Ingest \/ Enrich \/ Tick) /\ UNCHANGED deskVars
  BY <1>1, <1>4 DEF Alert, Ingest, Enrich, Tick, deskVars
<1>5. CASE BriefStep /\ UNCHANGED deskVars
  BY <1>3, <1>4, <1>5, InquiryInsert DEF BriefStep
<1>6. ASSUME NEW b \in DOMAIN briefs, SetBrief(b) \/ DeleteBrief(b) PROVE InquiryExplained'
  BY <1>1, <1>6 DEF SetBrief, DeleteBrief
<1>7. ASSUME NEW r \in Request,
             \/ \E b \in DOMAIN briefs : StartPush(r, b)
             \/ CreateTicket(r) \/ FailPush(r) \/ StoreTicket(r)
      PROVE  InquiryExplained'
  BY <1>1, <1>7 DEF StartPush, CreateTicket, FailPush, StoreTicket
<1>8. CASE DeskStep
  BY <1>6, <1>7, <1>8, InquiryEdit, InquiryMoves DEF DeskStep
<1>9. QED
  BY <1>2, <1>5, <1>8 DEF Next

(* An incident without a result, or shown as being analysed, has an         *)
(* investigation under way, unless one died or a user set the status.       *)
THEOREM InquiryHolds == Spec => []InquiryExplained
  BY TypeCorrect, InquiryInit, InquiryNext, PTL DEF Spec
=============================================================================
