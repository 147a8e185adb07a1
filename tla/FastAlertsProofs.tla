--------------------------- MODULE FastAlertsProofs ---------------------------
(***************************************************************************)
(* Proofs about FastAlerts, for any number of processes, tenants, error    *)
(* groups and alerts, and any routing.                                     *)
(*                                                                         *)
(* The cooldown of a process outlives its last alert by at least Floor,    *)
(* and what it still has to fire is past its cooldown.  A page is on its   *)
(* way only when its time has come.  Each process handles an alert of its  *)
(* own, and has reached the targets it has passed.                         *)
(***************************************************************************)
EXTENDS FastAlerts, SequenceTheorems, WellFoundedInduction, TLAPS

(* A living process keeps the cooldown of each signature it fired at least   *)
(* Floor beyond the alert.                                                  *)
CooldownKept ==
  \A i \in DOMAIN alerts :
    alerts[i].live =>
      /\ alerts[i].at + Floor <= store[alerts[i].by][alerts[i].s]
      /\ alerts[i].at <= now

(* A scan goes on only with signatures that are past their cooldown.        *)
PastCooldown ==
  \A p \in Proc :
    jobs[p].pc # "idle" => \A s \in jobs[p].todo : store[p][s] <= now

CooldownInv == CooldownKept /\ PastCooldown /\ CooldownHeld

(* A page is decided on only when its time has come.                        *)
DecidedWhenDue ==
  \A i \in DOMAIN alerts :
    alerts[i].esc \in {"paging", "paged", "lost"} => alerts[i].due <= now

AckInv == DecidedWhenDue /\ AckStopsPage

Handling(p) == jobs[p].pc \in {"record", "send", "schedule"}

(* The targets before the k-th that have a webhook.                         *)
SlackBefore(a, k) == {m \in DOMAIN TargetsOf(a) : m < k /\ TargetsOf(a)[m].slack}

(* A process has sent its alert to the webhooks it has passed, and the      *)
(* alert has a row to acknowledge, if the table takes it, or there was a    *)
(* fault.                                                                   *)
HandledBy(p, job, a) ==
  LET n == Len(TargetsOf(a)) IN
  /\ a.by = p /\ ~a.done
  /\ a.sent = SlackBefore(a, job.left)
  /\ job.pc = "record" => job.left = 1 /\ n > 0
  /\ job.pc = "send" => job.left \in 1 .. n
  /\ job.pc = "schedule" => job.left = n + 1
  /\ SentinelRule /\ job.pc # "record" => a.row \/ a.fault

HandledSoFar ==
  \A p \in Proc : Handling(p) => HandledBy(p, jobs[p], alerts[jobs[p].alert])

(* An alert handled without a fault reached every webhook, and its page was *)
(* scheduled if the table takes its row.                                    *)
EndedWell(a) ==
  a.done /\ ~a.fault =>
    /\ a.sent = {k \in DOMAIN TargetsOf(a) : TargetsOf(a)[k].slack}
    /\ SentinelRule /\ CanBePaged(a) => a.esc # "none"

HandledWell == \A i \in DOMAIN alerts : EndedWell(alerts[i])

EscalatedInv == HandledSoFar /\ HandledWell

-----------------------------------------------------------------------------
(* The shortest cooldown of a list of targets exists.                       *)

LEMMA LeastOfNat ==
  ASSUME NEW S \in SUBSET Nat, S # {}
  PROVE  \E m \in S : \A n \in S : m <= n
<1> DEFINE Less == {x \in Nat \X Nat : x[1] < x[2]}
<1>1. IsWellFoundedOn(Less, Nat)
  <2>1. Less = OpToRel(<, Nat)
    BY DEF OpToRel
  <2>2. QED
    BY <2>1, NatLessThanWellFounded
<1>2. PICK m \in S : \A n \in S : ~ (<<n, m>> \in Less)
  <2> HIDE DEF Less
  <2> QED
    BY <1>1, WFMin
<1>3. ASSUME NEW n \in S PROVE m <= n
  <2>1. n \in Nat /\ m \in Nat /\ <<n, m>> \notin Less
    BY <1>2
  <2>2. ~(n < m)
    BY <2>1
  <2>3. QED
    BY <2>1, <2>2
<1>4. QED
  BY <1>3

LEMMA LeastCooldownType ==
  ASSUME NEW targets \in Seq(Target)
  PROVE  LeastCooldown(targets) \in Nat
<1>1. CASE targets = <<>>
  BY <1>1, AlertAssumption DEF AlertAssumption, LeastCooldown
<1>2. CASE targets # <<>>
  <2> DEFINE S == {targets[i].cooldown : i \in DOMAIN targets}
  <2>1. S \subseteq Nat
    <3>1. \A i \in DOMAIN targets : targets[i] \in Target
      OBVIOUS
    <3>2. QED
      BY <3>1 DEF Target
  <2>2. S # {}
    <3>1. 1 \in DOMAIN targets
      BY <1>2
    <3>2. QED
      BY <3>1
  <2>3. PICK m \in S : \A n \in S : m <= n
    <3> HIDE DEF S
    <3> QED
      BY <2>1, <2>2, LeastOfNat
  <2>4. \E c \in S : \A i \in DOMAIN targets : c <= targets[i].cooldown
    BY <2>3
  <2>5. LeastCooldown(targets) \in S
    BY <1>2, <2>4 DEF LeastCooldown
  <2>6. QED
    BY <2>1, <2>5
<1>3. QED
  BY <1>1, <1>2

LEMMA EffectiveBound ==
  ASSUME NEW minutes \in Nat
  PROVE  Effective(minutes) \in Nat /\ Effective(minutes) >= Floor
BY AlertAssumption DEF AlertAssumption, Effective

(* What Update does to the alerts.                                          *)
LEMMA UpdateEffect ==
  ASSUME alerts \in Seq(Alert), NEW i \in DOMAIN alerts, NEW a \in Alert, Update(i, a)
  PROVE  /\ alerts' \in Seq(Alert)
         /\ DOMAIN alerts' = DOMAIN alerts
         /\ alerts'[i] = a
         /\ \A j \in DOMAIN alerts : j # i => alerts'[j] = alerts[j]
BY DEF Update

LEMMA AppendEffect ==
  ASSUME alerts \in Seq(Alert), NEW a \in Alert, alerts' = Append(alerts, a)
  PROVE  /\ alerts' \in Seq(Alert)
         /\ DOMAIN alerts' = DOMAIN alerts \cup {Len(alerts) + 1}
         /\ alerts'[Len(alerts) + 1] = a
         /\ Len(alerts) + 1 \notin DOMAIN alerts
         /\ \A i \in DOMAIN alerts : alerts'[i] = alerts[i]
OBVIOUS

LEMMA CrashEffect ==
  ASSUME alerts \in Seq(Alert), NEW p \in Proc, Crash(p)
  PROVE  /\ alerts' \in Seq(Alert)
         /\ DOMAIN alerts' = DOMAIN alerts
         /\ \A i \in DOMAIN alerts :
              alerts'[i] = IF alerts[i].by = p THEN [alerts[i] EXCEPT !.live = FALSE]
                           ELSE alerts[i]
<1>1. alerts' = [i \in DOMAIN alerts |->
         IF alerts[i].by = p THEN [alerts[i] EXCEPT !.live = FALSE] ELSE alerts[i]]
  BY DEF Crash
<1>2. \A i \in DOMAIN alerts : alerts'[i] \in Alert
  <2> SUFFICES ASSUME NEW i \in DOMAIN alerts PROVE alerts'[i] \in Alert
    OBVIOUS
  <2>1. alerts[i] \in Alert
    OBVIOUS
  <2>2. [alerts[i] EXCEPT !.live = FALSE] \in Alert
    BY <2>1 DEF Alert
  <2>3. QED
    BY <1>1, <2>1, <2>2
<1>3. Len(alerts) \in Nat /\ DOMAIN alerts = 1 .. Len(alerts)
  OBVIOUS
<1>4. alerts' \in [1 .. Len(alerts) -> Alert]
  BY <1>1, <1>2, <1>3
<1>5. alerts' \in Seq(Alert)
  BY <1>3, <1>4, SeqDef
<1>6. QED
  BY <1>1, <1>5

-----------------------------------------------------------------------------
(* Types                                                                    *)

LEMMA AlertType ==
  ASSUME TypeOK, NEW i \in DOMAIN alerts
  PROVE  alerts[i] \in Alert
BY DEF TypeOK

LEMMA TargetsType ==
  ASSUME NEW a \in Alert
  PROVE  TargetsOf(a) \in Seq(Target)
BY AlertAssumption DEF AlertAssumption, TargetsOf, Alert

(* The fields a job has, by what it does.                                   *)
LEMMA JobType ==
  ASSUME TypeOK, NEW p \in Proc, jobs[p].pc # "idle"
  PROVE  /\ jobs[p].msg \in Message /\ jobs[p].todo \in SUBSET Sig
         /\ Handling(p) => /\ jobs[p].alert \in DOMAIN alerts
                           /\ jobs[p].left \in Nat
BY DEF TypeOK, Job, Handling

LEMMA NextGroupType ==
  ASSUME NEW msg \in Message, NEW todo \in SUBSET Sig
  PROVE  /\ NextGroup(msg, todo) \in Job
         /\ NextGroup(msg, todo).pc \in {"idle", "group"}
         /\ NextGroup(msg, todo).pc = "group" => NextGroup(msg, todo).todo = todo
BY DEF NextGroup, IdleJob, Job

LEMMA HandlingJobType ==
  ASSUME NEW pc \in {"record", "send", "schedule"}, NEW msg \in Message,
         NEW todo \in SUBSET Sig, NEW alert \in Nat, NEW left \in Nat
  PROVE  [pc |-> pc, msg |-> msg, todo |-> todo, alert |-> alert, left |-> left] \in Job
BY DEF Job

LEMMA FaultType == TypeOK /\ Fault => faults' \in Nat
  BY DEF TypeOK, Fault

LEMMA TypeInit == Init => TypeOK
  BY DEF Init, TypeOK, IdleJob, Job

(* A step that leaves the alerts and what is done to them alone.             *)
LEMMA TypeJobs ==
  ASSUME TypeOK, NEW p \in Proc, NEW job \in Job, jobs' = [jobs EXCEPT ![p] = job],
         DOMAIN alerts \subseteq DOMAIN alerts',
         job.pc \in {"record", "send", "schedule"} => job.alert \in DOMAIN alerts'
  PROVE  /\ jobs' \in [Proc -> Job]
         /\ \A q \in Proc :
              jobs'[q].pc \in {"record", "send", "schedule"} =>
                jobs'[q].alert \in DOMAIN alerts'
BY DEF TypeOK

(* What the steps of a process do, with names for the alerts they write.     *)

Fired(p, s, unread, fallback) ==
  [by |-> p, live |-> TRUE, t |-> jobs[p].msg.t, s |-> s, at |-> now,
   fallback |-> fallback, row |-> FALSE, sent |-> {}, acked |-> 0,
   esc |-> "none", due |-> 0, blind |-> FALSE,
   fault |-> unread \/ fallback, done |-> FALSE]

AfterFire(p, s, a) ==
  IF TargetsOf(a) = <<>> THEN NextGroup(jobs[p].msg, jobs[p].todo \ {s})
  ELSE [pc |-> "record", msg |-> jobs[p].msg, todo |-> jobs[p].todo \ {s},
        alert |-> Len(alerts) + 1, left |-> 1]

LEMMA FireEffect ==
  ASSUME TypeOK, NEW p \in Proc, Fire(p)
  PROVE  \E s \in jobs[p].todo, unread \in BOOLEAN, fallback \in BOOLEAN :
           LET a == Fired(p, s, unread, fallback) IN
           /\ a \in Alert /\ a.s \in Sig
           /\ store' = [store EXCEPT ![p][s] = now + Effective(LeastCooldown(TargetsOf(a)))]
           /\ now + Effective(LeastCooldown(TargetsOf(a))) \in Nat
           /\ alerts' = Append(alerts, a)
           /\ jobs' = [jobs EXCEPT ![p] = AfterFire(p, s, a)]
           /\ AfterFire(p, s, a) \in Job
           /\ faults' \in Nat
<1>1. jobs[p].msg \in Message /\ jobs[p].todo \in SUBSET Sig
  BY JobType DEF Fire
<1>2. PICK s \in jobs[p].todo, unread \in BOOLEAN, fallback \in BOOLEAN :
        LET t == jobs[p].msg.t
            targets == IF fallback THEN Fallback ELSE Route[t][s]
            rest == jobs[p].todo \ {s}
        IN
        /\ IF unread \/ fallback THEN Fault ELSE UNCHANGED faults
        /\ store' = [store EXCEPT ![p][s] = now + Effective(LeastCooldown(targets))]
        /\ alerts' = Append(alerts, Fired(p, s, unread, fallback))
        /\ jobs' = [jobs EXCEPT ![p] =
             IF targets = <<>> THEN NextGroup(jobs[p].msg, rest)
             ELSE [pc |-> "record", msg |-> jobs[p].msg, todo |-> rest,
                   alert |-> Len(alerts) + 1, left |-> 1]]
  BY DEF Fire, Fired
<1> DEFINE a == Fired(p, s, unread, fallback)
<1>3. a \in Alert
  BY <1>1 DEF Fired, Alert, Message, TypeOK
<1>4. TargetsOf(a) = IF fallback THEN Fallback ELSE Route[jobs[p].msg.t][s]
  BY DEF Fired, TargetsOf
<1>5. AfterFire(p, s, a) \in Job
  <2>1. jobs[p].todo \ {s} \in SUBSET Sig
    BY <1>1
  <2>2. Len(alerts) + 1 \in Nat
    BY DEF TypeOK
  <2>3. QED
    BY <1>1, <2>1, <2>2, NextGroupType, HandlingJobType DEF AfterFire
<1>6. now + Effective(LeastCooldown(TargetsOf(a))) \in Nat
  <2> HIDE DEF a
  <2>1. LeastCooldown(TargetsOf(a)) \in Nat
    BY <1>3, TargetsType, LeastCooldownType
  <2>2. Effective(LeastCooldown(TargetsOf(a))) \in Nat
    BY <2>1, EffectiveBound
  <2>3. QED
    BY <2>2 DEF TypeOK
<1>7. faults' \in Nat
  BY <1>2, FaultType DEF TypeOK
<1>8. a.s \in Sig
  BY <1>3 DEF Alert
<1>9. QED
  BY <1>2, <1>3, <1>4, <1>5, <1>6, <1>7, <1>8 DEF AfterFire

LEMMA RecordEffect ==
  ASSUME TypeOK, NEW p \in Proc, Record(p)
  PROVE  LET i == jobs[p].alert IN
         /\ i \in DOMAIN alerts
         /\ jobs' = [jobs EXCEPT ![p] = [jobs[p] EXCEPT !.pc = "send"]]
         /\ [jobs[p] EXCEPT !.pc = "send"] \in Job
         /\ faults' \in Nat
         /\ \E fault \in BOOLEAN :
              LET a == [alerts[i] EXCEPT !.row = SentinelRule /\ ~fault,
                                         !.fault = alerts[i].fault \/ fault]
              IN  a \in Alert /\ Update(i, a)
<1> DEFINE i == jobs[p].alert
<1>1. PICK fault \in BOOLEAN :
        /\ IF fault THEN Fault ELSE UNCHANGED faults
        /\ Update(i, [alerts[i] EXCEPT !.row = SentinelRule /\ ~fault,
                                       !.fault = @ \/ fault])
        /\ jobs' = [jobs EXCEPT ![p].pc = "send"]
  BY DEF Record
<1>2. i \in DOMAIN alerts /\ alerts[i] \in Alert
  BY JobType, AlertType DEF Record, Handling
<1>3. [alerts[i] EXCEPT !.row = SentinelRule /\ ~fault,
                        !.fault = alerts[i].fault \/ fault] \in Alert
  BY <1>2, AlertAssumption DEF AlertAssumption, Alert
<1>4. [jobs[p] EXCEPT !.pc = "send"] \in Job
  BY DEF Record, TypeOK, Job
<1>5. faults' \in Nat
  BY <1>1, FaultType DEF TypeOK
<1>6. QED
  BY <1>1, <1>2, <1>3, <1>4, <1>5

Sent(p) ==
  LET a == alerts[jobs[p].alert] IN
  IF TargetsOf(a)[jobs[p].left].slack
  THEN [a EXCEPT !.sent = a.sent \cup {jobs[p].left}] ELSE a

AfterSend(p) ==
  [jobs[p] EXCEPT !.pc = IF jobs[p].left = Len(TargetsOf(alerts[jobs[p].alert]))
                         THEN "schedule" ELSE "send",
                  !.left = jobs[p].left + 1]

LEMMA SendEffect ==
  ASSUME TypeOK, NEW p \in Proc, Send(p)
  PROVE  /\ jobs[p].alert \in DOMAIN alerts
         /\ jobs' = [jobs EXCEPT ![p] = AfterSend(p)]
         /\ AfterSend(p) \in Job
         /\ Sent(p) \in Alert /\ Update(jobs[p].alert, Sent(p))
<1>1. jobs[p].alert \in DOMAIN alerts /\ alerts[jobs[p].alert] \in Alert /\ jobs[p].left \in Nat
  BY JobType, AlertType DEF Send, Handling
<1>2. Sent(p) \in Alert
  BY <1>1 DEF Sent, Alert
<1>3. AfterSend(p) \in Job
  <2> DEFINE HandlingJob == [pc : {"record", "send", "schedule"}, msg : Message,
                             todo : SUBSET Sig, alert : Nat, left : Nat]
  <2>1. jobs[p] \in HandlingJob
    BY DEF Send, TypeOK, Job
  <2>2. ASSUME NEW r \in HandlingJob, NEW pc \in {"send", "schedule"}, NEW k \in Nat
        PROVE  [r EXCEPT !.pc = pc, !.left = k] \in HandlingJob
    <3>1. [r EXCEPT !.pc = pc] \in HandlingJob
      OBVIOUS
    <3>2. [[r EXCEPT !.pc = pc] EXCEPT !.left = k] \in HandlingJob
      BY <3>1
    <3>3. QED
      BY <3>2
  <2>3. HandlingJob \subseteq Job
    BY DEF Job
  <2> DEFINE pc == IF jobs[p].left = Len(TargetsOf(alerts[jobs[p].alert]))
                   THEN "schedule" ELSE "send"
  <2>4. pc \in {"send", "schedule"} /\ jobs[p].left + 1 \in Nat
    BY <1>1
  <2>5. AfterSend(p) = [jobs[p] EXCEPT !.pc = pc, !.left = jobs[p].left + 1]
    BY DEF AfterSend
  <2> HIDE DEF HandlingJob, pc
  <2>6. QED
    BY <2>1, <2>2, <2>3, <2>4, <2>5
<1>4. QED
  BY <1>1, <1>2, <1>3 DEF Send, Sent, AfterSend

LEMMA ScheduleEffect ==
  ASSUME TypeOK, NEW p \in Proc, Schedule(p)
  PROVE  LET i == jobs[p].alert IN
         /\ i \in DOMAIN alerts
         /\ jobs' = [jobs EXCEPT ![p] = NextGroup(jobs[p].msg, jobs[p].todo)]
         /\ NextGroup(jobs[p].msg, jobs[p].todo) \in Job
         /\ faults' \in Nat
         /\ \E fault \in BOOLEAN :
              LET scheduled == alerts[i].row /\ CanBePaged(alerts[i]) /\ ~fault
                  a == [alerts[i] EXCEPT
                          !.esc = IF scheduled THEN "scheduled" ELSE alerts[i].esc,
                          !.due = IF scheduled THEN now + Escalation ELSE alerts[i].due,
                          !.fault = alerts[i].fault \/ fault, !.done = TRUE]
              IN  a \in Alert /\ Update(i, a)
<1> DEFINE i == jobs[p].alert
           scheduled(fault) == alerts[i].row /\ CanBePaged(alerts[i]) /\ ~fault
<1>1. PICK fault \in BOOLEAN :
        /\ IF fault THEN Fault ELSE UNCHANGED faults
        /\ Update(i, [alerts[i] EXCEPT
                        !.esc = IF scheduled(fault) THEN "scheduled" ELSE @,
                        !.due = IF scheduled(fault) THEN now + Escalation ELSE @,
                        !.fault = @ \/ fault, !.done = TRUE])
        /\ jobs' = [jobs EXCEPT ![p] = NextGroup(jobs[p].msg, jobs[p].todo)]
  BY DEF Schedule
<1>2. i \in DOMAIN alerts /\ alerts[i] \in Alert
  BY JobType, AlertType DEF Schedule, Handling
<1>3. [alerts[i] EXCEPT
         !.esc = IF scheduled(fault) THEN "scheduled" ELSE alerts[i].esc,
         !.due = IF scheduled(fault) THEN now + Escalation ELSE alerts[i].due,
         !.fault = alerts[i].fault \/ fault, !.done = TRUE] \in Alert
  <2>1. now + Escalation \in Nat
    BY AlertAssumption DEF AlertAssumption, TypeOK
  <2> HIDE DEF scheduled
  <2>2. QED
    BY <1>2, <2>1 DEF Alert
<1>4. NextGroup(jobs[p].msg, jobs[p].todo) \in Job
  BY JobType, NextGroupType DEF Schedule
<1>5. faults' \in Nat
  BY <1>1, FaultType DEF TypeOK
<1>6. QED
  BY <1>1, <1>2, <1>3, <1>4, <1>5

(* The escalation task and the acknowledgement change one alert: esc, blind *)
(* or acked, and nothing of what its process does.                          *)
LEMMA CheckAckEffect ==
  ASSUME TypeOK, NEW i \in DOMAIN alerts, CheckAck(i)
  PROVE  /\ faults' \in Nat
         /\ \E unread \in BOOLEAN :
              LET a == [alerts[i] EXCEPT
                          !.esc = IF alerts[i].acked # 0 /\ ~unread
                                  THEN "suppressed" ELSE "paging",
                          !.blind = alerts[i].blind \/ unread]
              IN  a \in Alert /\ Update(i, a)
<1>1. PICK unread \in BOOLEAN :
        /\ IF unread THEN Fault ELSE UNCHANGED faults
        /\ Update(i, [alerts[i] EXCEPT
             !.esc = IF alerts[i].acked # 0 /\ ~unread THEN "suppressed" ELSE "paging",
             !.blind = @ \/ unread])
  BY DEF CheckAck
<1>2. alerts[i] \in Alert
  BY AlertType
<1>3. [alerts[i] EXCEPT
         !.esc = IF alerts[i].acked # 0 /\ ~unread THEN "suppressed" ELSE "paging",
         !.blind = alerts[i].blind \/ unread] \in Alert
  BY <1>2 DEF Alert
<1>4. faults' \in Nat
  BY <1>1, FaultType DEF TypeOK
<1>5. QED
  BY <1>1, <1>3, <1>4

LEMMA SettleEffect ==
  ASSUME TypeOK, NEW i \in DOMAIN alerts, Page(i) \/ PageAgain(i)
  PROVE  /\ faults' \in Nat
         /\ alerts[i].esc = "paging"
         /\ \E esc \in {"paged", "lost", "scheduled"} :
              /\ [alerts[i] EXCEPT !.esc = esc] \in Alert
              /\ Update(i, [alerts[i] EXCEPT !.esc = esc])
<1>1. \A esc \in {"paged", "lost", "scheduled"} : [alerts[i] EXCEPT !.esc = esc] \in Alert
  BY AlertType DEF Alert
<1>2. QED
  BY <1>1, FaultType DEF Page, PageAgain, TypeOK

LEMMA AcknowledgeEffect ==
  ASSUME TypeOK, NEW i \in DOMAIN alerts, Acknowledge(i)
  PROVE  /\ [alerts[i] EXCEPT !.acked = now] \in Alert
         /\ Update(i, [alerts[i] EXCEPT !.acked = now])
<1>1. alerts[i] \in Alert
  BY AlertType
<1>2. [alerts[i] EXCEPT !.acked = now] \in Alert
  BY <1>1 DEF Alert, TypeOK
<1>3. QED
  BY <1>2 DEF Acknowledge

LEMMA TypeNext == TypeOK /\ [Next]_vars => TypeOK'
<1> SUFFICES ASSUME TypeOK, [Next]_vars PROVE TypeOK'
  OBVIOUS
<1>1. CASE FanOut
  <2>1. queue' \subseteq Message
    BY <1>1 DEF FanOut, TypeOK, Message
  <2>2. QED
    BY <1>1, <2>1 DEF FanOut, TypeOK
<1>2. ASSUME NEW p \in Proc, Scan(p) PROVE TypeOK'
  <2>1. PICK m \in queue, groups \in ErrorGroups :
          /\ queue' = queue \ {m}
          /\ jobs' = [jobs EXCEPT ![p] = NextGroup(m, {s \in groups : ~OnCooldown(p, s)})]
    BY <1>2 DEF Scan
  <2>2. m \in Message /\ {s \in groups : ~OnCooldown(p, s)} \in SUBSET Sig
    BY DEF TypeOK, ErrorGroups
  <2>3. NextGroup(m, {s \in groups : ~OnCooldown(p, s)}) \in Job
    BY <2>2, NextGroupType
  <2>4. QED
    BY <1>2, <2>1, <2>2, <2>3, NextGroupType, TypeJobs DEF Scan, TypeOK
<1>3. ASSUME NEW p \in Proc, Suppress(p) PROVE TypeOK'
  <2>1. PICK s \in jobs[p].todo :
          jobs' = [jobs EXCEPT ![p] = NextGroup(jobs[p].msg, jobs[p].todo \ {s})]
    BY <1>3 DEF Suppress
  <2>2. jobs[p].msg \in Message /\ jobs[p].todo \ {s} \in SUBSET Sig
    BY <1>3, JobType DEF Suppress
  <2>3. QED
    BY <1>3, <2>1, <2>2, NextGroupType, TypeJobs DEF Suppress, TypeOK
<1>4. ASSUME NEW p \in Proc, Fire(p) PROVE TypeOK'
  <2>1. PICK s \in jobs[p].todo, a \in Alert :
           /\ a.s \in Sig
           /\ store' = [store EXCEPT ![p][s] = now + Effective(LeastCooldown(TargetsOf(a)))]
           /\ now + Effective(LeastCooldown(TargetsOf(a))) \in Nat
           /\ alerts' = Append(alerts, a)
           /\ jobs' = [jobs EXCEPT ![p] = AfterFire(p, s, a)]
           /\ AfterFire(p, s, a) \in Job
           /\ faults' \in Nat
    BY <1>4, FireEffect
  <2>2. /\ alerts' \in Seq(Alert)
        /\ DOMAIN alerts' = DOMAIN alerts \cup {Len(alerts) + 1}
    BY <2>1, AppendEffect DEF TypeOK
  <2>3. AfterFire(p, s, a).pc \in {"record", "send", "schedule"} =>
          AfterFire(p, s, a).alert = Len(alerts) + 1
    BY <1>4, JobType, NextGroupType DEF AfterFire, Fire
  <2>4. store' \in [Proc -> [Sig -> Nat]]
    BY <2>1 DEF TypeOK
  <2>5. QED
    BY <1>4, <2>1, <2>2, <2>3, <2>4, TypeJobs DEF Fire, TypeOK
<1>5. ASSUME NEW p \in Proc, Record(p) PROVE TypeOK'
  <2>1. alerts' \in Seq(Alert) /\ DOMAIN alerts' = DOMAIN alerts
    BY <1>5, RecordEffect, UpdateEffect DEF TypeOK
  <2>2. [jobs[p] EXCEPT !.pc = "send"].alert = jobs[p].alert
    BY <1>5 DEF Record, TypeOK, Job
  <2>3. QED
    BY <1>5, <2>1, <2>2, RecordEffect, TypeJobs DEF Record, TypeOK
<1>6. ASSUME NEW p \in Proc, Send(p) PROVE TypeOK'
  <2>1. alerts' \in Seq(Alert) /\ DOMAIN alerts' = DOMAIN alerts
    BY <1>6, SendEffect, UpdateEffect DEF TypeOK
  <2>2. AfterSend(p).alert = jobs[p].alert
    BY <1>6 DEF Send, AfterSend, TypeOK, Job
  <2>3. QED
    BY <1>6, <2>1, <2>2, SendEffect, TypeJobs DEF Send, TypeOK
<1>7. ASSUME NEW p \in Proc, Schedule(p) PROVE TypeOK'
  <2>1. alerts' \in Seq(Alert) /\ DOMAIN alerts' = DOMAIN alerts
    BY <1>7, ScheduleEffect, UpdateEffect DEF TypeOK
  <2>2. NextGroup(jobs[p].msg, jobs[p].todo).pc \in {"idle", "group"}
    BY <1>7, JobType, NextGroupType DEF Schedule
  <2>3. QED
    BY <1>7, <2>1, <2>2, ScheduleEffect, TypeJobs DEF Schedule, TypeOK
<1>8. ASSUME NEW p \in Proc, FailScan(p) PROVE TypeOK'
  <2>1. queue' \subseteq Message
    <3>1. jobs[p].msg \in Message
      BY <1>8, JobType DEF FailScan
    <3>2. Again(jobs[p].msg) \subseteq Message
      BY <3>1 DEF Again, Message
    <3>3. QED
      BY <1>8, <3>2 DEF FailScan, TypeOK
  <2>2. IdleJob \in Job /\ IdleJob.pc = "idle"
    BY DEF IdleJob, Job
  <2>3. QED
    BY <1>8, <2>1, <2>2, FaultType, TypeJobs DEF FailScan, TypeOK
<1>9. ASSUME NEW p \in Proc, Crash(p) PROVE TypeOK'
  <2>1. queue' \subseteq Message
    BY <1>9, JobType DEF Crash, TypeOK
  <2>2. IdleJob \in Job /\ IdleJob.pc = "idle"
    BY DEF IdleJob, Job
  <2>3. alerts' \in Seq(Alert) /\ DOMAIN alerts' = DOMAIN alerts
    BY <1>9, CrashEffect DEF TypeOK
  <2>4. store' \in [Proc -> [Sig -> Nat]]
    BY <1>9 DEF Crash, TypeOK
  <2>5. QED
    BY <1>9, <2>1, <2>2, <2>3, <2>4, FaultType, TypeJobs DEF Crash, TypeOK
<1>10. ASSUME NEW i \in DOMAIN alerts, EscalationStep(i) \/ Acknowledge(i) PROVE TypeOK'
  <2>1. alerts' \in Seq(Alert) /\ DOMAIN alerts' = DOMAIN alerts
    BY <1>10, CheckAckEffect, SettleEffect, AcknowledgeEffect, UpdateEffect
       DEF EscalationStep, TypeOK
  <2>2. faults' \in Nat
    BY <1>10, CheckAckEffect, SettleEffect DEF EscalationStep, Acknowledge, TypeOK
  <2>3. QED
    BY <1>10, <2>1, <2>2 DEF EscalationStep, CheckAck, Page, PageAgain, Acknowledge, TypeOK
<1>11. ASSUME NEW t \in Tenant, NEW s \in Sig, EditIssue(t, s) PROVE TypeOK'
  <2>1. PICK until \in {0, now, MaxTime + 1} : muted' = [muted EXCEPT ![t][s] = until]
    BY <1>11 DEF EditIssue
  <2>2. until \in Nat
    BY AlertAssumption DEF AlertAssumption, TypeOK
  <2>3. QED
    BY <1>11, <2>1, <2>2 DEF EditIssue, TypeOK
<1>12. CASE Tick
  BY <1>12 DEF Tick, TypeOK
<1>13. CASE UNCHANGED vars
  BY <1>13 DEF vars, TypeOK
<1>14. QED
  BY <1>1, <1>2, <1>3, <1>4, <1>5, <1>6, <1>7, <1>8, <1>9, <1>10, <1>11, <1>12, <1>13
     DEF Next, ScanStep

(* What a process is handling is an alert that was started, and the alerts, *)
(* cooldowns, jobs and messages have their types, for any number of them.   *)
THEOREM TypeCorrect == Spec => []TypeOK
  BY TypeInit, TypeNext, PTL DEF Spec

-----------------------------------------------------------------------------
(* The cooldown                                                             *)

LEMMA CooldownInit == Init => CooldownInv
  BY DEF Init, IdleJob, CooldownInv, CooldownKept, PastCooldown, CooldownHeld

(* What a step leaves of an alert, for its cooldown.                        *)
SameFiring(a, b) == b.live = a.live /\ b.by = a.by /\ b.s = a.s /\ b.at = a.at

LEMMA SettlingFiring ==
  ASSUME NEW a \in Alert, NEW esc, NEW due, NEW fault, NEW done, NEW blind
  PROVE  /\ SameFiring(a, [a EXCEPT !.esc = esc, !.due = due, !.fault = fault, !.done = done])
         /\ SameFiring(a, [a EXCEPT !.esc = esc, !.blind = blind])
BY DEF SameFiring, Alert

LEMMA FiringStays ==
  ASSUME TypeOK, NEW i \in DOMAIN alerts, NEW a \in Alert, Update(i, a),
         SameFiring(alerts[i], a)
  PROVE  /\ DOMAIN alerts' = DOMAIN alerts
         /\ \A j \in DOMAIN alerts : SameFiring(alerts[j], alerts'[j])
<1>1. \A j \in DOMAIN alerts : SameFiring(alerts[j], alerts[j])
  BY DEF SameFiring
<1>2. QED
  BY <1>1, UpdateEffect DEF TypeOK

(* A step that starts no alert, and keeps the cooldowns and what is fired.  *)
LEMMA CooldownStays ==
  ASSUME TypeOK, TypeOK', CooldownInv, store' = store,
         DOMAIN alerts' = DOMAIN alerts,
         \A i \in DOMAIN alerts : SameFiring(alerts[i], alerts'[i]),
         now <= now',
         \A p \in Proc : jobs'[p].pc # "idle" =>
           \A s \in jobs'[p].todo : store[p][s] <= now
  PROVE  CooldownInv'
<1>1. CooldownKept'
  <2> SUFFICES ASSUME NEW i \in DOMAIN alerts', alerts'[i].live
               PROVE  /\ alerts'[i].at + Floor <= store'[alerts'[i].by][alerts'[i].s]
                      /\ alerts'[i].at <= now'
    BY DEF CooldownKept
  <2>1. alerts[i].at \in Nat
    BY AlertType DEF Alert
  <2>2. /\ alerts[i].at + Floor <= store[alerts[i].by][alerts[i].s]
        /\ alerts[i].at <= now
    BY DEF CooldownInv, CooldownKept, SameFiring
  <2>3. now \in Nat /\ now' \in Nat
    BY DEF TypeOK
  <2>4. QED
    BY <2>1, <2>2, <2>3 DEF SameFiring
<1>2. PastCooldown'
  <2> SUFFICES ASSUME NEW p \in Proc, jobs'[p].pc # "idle", NEW s \in jobs'[p].todo
               PROVE  store'[p][s] <= now'
    BY DEF PastCooldown
  <2>1. s \in Sig
    BY DEF TypeOK, Job
  <2>2. QED
    BY <2>1 DEF TypeOK
<1>3. CooldownHeld'
  BY DEF CooldownInv, CooldownHeld, SameFiring
<1>4. QED
  BY <1>1, <1>2, <1>3 DEF CooldownInv

LEMMA CooldownFire ==
  ASSUME TypeOK, TypeOK', CooldownInv, NEW p \in Proc, Fire(p)
  PROVE  CooldownInv'
<1>1. PICK s \in jobs[p].todo, unread \in BOOLEAN, fallback \in BOOLEAN :
        LET a == Fired(p, s, unread, fallback) IN
        /\ a \in Alert /\ a.s \in Sig
        /\ store' = [store EXCEPT ![p][s] = now + Effective(LeastCooldown(TargetsOf(a)))]
        /\ alerts' = Append(alerts, a)
        /\ jobs' = [jobs EXCEPT ![p] = AfterFire(p, s, a)]
  BY FireEffect
<1> DEFINE a == Fired(p, s, unread, fallback)
           n == Len(alerts) + 1
           wait == Effective(LeastCooldown(TargetsOf(a)))
<1>2. /\ a.by = p /\ a.s = s /\ a.at = now /\ s \in Sig /\ a \in Alert
      /\ now' = now /\ jobs[p].pc = "group"
  BY <1>1 DEF Fired, Fire
<1>3. wait \in Nat /\ Floor \in Nat /\ wait >= Floor
  BY <1>1, TargetsType, LeastCooldownType, EffectiveBound, AlertAssumption DEF AlertAssumption
<1>4. /\ DOMAIN alerts' = DOMAIN alerts \cup {n}
      /\ alerts'[n] = a
      /\ \A i \in DOMAIN alerts : i < n /\ i \in Nat /\ alerts'[i] = alerts[i]
  BY <1>1, AppendEffect DEF TypeOK
<1>5. store[p][s] <= now
  BY <1>2 DEF CooldownInv, PastCooldown
<1>6. \A i \in DOMAIN alerts : alerts[i].at \in Nat /\ alerts[i].by \in Proc /\ alerts[i].s \in Sig
  BY AlertType DEF Alert
<1>7. \A q \in Proc, r \in Sig :
        store'[q][r] = IF q = p /\ r = s THEN now + wait ELSE store[q][r]
  BY <1>1, <1>2 DEF TypeOK
<1> HIDE DEF a, n, wait
<1>8. CooldownKept'
  <2> SUFFICES ASSUME NEW i \in DOMAIN alerts', alerts'[i].live
               PROVE  /\ alerts'[i].at + Floor <= store'[alerts'[i].by][alerts'[i].s]
                      /\ alerts'[i].at <= now'
    BY DEF CooldownKept
  <2>1. CASE i = n
    BY <2>1, <1>2, <1>3, <1>4, <1>7 DEF TypeOK
  <2>2. CASE i # n
    <3>1. i \in DOMAIN alerts /\ alerts'[i] = alerts[i]
      BY <2>2, <1>4
    <3>2. /\ alerts[i].at + Floor <= store[alerts[i].by][alerts[i].s]
          /\ alerts[i].at <= now
      BY <3>1 DEF CooldownInv, CooldownKept
    <3>3. CASE alerts[i].by = p /\ alerts[i].s = s
      BY <3>1, <3>2, <3>3, <1>2, <1>3, <1>6, <1>7 DEF TypeOK
    <3>4. CASE ~(alerts[i].by = p /\ alerts[i].s = s)
      BY <3>1, <3>2, <3>4, <1>2, <1>6, <1>7
    <3>5. QED
      BY <3>3, <3>4
  <2>3. QED
    BY <2>1, <2>2
<1>9. PastCooldown'
  <2> SUFFICES ASSUME NEW q \in Proc, jobs'[q].pc # "idle", NEW r \in jobs'[q].todo
               PROVE  store'[q][r] <= now
    BY <1>2 DEF PastCooldown
  <2>1. r \in Sig
    BY DEF TypeOK, Job
  <2>2. CASE q = p
    <3>1. jobs'[p] = AfterFire(p, s, a)
      BY <1>1 DEF TypeOK, a
    <3>2. r \in jobs[p].todo /\ r # s
      BY <2>2, <3>1, <1>2, JobType, NextGroupType DEF AfterFire
    <3>3. QED
      BY <2>1, <2>2, <3>2, <1>2, <1>7 DEF CooldownInv, PastCooldown
  <2>3. CASE q # p
    BY <2>1, <2>3, <1>1, <1>7 DEF CooldownInv, PastCooldown, TypeOK
  <2>4. QED
    BY <2>2, <2>3
<1>10. CooldownHeld'
  <2> SUFFICES ASSUME NEW i \in DOMAIN alerts', NEW j \in DOMAIN alerts', i < j,
                      alerts'[i].live, alerts'[j].live,
                      alerts'[i].by = alerts'[j].by, alerts'[i].s = alerts'[j].s
               PROVE  alerts'[i].at + Floor <= alerts'[j].at
    BY DEF CooldownHeld
  <2>1. n \in Nat /\ i \in Nat /\ j \in Nat
    BY <1>4 DEF n, TypeOK
  <2>2. i \in DOMAIN alerts
    BY <1>4, <2>1
  <2>3. CASE j = n
    <3>1. alerts[i].at + Floor <= store[p][s]
      BY <2>2, <2>3, <1>2, <1>4 DEF CooldownInv, CooldownKept
    <3>2. store[p][s] \in Nat
      BY <1>2 DEF TypeOK
    <3>3. QED
      BY <2>2, <2>3, <3>1, <3>2, <1>2, <1>3, <1>4, <1>5, <1>6 DEF TypeOK
  <2>4. CASE j # n
    BY <2>2, <2>4, <1>4 DEF CooldownInv, CooldownHeld
  <2>5. QED
    BY <2>3, <2>4
<1>11. QED
  BY <1>8, <1>9, <1>10 DEF CooldownInv

LEMMA CooldownCrash ==
  ASSUME TypeOK, CooldownInv, NEW p \in Proc, Crash(p)
  PROVE  CooldownInv'
<1>1. /\ DOMAIN alerts' = DOMAIN alerts
      /\ \A i \in DOMAIN alerts :
           /\ alerts'[i].by = alerts[i].by /\ alerts'[i].s = alerts[i].s
           /\ alerts'[i].at = alerts[i].at
           /\ alerts'[i].live => alerts[i].live /\ alerts[i].by # p
  <2>1. \A i \in DOMAIN alerts : alerts[i] \in Alert
    BY AlertType
  <2>2. QED
    <3>1. /\ alerts \in Seq(Alert) /\ DOMAIN alerts' = DOMAIN alerts
          /\ \A i \in DOMAIN alerts :
               alerts'[i] = IF alerts[i].by = p THEN [alerts[i] EXCEPT !.live = FALSE]
                            ELSE alerts[i]
      BY CrashEffect DEF TypeOK
    <3>2. ASSUME NEW a \in Alert
          PROVE  LET b == [a EXCEPT !.live = FALSE] IN
                 b.by = a.by /\ b.s = a.s /\ b.at = a.at /\ ~b.live
      BY DEF Alert
    <3>3. QED
      BY <2>1, <3>1, <3>2
<1>2. /\ now' = now
      /\ jobs' = [jobs EXCEPT ![p] = IdleJob]
      /\ store' = [store EXCEPT ![p] = [s \in Sig |-> 0]]
  BY DEF Crash
<1>3. CooldownKept'
  <2>1. \A q \in Proc : q # p => store'[q] = store[q]
    BY <1>2 DEF TypeOK
  <2>2. \A i \in DOMAIN alerts : alerts[i].by \in Proc
    BY AlertType DEF Alert
  <2>3. QED
    BY <1>1, <1>2, <2>1, <2>2 DEF CooldownInv, CooldownKept
<1>4. PastCooldown'
  <2>1. \A q \in Proc : q # p => jobs'[q] = jobs[q] /\ store'[q] = store[q]
    BY <1>2 DEF TypeOK
  <2>2. jobs'[p].pc = "idle"
    BY <1>2 DEF TypeOK, IdleJob
  <2>3. QED
    BY <1>2, <2>1, <2>2 DEF CooldownInv, PastCooldown
<1>5. CooldownHeld'
  BY <1>1 DEF CooldownInv, CooldownHeld
<1>6. QED
  BY <1>3, <1>4, <1>5 DEF CooldownInv

LEMMA CooldownNext == TypeOK /\ TypeOK' /\ CooldownInv /\ [Next]_vars => CooldownInv'
<1> SUFFICES ASSUME TypeOK, TypeOK', CooldownInv, [Next]_vars PROVE CooldownInv'
  OBVIOUS
<1> DEFINE AlertsStay == /\ DOMAIN alerts' = DOMAIN alerts
                         /\ \A i \in DOMAIN alerts : SameFiring(alerts[i], alerts'[i])
           JobsWait == \A p \in Proc : jobs'[p].pc # "idle" =>
                         \A s \in jobs'[p].todo : store[p][s] <= now
<1>1. \A i \in DOMAIN alerts : alerts[i] \in Alert
  BY AlertType
<1>2. alerts' = alerts => AlertsStay
  BY DEF SameFiring
<1>3. jobs' = jobs => JobsWait
  BY DEF CooldownInv, PastCooldown
<1>4. ASSUME NEW p \in Proc, NEW job, jobs' = [jobs EXCEPT ![p] = job],
             job.pc # "idle" => \A s \in job.todo : store[p][s] <= now
      PROVE  JobsWait
  BY <1>4 DEF CooldownInv, PastCooldown, TypeOK
<1>5. now \in Nat /\ now <= now
  BY DEF TypeOK
<1> HIDE DEF JobsWait
<1>6. CASE FanOut
  BY <1>2, <1>3, <1>5, <1>6, CooldownStays DEF FanOut, JobsWait
<1>7. ASSUME NEW p \in Proc, Scan(p) PROVE CooldownInv'
  <2>1. PICK m \in queue, groups \in ErrorGroups :
          jobs' = [jobs EXCEPT ![p] = NextGroup(m, {s \in groups : ~OnCooldown(p, s)})]
    BY <1>7 DEF Scan
  <2>2. m \in Message /\ {s \in groups : ~OnCooldown(p, s)} \in SUBSET Sig
    BY DEF TypeOK, ErrorGroups
  <2>3. \A s \in groups : ~OnCooldown(p, s) => store[p][s] <= now
    <3>1. \A s \in groups : store[p][s] \in Nat
      BY DEF TypeOK, ErrorGroups
    <3>2. QED
      BY <3>1, <1>5 DEF OnCooldown
  <2>4. JobsWait
    BY <1>4, <2>1, <2>2, <2>3, NextGroupType
  <2>5. QED
    BY <1>2, <1>5, <1>7, <2>4, CooldownStays DEF Scan, JobsWait
<1>8. ASSUME NEW p \in Proc, Suppress(p) PROVE CooldownInv'
  <2>1. PICK s \in jobs[p].todo :
          jobs' = [jobs EXCEPT ![p] = NextGroup(jobs[p].msg, jobs[p].todo \ {s})]
    BY <1>8 DEF Suppress
  <2>2. jobs[p].msg \in Message /\ jobs[p].todo \ {s} \in SUBSET Sig
    BY <1>8, JobType DEF Suppress
  <2>3. \A r \in jobs[p].todo : store[p][r] <= now
    BY <1>8 DEF Suppress, CooldownInv, PastCooldown
  <2>4. JobsWait
    BY <1>4, <2>1, <2>2, <2>3, NextGroupType
  <2>5. QED
    BY <1>2, <1>5, <1>8, <2>4, CooldownStays DEF Suppress, JobsWait
<1>9. ASSUME NEW p \in Proc, Fire(p) PROVE CooldownInv'
  BY <1>9, CooldownFire
<1>10. ASSUME NEW p \in Proc, Record(p) PROVE CooldownInv'
  <2>1. AlertsStay
    <3> DEFINE i == jobs[p].alert
    <3>1. PICK fault \in BOOLEAN :
            LET a == [alerts[i] EXCEPT !.row = SentinelRule /\ ~fault,
                                       !.fault = alerts[i].fault \/ fault]
            IN  a \in Alert /\ Update(i, a)
      BY <1>10, RecordEffect
    <3>2. i \in DOMAIN alerts /\ alerts[i] \in Alert
      BY <1>1, <1>10, RecordEffect
    <3>3. SameFiring(alerts[i], [alerts[i] EXCEPT !.row = SentinelRule /\ ~fault,
                                                  !.fault = alerts[i].fault \/ fault])
      BY <3>2 DEF SameFiring, Alert
    <3>4. QED
      BY <3>1, <3>2, <3>3, FiringStays
  <2>2. JobsWait
    <3>1. [jobs[p] EXCEPT !.pc = "send"].todo = jobs[p].todo
      BY <1>10 DEF Record, TypeOK, Job
    <3>2. QED
      BY <1>4, <1>10, <3>1, RecordEffect DEF Record, CooldownInv, PastCooldown
  <2>3. QED
    BY <1>5, <1>10, <2>1, <2>2, CooldownStays DEF Record, JobsWait
<1>11. ASSUME NEW p \in Proc, Send(p) PROVE CooldownInv'
  <2>1. AlertsStay
    <3>1. SameFiring(alerts[jobs[p].alert], Sent(p))
      BY <1>1, <1>11, SendEffect DEF SameFiring, Alert, Sent
    <3>2. QED
      BY <1>11, <3>1, SendEffect, FiringStays
  <2>2. JobsWait
    <3>1. AfterSend(p).todo = jobs[p].todo
      BY <1>11 DEF Send, AfterSend, TypeOK, Job
    <3>2. QED
      BY <1>4, <1>11, <3>1, SendEffect DEF Send, CooldownInv, PastCooldown
  <2>3. QED
    BY <1>5, <1>11, <2>1, <2>2, CooldownStays DEF Send, JobsWait
<1>12. ASSUME NEW p \in Proc, Schedule(p) PROVE CooldownInv'
  <2>1. AlertsStay
    <3>1. PICK a \in Alert : SameFiring(alerts[jobs[p].alert], a) /\ Update(jobs[p].alert, a)
      BY <1>1, <1>12, ScheduleEffect, SettlingFiring
    <3>2. QED
      BY <1>12, <3>1, ScheduleEffect, FiringStays
  <2>2. JobsWait
    <3>1. jobs[p].msg \in Message /\ jobs[p].todo \in SUBSET Sig
      BY <1>12, JobType DEF Schedule
    <3>2. \A r \in jobs[p].todo : store[p][r] <= now
      BY <1>12 DEF Schedule, CooldownInv, PastCooldown
    <3>3. QED
      BY <1>4, <1>12, <3>1, <3>2, ScheduleEffect, NextGroupType
  <2>3. QED
    BY <1>5, <1>12, <2>1, <2>2, CooldownStays DEF Schedule, JobsWait
<1>13. ASSUME NEW p \in Proc, FailScan(p) PROVE CooldownInv'
  <2>1. JobsWait
    BY <1>4, <1>13 DEF FailScan, IdleJob
  <2>2. QED
    BY <1>2, <1>5, <1>13, <2>1, CooldownStays DEF FailScan, JobsWait
<1>14. ASSUME NEW p \in Proc, Crash(p) PROVE CooldownInv'
  BY <1>14, CooldownCrash
<1>15. ASSUME NEW i \in DOMAIN alerts, EscalationStep(i) \/ Acknowledge(i)
       PROVE  CooldownInv'
  <2>1. CASE CheckAck(i)
    <3>1. PICK a \in Alert : SameFiring(alerts[i], a) /\ Update(i, a)
      BY <1>1, <2>1, CheckAckEffect, SettlingFiring
    <3>2. AlertsStay
      BY <3>1, FiringStays
    <3>3. QED
      BY <1>3, <1>5, <2>1, <3>2, CooldownStays DEF CheckAck, JobsWait
  <2>2. CASE Page(i) \/ PageAgain(i)
    <3>1. PICK a \in Alert : SameFiring(alerts[i], a) /\ Update(i, a)
      BY <1>1, <2>2, SettleEffect DEF SameFiring, Alert
    <3>2. AlertsStay
      BY <3>1, FiringStays
    <3>3. QED
      BY <1>3, <1>5, <2>2, <3>2, CooldownStays DEF Page, PageAgain, JobsWait
  <2>3. CASE Acknowledge(i)
    <3>1. PICK a \in Alert : SameFiring(alerts[i], a) /\ Update(i, a)
      BY <1>1, <2>3, AcknowledgeEffect DEF SameFiring, Alert
    <3>2. AlertsStay
      BY <3>1, FiringStays
    <3>3. QED
      BY <1>3, <1>5, <2>3, <3>2, CooldownStays DEF Acknowledge, JobsWait
  <2>4. QED
    BY <1>15, <2>1, <2>2, <2>3 DEF EscalationStep
<1>16. ASSUME NEW t \in Tenant, NEW s \in Sig, EditIssue(t, s) PROVE CooldownInv'
  BY <1>2, <1>3, <1>5, <1>16, CooldownStays DEF EditIssue, JobsWait
<1>17. CASE Tick
  <2>1. now <= now'
    BY <1>5, <1>17 DEF Tick
  <2>2. QED
    BY <1>2, <1>3, <1>17, <2>1, CooldownStays DEF Tick, JobsWait
<1>18. CASE UNCHANGED vars
  BY <1>2, <1>3, <1>5, <1>18, CooldownStays DEF vars, JobsWait
<1>19. QED
  BY <1>6, <1>7, <1>8, <1>9, <1>10, <1>11, <1>12, <1>13, <1>14, <1>15, <1>16, <1>17, <1>18
     DEF Next, ScanStep

(* A living process fires one signature at intervals of at least Floor,     *)
(* whatever is retried, routed or delivered: its store outlives each of its *)
(* alerts by Floor, and what it goes on to fire is past its cooldown.       *)
THEOREM CooldownHolds == Spec => []CooldownHeld
<1>1. TypeOK /\ CooldownInv /\ [Next]_vars => (TypeOK /\ CooldownInv)'
  BY TypeNext, CooldownNext
<1>2. Init => TypeOK /\ CooldownInv
  BY TypeInit, CooldownInit
<1>3. TypeOK /\ CooldownInv => CooldownHeld
  BY DEF CooldownInv
<1>4. QED
  BY <1>1, <1>2, <1>3, PTL DEF Spec

-----------------------------------------------------------------------------
(* The acknowledgement                                                      *)

LEMMA AckInit == Init => AckInv
  BY DEF Init, AckInv, DecidedWhenDue, AckStopsPage

(* What AckInv says of one alert.                                           *)
AckKept(a) ==
  /\ a.esc \in {"paging", "paged", "lost"} => a.due <= now
  /\ a.acked # 0 /\ a.acked < a.due /\ ~a.blind => a.esc \notin {"paging", "paged", "lost"}

LEMMA AckOfEach == AckInv <=> \A i \in DOMAIN alerts : AckKept(alerts[i])
  BY DEF AckInv, DecidedWhenDue, AckStopsPage, AckKept

LEMMA AckUpdate ==
  ASSUME TypeOK, AckInv, NEW i \in DOMAIN alerts, NEW a \in Alert, Update(i, a),
         AckKept(a), now' = now
  PROVE  AckInv'
<1>1. \A j \in DOMAIN alerts' : alerts'[j] = a \/ (j \in DOMAIN alerts /\ alerts'[j] = alerts[j])
  BY UpdateEffect DEF TypeOK
<1>2. QED
  BY <1>1 DEF AckInv, DecidedWhenDue, AckStopsPage, AckKept

LEMMA AckNext == TypeOK /\ AckInv /\ [Next]_vars => AckInv'
<1> SUFFICES ASSUME TypeOK, AckInv, [Next]_vars PROVE AckInv'
  OBVIOUS
<1>1. \A i \in DOMAIN alerts : alerts[i] \in Alert /\ AckKept(alerts[i])
  BY AlertType, AckOfEach
<1>2. alerts' = alerts /\ now' = now => AckInv'
  BY DEF AckInv, DecidedWhenDue, AckStopsPage
<1>3. CASE FanOut
  BY <1>2, <1>3 DEF FanOut
<1>4. ASSUME NEW p \in Proc, Scan(p) \/ Suppress(p) \/ FailScan(p) PROVE AckInv'
  BY <1>2, <1>4 DEF Scan, Suppress, FailScan
<1>5. ASSUME NEW p \in Proc, Fire(p) PROVE AckInv'
  <2>1. PICK s \in jobs[p].todo, unread \in BOOLEAN, fallback \in BOOLEAN :
          /\ Fired(p, s, unread, fallback) \in Alert
          /\ alerts' = Append(alerts, Fired(p, s, unread, fallback))
    BY <1>5, FireEffect
  <2>2. Fired(p, s, unread, fallback).esc = "none"
    BY DEF Fired
  <2>3. \A i \in DOMAIN alerts' :
          alerts'[i].esc = "none" \/ (i \in DOMAIN alerts /\ alerts'[i] = alerts[i])
    BY <2>1, <2>2, AppendEffect DEF TypeOK
  <2>4. now' = now
    BY <1>5 DEF Fire
  <2>5. QED
    BY <2>3, <2>4 DEF AckInv, DecidedWhenDue, AckStopsPage
<1>6. ASSUME NEW p \in Proc, Record(p) PROVE AckInv'
  <2> DEFINE i == jobs[p].alert
  <2>1. PICK fault \in BOOLEAN :
          LET a == [alerts[i] EXCEPT !.row = SentinelRule /\ ~fault,
                                     !.fault = alerts[i].fault \/ fault]
          IN  a \in Alert /\ Update(i, a)
    BY <1>6, RecordEffect
  <2>2. i \in DOMAIN alerts
    BY <1>6, RecordEffect
  <2>3. AckKept([alerts[i] EXCEPT !.row = SentinelRule /\ ~fault,
                                  !.fault = alerts[i].fault \/ fault])
    BY <1>1, <2>2 DEF AckKept, Alert
  <2>4. QED
    BY <1>6, <2>1, <2>2, <2>3, AckUpdate DEF Record
<1>7. ASSUME NEW p \in Proc, Send(p) PROVE AckInv'
  <2>1. AckKept(Sent(p))
    BY <1>1, <1>7, SendEffect DEF Sent, AckKept, Alert
  <2>2. QED
    BY <1>7, <2>1, SendEffect, AckUpdate DEF Send
<1>8. ASSUME NEW p \in Proc, Schedule(p) PROVE AckInv'
  <2> DEFINE i == jobs[p].alert
             scheduled(fault) == alerts[i].row /\ CanBePaged(alerts[i]) /\ ~fault
  <2>1. PICK fault \in BOOLEAN :
          LET a == [alerts[i] EXCEPT
                      !.esc = IF scheduled(fault) THEN "scheduled" ELSE alerts[i].esc,
                      !.due = IF scheduled(fault) THEN now + Escalation ELSE alerts[i].due,
                      !.fault = alerts[i].fault \/ fault, !.done = TRUE]
          IN  a \in Alert /\ Update(i, a)
    BY <1>8, ScheduleEffect
  <2> DEFINE a == [alerts[i] EXCEPT
                      !.esc = IF scheduled(fault) THEN "scheduled" ELSE alerts[i].esc,
                      !.due = IF scheduled(fault) THEN now + Escalation ELSE alerts[i].due,
                      !.fault = alerts[i].fault \/ fault, !.done = TRUE]
  <2>2. i \in DOMAIN alerts
    BY <1>8, ScheduleEffect
  <2>3. AckKept(a)
    <3>1. alerts[i] \in Alert /\ AckKept(alerts[i])
      BY <1>1, <2>2
    <3>2. CASE scheduled(fault)
      <4>1. a.esc = "scheduled"
        BY <3>1, <3>2 DEF Alert
      <4>2. QED
        BY <4>1 DEF AckKept
    <3>3. CASE ~scheduled(fault)
      <4>1. /\ a.esc = alerts[i].esc /\ a.due = alerts[i].due
            /\ a.acked = alerts[i].acked /\ a.blind = alerts[i].blind
        BY <3>1, <3>3 DEF Alert
      <4>2. QED
        BY <3>1, <4>1 DEF AckKept
    <3>4. QED
      BY <3>2, <3>3
  <2>4. QED
    BY <1>8, <2>1, <2>2, <2>3, AckUpdate DEF Schedule
<1>9. ASSUME NEW p \in Proc, Crash(p) PROVE AckInv'
  <2>1. /\ DOMAIN alerts' = DOMAIN alerts
        /\ \A i \in DOMAIN alerts :
             /\ alerts'[i].esc = alerts[i].esc /\ alerts'[i].due = alerts[i].due
             /\ alerts'[i].acked = alerts[i].acked /\ alerts'[i].blind = alerts[i].blind
    BY <1>1, <1>9, CrashEffect DEF Alert, TypeOK
  <2>2. QED
    BY <1>9, <2>1 DEF Crash, AckInv, DecidedWhenDue, AckStopsPage
<1>10. ASSUME NEW i \in DOMAIN alerts, CheckAck(i) PROVE AckInv'
  <2>1. PICK unread \in BOOLEAN :
          LET a == [alerts[i] EXCEPT
                      !.esc = IF alerts[i].acked # 0 /\ ~unread
                              THEN "suppressed" ELSE "paging",
                      !.blind = alerts[i].blind \/ unread]
          IN  a \in Alert /\ Update(i, a)
    BY <1>10, CheckAckEffect
  <2> DEFINE a == [alerts[i] EXCEPT
                      !.esc = IF alerts[i].acked # 0 /\ ~unread
                              THEN "suppressed" ELSE "paging",
                      !.blind = alerts[i].blind \/ unread]
  <2>2. /\ a.due = alerts[i].due /\ a.acked = alerts[i].acked
        /\ a.esc = IF alerts[i].acked # 0 /\ ~unread THEN "suppressed" ELSE "paging"
        /\ unread => a.blind
    BY <1>1 DEF Alert
  <2> HIDE DEF a
  <2>3. AckKept(a)
    BY <1>10, <2>2 DEF AckKept, CheckAck, Due
  <2>4. QED
    BY <1>10, <2>1, <2>3, AckUpdate DEF CheckAck, a
<1>11. ASSUME NEW i \in DOMAIN alerts, Page(i) \/ PageAgain(i) PROVE AckInv'
  <2>1. PICK esc \in {"paged", "lost", "scheduled"} :
          /\ [alerts[i] EXCEPT !.esc = esc] \in Alert
          /\ Update(i, [alerts[i] EXCEPT !.esc = esc])
    BY <1>11, SettleEffect
  <2>2. AckKept([alerts[i] EXCEPT !.esc = esc])
    <3>1. alerts[i].esc = "paging"
      BY <1>11, SettleEffect
    <3>2. QED
      BY <1>1, <3>1 DEF AckKept, Alert
  <2>3. QED
    BY <1>11, <2>1, <2>2, AckUpdate DEF Page, PageAgain
<1>12. ASSUME NEW i \in DOMAIN alerts, Acknowledge(i) PROVE AckInv'
  <2>1. AckKept([alerts[i] EXCEPT !.acked = now])
    <3>1. /\ [alerts[i] EXCEPT !.acked = now].esc = alerts[i].esc
          /\ [alerts[i] EXCEPT !.acked = now].due = alerts[i].due
          /\ [alerts[i] EXCEPT !.acked = now].acked = now
      BY <1>1 DEF Alert
    <3>2. now \in Nat /\ alerts[i].due \in Nat
      BY <1>1 DEF TypeOK, Alert
    <3>3. QED
      BY <1>1, <3>1, <3>2 DEF AckKept
  <2>2. QED
    BY <1>12, <2>1, AcknowledgeEffect, AckUpdate DEF Acknowledge
<1>13. ASSUME NEW t \in Tenant, NEW s \in Sig, EditIssue(t, s) PROVE AckInv'
  BY <1>2, <1>13 DEF EditIssue
<1>14. CASE Tick
  <2>1. \A i \in DOMAIN alerts : alerts[i].due <= now => alerts[i].due <= now'
    BY <1>1, <1>14 DEF Tick, TypeOK, Alert
  <2>2. QED
    BY <1>14, <2>1 DEF Tick, AckInv, DecidedWhenDue, AckStopsPage
<1>15. CASE UNCHANGED vars
  BY <1>2, <1>15 DEF vars
<1>16. QED
  BY <1>3, <1>4, <1>5, <1>6, <1>7, <1>8, <1>9, <1>10, <1>11, <1>12, <1>13, <1>14, <1>15
     DEF Next, ScanStep, EscalationStep

(* An alert that is acknowledged before its page is due is not paged, unless *)
(* the acknowledgement could not be read, in any order of the check, the     *)
(* page, its redelivery and the acknowledgement: a page is on its way only   *)
(* when it is due, so an earlier acknowledgement is there to be read.        *)
THEOREM AckStopsPageHolds == Spec => []AckStopsPage
<1>1. TypeOK /\ AckInv /\ [Next]_vars => (TypeOK /\ AckInv)'
  BY TypeNext, AckNext
<1>2. Init => TypeOK /\ AckInv
  BY TypeInit, AckInit
<1>3. TypeOK /\ AckInv => AckStopsPage
  BY DEF AckInv
<1>4. QED
  BY <1>1, <1>2, <1>3, PTL DEF Spec

-----------------------------------------------------------------------------
(* The webhooks and the page                                                *)

LEMMA EscalatedInit == Init => EscalatedInv
  BY DEF Init, IdleJob, EscalatedInv, HandledSoFar, Handling, HandledWell

(* What a step leaves of an alert, for what is sent and scheduled.          *)
SameHandling(a, b) ==
  /\ b.by = a.by /\ b.t = a.t /\ b.s = a.s /\ b.fallback = a.fallback
  /\ b.row = a.row /\ b.sent = a.sent /\ b.fault = a.fault /\ b.done = a.done
  /\ b.esc = "none" => a.esc = "none"

LEMMA SameHandlingKeeps ==
  ASSUME NEW a, NEW b, SameHandling(a, b)
  PROVE  /\ TargetsOf(b) = TargetsOf(a)
         /\ EndedWell(a) => EndedWell(b)
         /\ \A p, job : HandledBy(p, job, a) => HandledBy(p, job, b)
<1>1. TargetsOf(b) = TargetsOf(a)
  BY DEF SameHandling, TargetsOf
<1>2. EndedWell(a) => EndedWell(b)
  BY <1>1 DEF SameHandling, EndedWell, CanBePaged
<1>3. \A p, job : HandledBy(p, job, a) => HandledBy(p, job, b)
  BY <1>1 DEF SameHandling, HandledBy, SlackBefore
<1>4. QED
  BY <1>1, <1>2, <1>3

(* A step that handles no alert further.                                    *)
LEMMA EscalatedStays ==
  ASSUME TypeOK, EscalatedInv, DOMAIN alerts' = DOMAIN alerts,
         \A i \in DOMAIN alerts : SameHandling(alerts[i], alerts'[i]),
         \A p \in Proc : Handling(p)' => jobs'[p] = jobs[p]
  PROVE  EscalatedInv'
<1>1. HandledWell'
  <2>1. \A i \in DOMAIN alerts : EndedWell(alerts'[i])
    BY SameHandlingKeeps DEF EscalatedInv, HandledWell
  <2>2. QED
    BY <2>1 DEF HandledWell, EndedWell, CanBePaged
<1>2. HandledSoFar'
  <2> SUFFICES ASSUME NEW p \in Proc, Handling(p)'
               PROVE  HandledBy(p, jobs'[p], alerts'[jobs'[p].alert])
    BY DEF HandledSoFar, HandledBy, SlackBefore
  <2>1. jobs'[p] = jobs[p] /\ Handling(p)
    BY DEF Handling
  <2>2. jobs[p].alert \in DOMAIN alerts /\ HandledBy(p, jobs[p], alerts[jobs[p].alert])
    BY <2>1 DEF TypeOK, Handling, EscalatedInv, HandledSoFar
  <2>3. QED
    BY <2>1, <2>2, SameHandlingKeeps
<1>3. QED
  BY <1>1, <1>2 DEF EscalatedInv

(* A step of the process that handles the alert.                            *)
LEMMA EscalatedHandled ==
  ASSUME TypeOK, EscalatedInv, NEW p \in Proc, Handling(p),
         NEW a \in Alert, Update(jobs[p].alert, a), a.by = p, EndedWell(a),
         NEW job \in Job, jobs' = [jobs EXCEPT ![p] = job],
         job.pc \in {"record", "send", "schedule"} =>
           job.alert = jobs[p].alert /\ HandledBy(p, job, a)
  PROVE  EscalatedInv'
<1> DEFINE i == jobs[p].alert
<1>1. i \in DOMAIN alerts
  BY DEF TypeOK, Handling
<1>2. /\ DOMAIN alerts' = DOMAIN alerts /\ alerts'[i] = a
      /\ \A j \in DOMAIN alerts : j # i => alerts'[j] = alerts[j]
  BY <1>1, UpdateEffect DEF TypeOK
<1>3. HandledWell'
  <2>1. \A j \in DOMAIN alerts : EndedWell(alerts'[j])
    BY <1>2 DEF EscalatedInv, HandledWell
  <2>2. QED
    BY <1>2, <2>1 DEF HandledWell, EndedWell, CanBePaged
<1>4. HandledSoFar'
  <2> SUFFICES ASSUME NEW q \in Proc, Handling(q)'
               PROVE  HandledBy(q, jobs'[q], alerts'[jobs'[q].alert])
    BY DEF HandledSoFar, HandledBy, SlackBefore
  <2>1. CASE q = p
    BY <1>2, <2>1 DEF TypeOK, Handling
  <2>2. CASE q # p
    <3>1. jobs'[q] = jobs[q] /\ Handling(q)
      BY <2>2 DEF TypeOK, Handling
    <3>2. jobs[q].alert \in DOMAIN alerts /\ HandledBy(q, jobs[q], alerts[jobs[q].alert])
      BY <3>1 DEF TypeOK, Handling, EscalatedInv, HandledSoFar
    <3>3. HandledBy(p, jobs[p], alerts[i])
      BY DEF EscalatedInv, HandledSoFar
    <3>4. jobs[q].alert # i
      BY <2>2, <3>2, <3>3 DEF HandledBy
    <3>5. QED
      BY <1>2, <3>1, <3>2, <3>4
  <2>3. QED
    BY <2>1, <2>2
<1>5. QED
  BY <1>3, <1>4 DEF EscalatedInv

LEMMA EscalatedFire ==
  ASSUME TypeOK, EscalatedInv, NEW p \in Proc, Fire(p)
  PROVE  EscalatedInv'
<1>1. PICK s \in jobs[p].todo, unread \in BOOLEAN, fallback \in BOOLEAN :
        LET a == Fired(p, s, unread, fallback) IN
        /\ a \in Alert
        /\ alerts' = Append(alerts, a)
        /\ jobs' = [jobs EXCEPT ![p] = AfterFire(p, s, a)]
  BY FireEffect
<1> DEFINE a == Fired(p, s, unread, fallback)
           n == Len(alerts) + 1
<1>2. a \in Alert /\ a.by = p /\ ~a.done /\ a.sent = {}
  BY <1>1 DEF Fired
<1>3. /\ DOMAIN alerts' = DOMAIN alerts \cup {n} /\ alerts'[n] = a
      /\ \A j \in DOMAIN alerts : alerts'[j] = alerts[j]
  BY <1>1, AppendEffect DEF TypeOK
<1>4. jobs'[p] = AfterFire(p, s, a) /\ \A q \in Proc : q # p => jobs'[q] = jobs[q]
  BY <1>1 DEF TypeOK
<1> HIDE DEF a, n
<1>5. HandledWell'
  <2>1. \A j \in DOMAIN alerts' : EndedWell(alerts'[j])
    BY <1>2, <1>3 DEF EscalatedInv, HandledWell, EndedWell
  <2>2. QED
    BY <2>1 DEF HandledWell, EndedWell, CanBePaged
<1>6. HandledSoFar'
  <2> SUFFICES ASSUME NEW q \in Proc, Handling(q)'
               PROVE  HandledBy(q, jobs'[q], alerts'[jobs'[q].alert])
    BY DEF HandledSoFar, HandledBy, SlackBefore
  <2>1. CASE q = p
    <3>1. TargetsOf(a) # <<>>
      BY <1>4, <2>1, JobType, NextGroupType DEF Fire, AfterFire, Handling
    <3>2. TargetsOf(a) \in Seq(Target)
      BY <1>2, TargetsType
    <3>3. Len(TargetsOf(a)) > 0 /\ SlackBefore(a, 1) = {}
      BY <3>1, <3>2 DEF SlackBefore
    <3>4. jobs'[p].pc = "record" /\ jobs'[p].alert = n /\ jobs'[p].left = 1
      BY <1>4, <3>1 DEF AfterFire, n
    <3>5. QED
      BY <1>2, <1>3, <2>1, <3>3, <3>4 DEF HandledBy
  <2>2. CASE q # p
    <3>1. jobs'[q] = jobs[q] /\ Handling(q)
      BY <1>4, <2>2 DEF Handling
    <3>2. jobs[q].alert \in DOMAIN alerts /\ HandledBy(q, jobs[q], alerts[jobs[q].alert])
      BY <3>1 DEF TypeOK, Handling, EscalatedInv, HandledSoFar
    <3>3. QED
      BY <1>3, <3>1, <3>2
  <2>3. QED
    BY <2>1, <2>2
<1>7. QED
  BY <1>5, <1>6 DEF EscalatedInv

LEMMA EscalatedRecord ==
  ASSUME TypeOK, EscalatedInv, NEW p \in Proc, Record(p)
  PROVE  EscalatedInv'
<1> DEFINE i == jobs[p].alert
           job == [jobs[p] EXCEPT !.pc = "send"]
<1>1. PICK fault \in BOOLEAN :
        LET a == [alerts[i] EXCEPT !.row = SentinelRule /\ ~fault,
                                   !.fault = alerts[i].fault \/ fault]
        IN  a \in Alert /\ Update(i, a)
  BY RecordEffect
<1> DEFINE a == [alerts[i] EXCEPT !.row = SentinelRule /\ ~fault,
                                  !.fault = alerts[i].fault \/ fault]
<1>2. Handling(p) /\ jobs[p].pc = "record" /\ i \in DOMAIN alerts /\ alerts[i] \in Alert
  BY RecordEffect, AlertType DEF Record, Handling
<1>3. /\ a.by = alerts[i].by /\ a.done = alerts[i].done /\ a.sent = alerts[i].sent
      /\ TargetsOf(a) = TargetsOf(alerts[i])
      /\ SentinelRule => a.row \/ a.fault
  BY <1>2 DEF Alert, TargetsOf
<1>4. HandledBy(p, jobs[p], alerts[i])
  BY <1>2 DEF EscalatedInv, HandledSoFar
<1>5. job.pc = "send" /\ job.left = jobs[p].left /\ job.alert = i
  BY <1>2 DEF TypeOK, Job
<1>6. job \in Job /\ jobs' = [jobs EXCEPT ![p] = job]
  BY RecordEffect
<1>7. Len(TargetsOf(a)) \in Nat
  BY <1>1, TargetsType
<1> HIDE DEF a, job
<1>8. HandledBy(p, job, a)
  BY <1>2, <1>3, <1>4, <1>5, <1>7 DEF HandledBy, SlackBefore
<1>9. EndedWell(a) /\ a.by = p
  BY <1>3, <1>4 DEF HandledBy, EndedWell
<1>10. QED
  BY <1>1, <1>2, <1>5, <1>6, <1>8, <1>9, EscalatedHandled DEF a

LEMMA EscalatedSend ==
  ASSUME TypeOK, EscalatedInv, NEW p \in Proc, Send(p)
  PROVE  EscalatedInv'
<1> DEFINE i == jobs[p].alert
           k == jobs[p].left
           n == Len(TargetsOf(alerts[i]))
<1>1. Handling(p) /\ jobs[p].pc = "send" /\ i \in DOMAIN alerts /\ alerts[i] \in Alert
  BY SendEffect, AlertType DEF Send, Handling
<1>2. HandledBy(p, jobs[p], alerts[i])
  BY <1>1 DEF EscalatedInv, HandledSoFar
<1>3. n \in Nat /\ DOMAIN TargetsOf(alerts[i]) = 1 .. n /\ k \in 1 .. n
  BY <1>1, <1>2, TargetsType DEF HandledBy
<1>4. /\ Sent(p).by = alerts[i].by /\ Sent(p).done = alerts[i].done
      /\ Sent(p).row = alerts[i].row /\ Sent(p).fault = alerts[i].fault
      /\ TargetsOf(Sent(p)) = TargetsOf(alerts[i])
      /\ Sent(p).sent = IF TargetsOf(alerts[i])[k].slack THEN alerts[i].sent \cup {k}
                        ELSE alerts[i].sent
  BY <1>1 DEF Alert, TargetsOf, Sent
<1>5. /\ AfterSend(p).pc = IF k = n THEN "schedule" ELSE "send"
      /\ AfterSend(p).left = k + 1 /\ AfterSend(p).alert = i
  BY <1>1 DEF TypeOK, Job, AfterSend
<1> HIDE DEF n, k
<1>6. Sent(p).sent = SlackBefore(Sent(p), k + 1)
  <2>1. \A m \in 1 .. n : m < k + 1 <=> m < k \/ m = k
    BY <1>3
  <2>2. alerts[i].sent = {m \in 1 .. n : m < k /\ TargetsOf(alerts[i])[m].slack}
    BY <1>2, <1>3 DEF HandledBy, SlackBefore, k
  <2>3. SlackBefore(Sent(p), k + 1) =
          {m \in 1 .. n : m < k + 1 /\ TargetsOf(alerts[i])[m].slack}
    BY <1>3, <1>4 DEF SlackBefore
  <2>4. QED
    BY <1>3, <1>4, <2>1, <2>2, <2>3
<1>7. HandledBy(p, AfterSend(p), Sent(p))
  <2>1. k + 1 \in 1 .. n \/ k = n
    BY <1>3
  <2>2. QED
    BY <1>1, <1>2, <1>4, <1>5, <1>6, <2>1 DEF HandledBy, n
<1>8. EndedWell(Sent(p)) /\ Sent(p).by = p
  BY <1>2, <1>4 DEF HandledBy, EndedWell
<1>9. QED
  BY <1>1, <1>5, <1>7, <1>8, SendEffect, EscalatedHandled

LEMMA EscalatedSchedule ==
  ASSUME TypeOK, EscalatedInv, NEW p \in Proc, Schedule(p)
  PROVE  EscalatedInv'
<1> DEFINE i == jobs[p].alert
           scheduled(fault) == alerts[i].row /\ CanBePaged(alerts[i]) /\ ~fault
           job == NextGroup(jobs[p].msg, jobs[p].todo)
<1>1. PICK fault \in BOOLEAN :
        LET a == [alerts[i] EXCEPT
                    !.esc = IF scheduled(fault) THEN "scheduled" ELSE alerts[i].esc,
                    !.due = IF scheduled(fault) THEN now + Escalation ELSE alerts[i].due,
                    !.fault = alerts[i].fault \/ fault, !.done = TRUE]
        IN  a \in Alert /\ Update(i, a)
  BY ScheduleEffect
<1> DEFINE a == [alerts[i] EXCEPT
                    !.esc = IF scheduled(fault) THEN "scheduled" ELSE alerts[i].esc,
                    !.due = IF scheduled(fault) THEN now + Escalation ELSE alerts[i].due,
                    !.fault = alerts[i].fault \/ fault, !.done = TRUE]
<1>2. Handling(p) /\ jobs[p].pc = "schedule" /\ i \in DOMAIN alerts /\ alerts[i] \in Alert
  BY ScheduleEffect, AlertType DEF Schedule, Handling
<1>3. HandledBy(p, jobs[p], alerts[i])
  BY <1>2 DEF EscalatedInv, HandledSoFar
<1>4. /\ a.by = alerts[i].by /\ a.sent = alerts[i].sent
      /\ TargetsOf(a) = TargetsOf(alerts[i])
      /\ ~a.fault => ~alerts[i].fault /\ ~fault
      /\ scheduled(fault) => a.esc = "scheduled"
  <2> HIDE DEF scheduled
  <2>1. QED
    BY <1>2 DEF Alert, TargetsOf
<1>5. LET targets == TargetsOf(alerts[i]) IN
      alerts[i].sent = {k \in DOMAIN targets : targets[k].slack}
  <2>1. TargetsOf(alerts[i]) \in Seq(Target)
    BY <1>2, TargetsType
  <2>2. \A k \in DOMAIN TargetsOf(alerts[i]) : k < Len(TargetsOf(alerts[i])) + 1
    BY <2>1
  <2>3. QED
    BY <1>2, <1>3, <2>2 DEF HandledBy, SlackBefore
<1> HIDE DEF a
<1>6. EndedWell(a)
  BY <1>2, <1>3, <1>4, <1>5 DEF EndedWell, HandledBy, CanBePaged
<1>7. job \in Job /\ job.pc \in {"idle", "group"}
  BY ScheduleEffect, JobType, NextGroupType DEF Schedule
<1>8. a.by = p
  BY <1>3, <1>4 DEF HandledBy
<1>9. jobs' = [jobs EXCEPT ![p] = job]
  BY ScheduleEffect
<1> HIDE DEF job
<1>10. QED
  BY <1>1, <1>2, <1>6, <1>7, <1>8, <1>9, EscalatedHandled DEF a

LEMMA EscalatedNext ==
  TypeOK /\ EscalatedInv /\ [Next]_vars => EscalatedInv'
<1> SUFFICES ASSUME TypeOK, EscalatedInv, [Next]_vars PROVE EscalatedInv'
  OBVIOUS
<1> DEFINE AlertsStay == /\ DOMAIN alerts' = DOMAIN alerts
                         /\ \A i \in DOMAIN alerts : SameHandling(alerts[i], alerts'[i])
           JobsStay == \A p \in Proc : Handling(p)' => jobs'[p] = jobs[p]
<1>1. \A i \in DOMAIN alerts : alerts[i] \in Alert
  BY AlertType
<1>2. alerts' = alerts => AlertsStay
  BY DEF SameHandling
<1>3. jobs' = jobs => JobsStay
  OBVIOUS
<1>4. ASSUME NEW p \in Proc, NEW job, jobs' = [jobs EXCEPT ![p] = job],
             job.pc \in {"idle", "group"}
      PROVE  JobsStay
  BY <1>4 DEF Handling, TypeOK
<1>5. ASSUME NEW i \in DOMAIN alerts, NEW a \in Alert, Update(i, a), SameHandling(alerts[i], a)
      PROVE  AlertsStay
  <2>1. \A j \in DOMAIN alerts : SameHandling(alerts[j], alerts[j])
    BY DEF SameHandling
  <2>2. QED
    BY <1>5, <2>1, UpdateEffect DEF TypeOK
<1> HIDE DEF JobsStay
<1>6. CASE FanOut
  BY <1>2, <1>3, <1>6, EscalatedStays DEF FanOut, JobsStay
<1>7. ASSUME NEW p \in Proc, Scan(p) PROVE EscalatedInv'
  <2>1. PICK m \in queue, groups \in ErrorGroups :
          jobs' = [jobs EXCEPT ![p] = NextGroup(m, {s \in groups : ~OnCooldown(p, s)})]
    BY <1>7 DEF Scan
  <2>2. m \in Message /\ {s \in groups : ~OnCooldown(p, s)} \in SUBSET Sig
    BY DEF TypeOK, ErrorGroups
  <2>3. JobsStay
    BY <1>4, <2>1, <2>2, NextGroupType
  <2>4. QED
    BY <1>2, <1>7, <2>3, EscalatedStays DEF Scan, JobsStay
<1>8. ASSUME NEW p \in Proc, Suppress(p) PROVE EscalatedInv'
  <2>1. PICK s \in jobs[p].todo :
          jobs' = [jobs EXCEPT ![p] = NextGroup(jobs[p].msg, jobs[p].todo \ {s})]
    BY <1>8 DEF Suppress
  <2>2. jobs[p].msg \in Message /\ jobs[p].todo \ {s} \in SUBSET Sig
    BY <1>8, JobType DEF Suppress
  <2>3. JobsStay
    BY <1>4, <2>1, <2>2, NextGroupType
  <2>4. QED
    BY <1>2, <1>8, <2>3, EscalatedStays DEF Suppress, JobsStay
<1>9. ASSUME NEW p \in Proc, Fire(p) PROVE EscalatedInv'
  BY <1>9, EscalatedFire
<1>10. ASSUME NEW p \in Proc, Record(p) PROVE EscalatedInv'
  BY <1>10, EscalatedRecord
<1>11. ASSUME NEW p \in Proc, Send(p) PROVE EscalatedInv'
  BY <1>11, EscalatedSend
<1>12. ASSUME NEW p \in Proc, Schedule(p) PROVE EscalatedInv'
  BY <1>12, EscalatedSchedule
<1>13. ASSUME NEW p \in Proc, FailScan(p) PROVE EscalatedInv'
  <2>1. JobsStay
    BY <1>4, <1>13 DEF FailScan, IdleJob
  <2>2. QED
    BY <1>2, <1>13, <2>1, EscalatedStays DEF FailScan, JobsStay
<1>14. ASSUME NEW p \in Proc, Crash(p) PROVE EscalatedInv'
  <2>1. JobsStay
    BY <1>4, <1>14 DEF Crash, IdleJob
  <2>2. AlertsStay
    <3>1. \A a \in Alert : SameHandling(a, a) /\ SameHandling(a, [a EXCEPT !.live = FALSE])
      BY DEF SameHandling, Alert
    <3>2. QED
      BY <1>1, <1>14, <3>1, CrashEffect DEF TypeOK
  <2>3. QED
    BY <2>1, <2>2, EscalatedStays DEF JobsStay
<1>15. ASSUME NEW i \in DOMAIN alerts, CheckAck(i) PROVE EscalatedInv'
  <2>1. PICK unread \in BOOLEAN :
          LET a == [alerts[i] EXCEPT
                      !.esc = IF alerts[i].acked # 0 /\ ~unread
                              THEN "suppressed" ELSE "paging",
                      !.blind = alerts[i].blind \/ unread]
          IN  a \in Alert /\ Update(i, a)
    BY <1>15, CheckAckEffect
  <2>2. SameHandling(alerts[i],
          [alerts[i] EXCEPT
             !.esc = IF alerts[i].acked # 0 /\ ~unread THEN "suppressed" ELSE "paging",
             !.blind = alerts[i].blind \/ unread])
    BY <1>1 DEF SameHandling, Alert
  <2>3. JobsStay
    BY <1>3, <1>15 DEF CheckAck
  <2>4. AlertsStay
    BY <1>5, <2>1, <2>2
  <2>5. QED
    BY <2>3, <2>4, EscalatedStays DEF JobsStay
<1>16. ASSUME NEW i \in DOMAIN alerts, Page(i) \/ PageAgain(i) PROVE EscalatedInv'
  <2>1. PICK esc \in {"paged", "lost", "scheduled"} :
          /\ [alerts[i] EXCEPT !.esc = esc] \in Alert
          /\ Update(i, [alerts[i] EXCEPT !.esc = esc])
    BY <1>16, SettleEffect
  <2>2. SameHandling(alerts[i], [alerts[i] EXCEPT !.esc = esc])
    BY <1>1 DEF SameHandling, Alert
  <2>3. JobsStay
    BY <1>3, <1>16 DEF Page, PageAgain
  <2>4. AlertsStay
    BY <1>5, <2>1, <2>2
  <2>5. QED
    BY <2>3, <2>4, EscalatedStays DEF JobsStay
<1>17. ASSUME NEW i \in DOMAIN alerts, Acknowledge(i) PROVE EscalatedInv'
  <2>1. SameHandling(alerts[i], [alerts[i] EXCEPT !.acked = now])
    BY <1>1 DEF SameHandling, Alert
  <2>2. JobsStay
    BY <1>3, <1>17 DEF Acknowledge
  <2>3. AlertsStay
    BY <1>5, <1>17, <2>1, AcknowledgeEffect
  <2>4. QED
    BY <2>2, <2>3, EscalatedStays DEF JobsStay
<1>18. ASSUME NEW t \in Tenant, NEW s \in Sig, EditIssue(t, s) PROVE EscalatedInv'
  BY <1>2, <1>3, <1>18, EscalatedStays DEF EditIssue, JobsStay
<1>19. CASE Tick
  BY <1>2, <1>3, <1>19, EscalatedStays DEF Tick, JobsStay
<1>20. CASE UNCHANGED vars
  BY <1>2, <1>3, <1>20, EscalatedStays DEF vars, JobsStay
<1>21. QED
  BY <1>6, <1>7, <1>8, <1>9, <1>10, <1>11, <1>12, <1>13, <1>14, <1>15, <1>16, <1>17,
     <1>18, <1>19, <1>20 DEF Next, ScanStep, EscalationStep

LEMMA EscalatedInvariant == Spec => []EscalatedInv
<1>1. TypeOK /\ EscalatedInv /\ [Next]_vars => (TypeOK /\ EscalatedInv)'
  BY TypeNext, EscalatedNext
<1>2. Init => TypeOK /\ EscalatedInv
  BY TypeInit, EscalatedInit
<1>3. QED
  BY <1>1, <1>2, PTL DEF Spec

(* An alert that was handled to its end without a fault has reached every   *)
(* team with a webhook, whether or not its row could be inserted: after a   *)
(* failed insert fast_scan goes on to its posts.                            *)
THEOREM PostedHolds ==
  Spec => [](\A i \in DOMAIN alerts :
               LET a == alerts[i] IN
               a.done /\ ~a.fault =>
                 a.sent = {k \in DOMAIN TargetsOf(a) : TargetsOf(a)[k].slack})
<1> DEFINE Posted == \A i \in DOMAIN alerts :
               LET a == alerts[i] IN
               a.done /\ ~a.fault =>
                 a.sent = {k \in DOMAIN TargetsOf(a) : TargetsOf(a)[k].slack}
<1>1. EscalatedInv => Posted
  BY DEF EscalatedInv, HandledWell, EndedWell
<1>2. QED
  BY <1>1, EscalatedInvariant, PTL

(* If alert_rules has the row that alert_history refers to, an alert that   *)
(* was handled to its end without a fault reached every team with a         *)
(* webhook, and a page was scheduled if a team has a PagerDuty key.  The    *)
(* hypothesis is needed: without that row no alert is ever escalated.       *)
THEOREM EscalatedHolds == SentinelRule /\ Spec => []Escalated
<1> SUFFICES ASSUME SentinelRule PROVE Spec => []Escalated
  OBVIOUS
<1>1. EscalatedInv => Escalated
  BY DEF EscalatedInv, HandledWell, EndedWell, Escalated, CanBePaged
<1>2. QED
  BY <1>1, EscalatedInvariant, PTL
=============================================================================
