----------------------------- MODULE FastAlerts ------------------------------
(***************************************************************************)
(* The immediate alert and its escalation: fast_scan on every worker       *)
(* process, the cooldown each process keeps, known issues, alert_history,  *)
(* the delayed page and the acknowledgement that cancels it.               *)
(*                                                                         *)
(* Route gives the targets of a tenant's error group, as ResolveRouting of *)
(* AlertRouting computes them; Fallback is what is used when the rules     *)
(* cannot be read.  An alert that was started is never removed from        *)
(* alerts: by, at, live, fallback, fault and done are history, the rest is *)
(* its row of alert_history, the messages sent and the escalation message. *)
(***************************************************************************)
EXTENDS Integers, Sequences, FiniteSets

CONSTANTS
  Tenant, Sig, Proc,
  Route,            \* [Tenant -> [Sig -> Seq(Target)]]
  Fallback,         \* the targets when the rules cannot be read
  DefaultCooldown,  \* LOG_FAST_ALERT_COOLDOWN_MINUTES
  Floor,            \* _MIN_COOLDOWN_MINUTES
  Escalation,       \* minutes from the alert to the page
  SentinelRule,     \* alert_rules has the row alert_history points to
  MaxTime, MaxAlerts, MaxFaults, MaxEdits   \* bounds

Target == [slack : BOOLEAN, pagerduty : BOOLEAN, cooldown : Nat]

ASSUME AlertAssumption ==
  /\ Route \in [Tenant -> [Sig -> Seq(Target)]]
  /\ Fallback \in Seq(Target)
  /\ {DefaultCooldown, Floor, Escalation} \subseteq Nat
  /\ SentinelRule \in BOOLEAN
  /\ {MaxTime, MaxAlerts, MaxFaults, MaxEdits} \subseteq Nat

VARIABLES
  now,      \* minutes, from 1
  store,    \* _cooldown_store: when a process may fire a signature again
  jobs,     \* what each worker process does
  queue,    \* fast_scan messages
  muted,    \* known_issues: the last minute of a suppression, 0 for none
  alerts,   \* the alerts started, oldest first
  faults, edits

vars == <<now, store, jobs, queue, muted, alerts, faults, edits>>

Message == [t : Tenant, tries : 0 .. 1]
IdleJob == [pc |-> "idle"]
Job == [pc : {"idle"}]
  \cup [pc : {"group"}, msg : Message, todo : SUBSET Sig]
  \cup [pc : {"record", "send", "schedule"}, msg : Message,
        todo : SUBSET Sig, alert : Nat, left : Nat]

Alert ==
  [by : Proc, live : BOOLEAN, t : Tenant, s : Sig, at : Nat,
   fallback : BOOLEAN, row : BOOLEAN, sent : SUBSET Nat, acked : Nat,
   esc : {"none", "scheduled", "paging", "suppressed", "paged", "lost"},
   due : Nat, blind : BOOLEAN, fault : BOOLEAN, done : BOOLEAN]

(* Types; what a process handles is an alert that was started.              *)
TypeOK ==
  /\ now \in Nat \ {0}
  /\ store \in [Proc -> [Sig -> Nat]]
  /\ jobs \in [Proc -> Job]
  /\ \A p \in Proc :
       jobs[p].pc \in {"record", "send", "schedule"} => jobs[p].alert \in DOMAIN alerts
  /\ queue \subseteq Message
  /\ muted \in [Tenant -> [Sig -> Nat]]
  /\ alerts \in Seq(Alert)
  /\ faults \in Nat /\ edits \in Nat

Init ==
  /\ now = 1
  /\ store = [p \in Proc |-> [s \in Sig |-> 0]]
  /\ jobs = [p \in Proc |-> IdleJob]
  /\ queue = {}
  /\ muted = [t \in Tenant |-> [s \in Sig |-> 0]]
  /\ alerts = <<>>
  /\ faults = 0
  /\ edits = 0

-----------------------------------------------------------------------------
(* Targets and cooldowns                                                    *)

TargetsOf(a) == IF a.fallback THEN Fallback ELSE Route[a.t][a.s]

LeastCooldown(targets) ==
  IF targets = <<>> THEN DefaultCooldown
  ELSE CHOOSE m \in {targets[i].cooldown : i \in DOMAIN targets} :
         \A i \in DOMAIN targets : m <= targets[i].cooldown

Effective(minutes) == IF minutes < Floor THEN Floor ELSE minutes

OnCooldown(p, s) == now < store[p][s]

Suppressed(t, s) == muted[t][s] >= now

(* Something goes wrong in this step, and the code notices or not.          *)
Fault == faults < MaxFaults /\ faults' = faults + 1

Update(i, a) == alerts' = [alerts EXCEPT ![i] = a]

-----------------------------------------------------------------------------
(* fast_scan                                                                *)

(* The fan-out sends a message per tenant; it may die before the last.      *)
FanOut ==
  \E ts \in SUBSET Tenant \ {{}} :
    /\ Len(alerts) < MaxAlerts
    /\ queue' = queue \cup [t : ts, tries : {0}]
    /\ UNCHANGED <<now, store, jobs, muted, alerts, faults, edits>>

NextGroup(msg, todo) ==
  IF todo = {} THEN IdleJob ELSE [pc |-> "group", msg |-> msg, todo |-> todo]

(* What _extract_error_groups can find in the lines of the window.           *)
ErrorGroups == SUBSET Sig

(* A worker takes a message.  Its groups are those of the log lines that    *)
(* reach the threshold and are not on this process's cooldown.  Every       *)
(* tenant's scan reads the logs of the same host.                           *)
Scan(p) ==
  \E m \in queue, groups \in ErrorGroups :
    /\ jobs[p].pc = "idle"
    /\ queue' = queue \ {m}
    /\ jobs' = [jobs EXCEPT ![p] =
                  NextGroup(m, {s \in groups : ~OnCooldown(p, s)})]
    /\ UNCHANGED <<now, store, muted, alerts, faults, edits>>

Suppress(p) ==
  /\ jobs[p].pc = "group"
  /\ \E s \in jobs[p].todo :
       /\ Suppressed(jobs[p].msg.t, s)
       /\ jobs' = [jobs EXCEPT ![p] = NextGroup(@.msg, @.todo \ {s})]
  /\ UNCHANGED <<now, store, queue, muted, alerts, faults, edits>>

(* The group is not suppressed, or known_issues cannot be read; its targets *)
(* are resolved, and the cooldown starts before anything is known of them.  *)
Fire(p) ==
  /\ jobs[p].pc = "group"
  /\ Len(alerts) < MaxAlerts
  /\ \E s \in jobs[p].todo, unread \in BOOLEAN, fallback \in BOOLEAN :
       LET t == jobs[p].msg.t
           targets == IF fallback THEN Fallback ELSE Route[t][s]
           rest == jobs[p].todo \ {s}
       IN
       /\ ~Suppressed(t, s) \/ unread
       /\ IF unread \/ fallback THEN Fault ELSE UNCHANGED faults
       /\ store' = [store EXCEPT ![p][s] = now + Effective(LeastCooldown(targets))]
       /\ alerts' = Append(alerts,
            [by |-> p, live |-> TRUE, t |-> t, s |-> s, at |-> now,
             fallback |-> fallback, row |-> FALSE, sent |-> {}, acked |-> 0,
             esc |-> "none", due |-> 0, blind |-> FALSE,
             fault |-> unread \/ fallback, done |-> FALSE])
       /\ jobs' = [jobs EXCEPT ![p] =
            IF targets = <<>> THEN NextGroup(@.msg, rest)
            ELSE [pc |-> "record", msg |-> @.msg, todo |-> rest,
                  alert |-> Len(alerts) + 1, left |-> 1]]
  /\ UNCHANGED <<now, queue, muted, edits>>

(* The row of alert_history; without it the alert is sent all the same.     *)
Record(p) ==
  /\ jobs[p].pc = "record"
  /\ \E fault \in BOOLEAN :
       LET i == jobs[p].alert IN
       /\ IF fault THEN Fault ELSE UNCHANGED faults
       /\ Update(i, [alerts[i] EXCEPT !.row = SentinelRule /\ ~fault,
                                      !.fault = @ \/ fault])
       /\ jobs' = [jobs EXCEPT ![p].pc = "send"]
  /\ UNCHANGED <<now, store, queue, muted, edits>>

(* One turn of the loop over the targets.  send_webhook never raises.       *)
Send(p) ==
  LET job == jobs[p]  a == alerts[job.alert] IN
  /\ job.pc = "send"
  /\ Update(job.alert,
       IF TargetsOf(a)[job.left].slack
       THEN [a EXCEPT !.sent = @ \cup {job.left}] ELSE a)
  /\ jobs' = [jobs EXCEPT ![p].pc =
                            IF job.left = Len(TargetsOf(a)) THEN "schedule" ELSE @,
                          ![p].left = @ + 1]
  /\ UNCHANGED <<now, store, queue, muted, faults, edits>>

(* Mutant: a page is scheduled only if every target has a key.              *)
MutCanBePaged(a) ==
  \A i \in DOMAIN TargetsOf(a) : TargetsOf(a)[i].pagerduty

CanBePaged(a) ==
  \E i \in DOMAIN TargetsOf(a) : TargetsOf(a)[i].pagerduty

(* The page is scheduled if there is a row to acknowledge; a broker that    *)
(* does not take the message is only logged.                                *)
Schedule(p) ==
  /\ jobs[p].pc = "schedule"
  /\ \E fault \in BOOLEAN :
       LET i == jobs[p].alert
           a == alerts[i]
           scheduled == a.row /\ CanBePaged(a) /\ ~fault
       IN
       /\ IF fault THEN Fault ELSE UNCHANGED faults
       /\ Update(i, [a EXCEPT !.esc = IF scheduled THEN "scheduled" ELSE @,
                              !.due = IF scheduled THEN now + Escalation ELSE @,
                              !.fault = @ \/ fault,
                              !.done = TRUE])
       /\ jobs' = [jobs EXCEPT ![p] = NextGroup(@.msg, @.todo)]
  /\ UNCHANGED <<now, store, queue, muted, edits>>

Again(msg) ==
  IF msg.tries = 0 THEN {[msg EXCEPT !.tries = 1]} ELSE {}

(* Mutant: a failed scan forgets its cooldowns, so that the retry can fire. *)
MutFailScan(p) ==
  /\ jobs[p].pc # "idle"
  /\ Fault
  /\ queue' = queue \cup Again(jobs[p].msg)
  /\ jobs' = [jobs EXCEPT ![p] = IdleJob]
  /\ store' = [store EXCEPT ![p] = [s \in Sig |-> 0]]
  /\ UNCHANGED <<now, muted, alerts, edits>>

(* An exception or the soft time limit: one retry, with the cooldowns of    *)
(* the first try still in the store.                                        *)
FailScan(p) ==
  /\ jobs[p].pc # "idle"
  /\ Fault
  /\ queue' = queue \cup Again(jobs[p].msg)
  /\ jobs' = [jobs EXCEPT ![p] = IdleJob]
  /\ UNCHANGED <<now, store, muted, alerts, edits>>

(* The process dies with its store.  The message was not acknowledged: it   *)
(* comes back, unless only the pool child was killed.                       *)
Crash(p) ==
  /\ Fault
  /\ store' = [store EXCEPT ![p] = [s \in Sig |-> 0]]
  /\ jobs' = [jobs EXCEPT ![p] = IdleJob]
  /\ \/ jobs[p].pc # "idle" /\ queue' = queue \cup {jobs[p].msg}
     \/ UNCHANGED queue
  /\ alerts' = [i \in DOMAIN alerts |->
       IF alerts[i].by = p THEN [alerts[i] EXCEPT !.live = FALSE] ELSE alerts[i]]
  /\ UNCHANGED <<now, muted, edits>>

-----------------------------------------------------------------------------
(* escalate_to_pagerduty, the acknowledgement, known issues and the clock   *)

(* Mutant: the page does not wait for the countdown.                        *)
MutDue(i) == TRUE

Due(i) == alerts[i].due <= now

(* Mutant: an acknowledged alert is neither paged nor settled.              *)
MutCheckAck(i) ==
  /\ alerts[i].esc = "scheduled"
  /\ Due(i)
  /\ alerts[i].acked = 0
  /\ Update(i, [alerts[i] EXCEPT !.esc = "paging"])
  /\ UNCHANGED <<now, store, jobs, queue, muted, faults, edits>>

(* The check of the row; when it cannot be read, the page goes out.         *)
CheckAck(i) ==
  /\ alerts[i].esc = "scheduled"
  /\ Due(i)
  /\ \E unread \in BOOLEAN :
       /\ IF unread THEN Fault ELSE UNCHANGED faults
       /\ Update(i, [alerts[i] EXCEPT
            !.esc = IF alerts[i].acked # 0 /\ ~unread THEN "suppressed" ELSE "paging",
            !.blind = @ \/ unread])
  /\ UNCHANGED <<now, store, jobs, queue, muted, edits>>

(* PagerDuty is asked for each target; a refusal is logged and swallowed,   *)
(* so the task's own retry is never used.                                   *)
Page(i) ==
  /\ alerts[i].esc = "paging"
  /\ \/ Update(i, [alerts[i] EXCEPT !.esc = "paged"]) /\ UNCHANGED faults
     \/ Fault /\ Update(i, [alerts[i] EXCEPT !.esc = "lost"])
  /\ UNCHANGED <<now, store, jobs, queue, muted, edits>>

(* The worker dies between check and page; the message is delivered again.  *)
PageAgain(i) ==
  /\ alerts[i].esc = "paging"
  /\ Fault
  /\ Update(i, [alerts[i] EXCEPT !.esc = "scheduled"])
  /\ UNCHANGED <<now, store, jobs, queue, muted, edits>>

Acknowledge(i) ==
  /\ alerts[i].row
  /\ alerts[i].acked = 0
  /\ Update(i, [alerts[i] EXCEPT !.acked = now])
  /\ UNCHANGED <<now, store, jobs, queue, muted, faults, edits>>

(* A known issue is created, snoozed until a minute, re-armed or deleted.   *)
EditIssue(t, s) ==
  /\ edits < MaxEdits
  /\ edits' = edits + 1
  /\ \E until \in {0, now, MaxTime + 1} : muted' = [muted EXCEPT ![t][s] = until]
  /\ UNCHANGED <<now, store, jobs, queue, alerts, faults>>

Tick ==
  /\ now < MaxTime
  /\ now' = now + 1
  /\ UNCHANGED <<store, jobs, queue, muted, alerts, faults, edits>>

-----------------------------------------------------------------------------
ScanStep(p) ==
  \/ Scan(p) \/ Suppress(p) \/ Fire(p) \/ Record(p)
  \/ Send(p) \/ Schedule(p) \/ FailScan(p) \/ Crash(p)

EscalationStep(i) == CheckAck(i) \/ Page(i) \/ PageAgain(i)

Next ==
  \/ FanOut
  \/ \E p \in Proc : ScanStep(p)
  \/ \E i \in DOMAIN alerts : EscalationStep(i) \/ Acknowledge(i)
  \/ \E t \in Tenant, s \in Sig : EditIssue(t, s)
  \/ Tick

Spec == Init /\ [][Next]_vars

(* Time passes, a due message is taken, and a started task ends; MaxFaults   *)
(* says that workers do not die for ever.                                   *)
Fairness ==
  /\ WF_vars(Tick)
  /\ \A i \in 1 .. MaxAlerts :
       /\ WF_vars(i \in DOMAIN alerts /\ CheckAck(i))
       /\ WF_vars(i \in DOMAIN alerts /\ Page(i))

FairSpec == Spec /\ Fairness

-----------------------------------------------------------------------------
(* A process that lives on fires one signature at intervals of at least the *)
(* minimum cooldown, whatever its scans' retries, tenants and rules are:    *)
(* "hard floor - prevents 0-minute storms".                                 *)
CooldownHeld ==
  \A i, j \in DOMAIN alerts :
    /\ i < j
    /\ alerts[i].live /\ alerts[j].live
    /\ alerts[i].by = alerts[j].by /\ alerts[i].s = alerts[j].s
    => alerts[i].at + Floor <= alerts[j].at

(* An engineer who acknowledges before the window has passed is not paged,  *)
(* unless the acknowledgement could not be read: "if the escalation         *)
(* countdown hasn't elapsed yet, PagerDuty will NOT be paged".              *)
AckStopsPage ==
  \A i \in DOMAIN alerts :
    LET a == alerts[i] IN
    a.acked # 0 /\ a.acked < a.due /\ ~a.blind => a.esc \notin {"paging", "paged", "lost"}

(* An alert that was handled to its end without a fault has reached every   *)
(* team with a webhook, and if a team has a PagerDuty key, a page was       *)
(* scheduled: "When fast_scan fires a Slack alert it also schedules".       *)
Escalated ==
  \A i \in DOMAIN alerts :
    LET a == alerts[i] IN
    a.done /\ ~a.fault =>
      /\ a.sent = {k \in DOMAIN TargetsOf(a) : TargetsOf(a)[k].slack}
      /\ (\E k \in DOMAIN TargetsOf(a) : TargetsOf(a)[k].pagerduty)
           => a.esc # "none"

(* Every scheduled escalation ends as suppressed, paged, or lost to a       *)
(* PagerDuty that refused it, dead workers notwithstanding.                 *)
EscalationSettles ==
  \A i \in 1 .. MaxAlerts :
    (i \in DOMAIN alerts /\ alerts[i].esc = "scheduled" /\ alerts[i].due <= MaxTime)
      ~> (i \in DOMAIN alerts /\ alerts[i].esc \in {"suppressed", "paged", "lost"})
=============================================================================
