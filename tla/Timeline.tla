------------------------------ MODULE Timeline -------------------------------
(***************************************************************************)
(* The delivery risk timeline: webhooks of GitHub and Jira, the error      *)
(* spikes of fast_scan and what admins enter by hand.  A request looks for *)
(* a row with its source id and inserts one in another statement; requests *)
(* overlap, fail, and come twice or in another order than things happened. *)
(*                                                                         *)
(* One tenant, as every payload is given the same one.  Of a thing (a pull *)
(* request, a branch, a workflow run, an issue, an error signature) only   *)
(* the succession of what happens to it is kept; titles, severities and    *)
(* links are left out.  of, seen, lost and delivered are history.          *)
(***************************************************************************)
EXTENDS Naturals, Sequences, FiniteSets, SequencesExt

CONSTANTS
  Thing,
  Request,                                  \* concurrent requests or scans
  Window,                                   \* twice window_minutes, in ticks
  MaxEvents, MaxRepeats, MaxFailures, MaxTicks    \* bounds

ASSUME TimelineAssumption ==
  {Window, MaxEvents, MaxRepeats, MaxFailures, MaxTicks} \subseteq Nat

VARIABLES
  clock,
  events,     \* what happened, in order
  delivered,  \* how often each event was sent
  pending,    \* the deliveries under way, by event
  requests,
  timeline,   \* timeline_events, in the order of their insertion
  lost        \* events whose delivery failed for good

timelineVars == <<clock, events, delivered, pending, requests, timeline, lost>>

Event ==
  [kind : {"pr", "push", "run", "issue", "spike", "manual"}, thing : Thing,
   action : STRING, at : Nat]

IdleRequest == [pc |-> "idle"]

TimelineInit ==
  /\ clock = 1
  /\ events = <<>> /\ delivered = <<>>
  /\ pending = {}
  /\ requests = [r \in Request |-> IdleRequest]
  /\ timeline = <<>>
  /\ lost = {}

Pass ==
  /\ clock < MaxTicks
  /\ clock' = clock + 1
  /\ UNCHANGED <<events, delivered, pending, requests, timeline, lost>>

-----------------------------------------------------------------------------
(* What happens outside.                                                    *)

LastAction(kind, thing) ==
  LET of == {n \in DOMAIN events : events[n].kind = kind /\ events[n].thing = thing}
  IN  IF of = {} THEN "none" ELSE events[Max(of)].action

(* A pull request that was closed may be opened again, and a workflow run   *)
(* started again under its id.                                              *)
MayFollow(kind, last) ==
  CASE kind = "pr"    -> CASE last = "none"   -> {"opened"}
                           [] last = "closed" -> {"reopened"}
                           [] last = "merged" -> {"labeled"}
                           [] OTHER           -> {"synchronize", "closed", "merged", "labeled"}
    [] kind = "run"   -> IF last = "requested" THEN {"completed"} ELSE {"requested"}
    [] kind = "issue" -> IF last = "none" THEN {"created"} ELSE {"status", "comment"}
    [] OTHER          -> {"seen"}

Happen ==
  \E kind \in {"pr", "push", "run", "issue", "spike"}, thing \in Thing :
    \E action \in MayFollow(kind, LastAction(kind, thing)) :
      /\ Len(events) < MaxEvents
      /\ events' = Append(events,
           [kind |-> kind, thing |-> thing, action |-> action, at |-> clock])
      /\ delivered' = Append(delivered, 1)
      /\ pending' = pending \cup {Len(events) + 1}
      /\ UNCHANGED <<clock, requests, timeline, lost>>

-----------------------------------------------------------------------------
(* Handling                                                                 *)

(* Mutant: the id of a pull request's event leaves the action out.          *)
MutGithubId(n) ==
  LET e == events[n]
  IN  CASE e.kind = "pr"   -> <<"gh:pr", e.thing>>
        [] e.kind = "push" -> <<"gh:push", n>>
        [] e.kind = "run"  -> <<"gh:workflow_run", e.thing, e.action>>

(* A push is known by its delivery, which keeps its id when it is repeated; *)
(* a pull request and a run by their action, where merging is a way to      *)
(* close.                                                                   *)
GithubId(n) ==
  LET e == events[n]
  IN  CASE e.kind = "pr"   -> <<"gh:pr", e.thing,
                                IF e.action = "merged" THEN "closed" ELSE e.action>>
        [] e.kind = "push" -> <<"gh:push", n>>
        [] e.kind = "run"  -> <<"gh:workflow_run", e.thing, e.action>>

(* An item of Jira's changelog has no id, so that every delivery of a       *)
(* change of status gets one of its own.                                    *)
JiraId(n) ==
  IF events[n].action = "created" THEN <<"jira", events[n].thing, "created">>
  ELSE <<"jira", events[n].thing, n, delivered[n]>>

(* What _parse_github_event and jira_webhook pass over.                     *)
Ignored(e) == e.action \in {"labeled", "comment"}

Repeats == SumFunction(delivered) - Len(delivered)

(* A webhook may be delivered again, while this delivery is handled or      *)
(* later.                                                                   *)
Deliver(n) ==
  \/ pending' = pending \ {n} /\ UNCHANGED delivered
  \/ /\ Repeats < MaxRepeats
     /\ delivered' = [delivered EXCEPT ![n] = @ + 1]
     /\ UNCHANGED pending

ToInsert(n, id) ==
  [pc |-> "insert", of |-> n, id |-> id, at |-> clock, seen |-> Len(timeline)]

(* A webhook's request up to its look-up: a row with this id is a           *)
(* duplicate.                                                               *)
LookUp(r, n, id) ==
  /\ requests[r].pc = "idle"
  /\ Deliver(n)
  /\ requests' = IF Ignored(events[n]) \/ \E k \in DOMAIN timeline : timeline[k].id = id
                 THEN requests ELSE [requests EXCEPT ![r] = ToInsert(n, id)]
  /\ UNCHANGED <<clock, events, timeline, lost>>

GithubWebhook(r, n) ==
  events[n].kind \in {"pr", "push", "run"} /\ LookUp(r, n, GithubId(n))

JiraWebhook(r, n) == events[n].kind = "issue" /\ LookUp(r, n, JiraId(n))

(* The same in _write_timeline_event_async, which asks for recent rows only *)
(* and is not sent again.                                                   *)
WriteSpike(r, n) ==
  LET id == <<"log_anomaly", events[n].thing>> IN
  /\ events[n].kind = "spike"
  /\ requests[r].pc = "idle"
  /\ pending' = pending \ {n}
  /\ requests' =
       IF \E k \in DOMAIN timeline :
            timeline[k].id = id /\ timeline[k].at + Window >= clock
       THEN requests ELSE [requests EXCEPT ![r] = ToInsert(n, id)]
  /\ UNCHANGED <<clock, events, delivered, timeline, lost>>

(* The end of each of the three: add and commit.                            *)
InsertEvent(r) ==
  LET q == requests[r] IN
  /\ q.pc = "insert"
  /\ timeline' = Append(timeline,
       [id |-> q.id, of |-> q.of, seen |-> q.seen, deleted |-> FALSE, at |-> q.at])
  /\ requests' = [requests EXCEPT ![r] = IdleRequest]
  /\ UNCHANGED <<clock, events, delivered, pending, lost>>

(* The insert fails; a scan logs it, and GitHub does not send again.        *)
FailEvent(r) ==
  /\ requests[r].pc = "insert"
  /\ Cardinality(lost) < MaxFailures
  /\ lost' = lost \cup {requests[r].of}
  /\ requests' = [requests EXCEPT ![r] = IdleRequest]
  /\ UNCHANGED <<clock, events, delivered, pending, timeline>>

(* create_manual_event *)
CreateManualEvent ==
  /\ Len(events) < MaxEvents
  /\ \E thing \in Thing :
       events' = Append(events,
         [kind |-> "manual", thing |-> thing, action |-> "seen", at |-> clock])
  /\ delivered' = Append(delivered, 1)
  /\ timeline' = Append(timeline,
       [id |-> <<>>, of |-> Len(events) + 1, seen |-> Len(timeline),
        deleted |-> FALSE, at |-> 0])
  /\ UNCHANGED <<clock, pending, requests, lost>>

(* delete_timeline_event refuses all but manual events.                     *)
DeleteEvent(k) ==
  /\ ~timeline[k].deleted
  /\ events[timeline[k].of].kind = "manual"
  /\ timeline' = [timeline EXCEPT ![k].deleted = TRUE]
  /\ UNCHANGED <<clock, events, delivered, pending, requests, lost>>

TimelineStep ==
  \/ Pass \/ Happen \/ CreateManualEvent
  \/ \E r \in Request :
       \/ \E n \in pending :
            GithubWebhook(r, n) \/ JiraWebhook(r, n) \/ WriteSpike(r, n)
       \/ InsertEvent(r) \/ FailEvent(r)
  \/ \E k \in DOMAIN timeline : DeleteEvent(k)

-----------------------------------------------------------------------------
Settled(n) == n \notin pending /\ \A r \in Request :
                                     requests[r].pc = "idle" \/ requests[r].of # n

Rows(n) == {k \in DOMAIN timeline : timeline[k].of = n}

(* Closing and merging are one action: a pull request that was closed,      *)
(* opened again and merged keeps only the former.                           *)
SameAction(e, f) ==
  /\ e.kind = f.kind /\ e.thing = f.thing /\ e.kind \in {"pr", "run", "spike"}
  /\ e.action = f.action \/ {e.action, f.action} = {"closed", "merged"}

(* What was delivered and is meant for the timeline is there, unless its    *)
(* insert failed or the same was done to the same thing before; for a spike *)
(* only if that is recent.                                                  *)
NothingMissing ==
  \A n \in DOMAIN events :
    Settled(n) /\ ~Ignored(events[n]) =>
      \/ Rows(n) # {} \/ n \in lost
      \/ \E k \in DOMAIN timeline :
           /\ SameAction(events[n], events[timeline[k].of])
           /\ events[n].kind = "spike" => timeline[k].at + Window >= events[n].at

(* And it is there once, unless two deliveries overlapped or it is a change *)
(* of an issue, which nothing recognises.                                   *)
NothingTwice ==
  \A n \in DOMAIN events : \A j, k \in Rows(n) :
    j < k => \/ timeline[k].seen < j
             \/ events[n].kind = "issue" /\ events[n].action # "created"

TimelineExplained == NothingMissing /\ NothingTwice
=============================================================================
