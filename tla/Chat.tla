-------------------------------- MODULE Chat --------------------------------
(***************************************************************************)
(* A chat session: query_session stores the question, streams the agent    *)
(* graph's answer and stores the answer with its usage event.  Questions   *)
(* run at once, clients disconnect, saves fail, and the session may be     *)
(* deleted while an answer is on its way.  Of billing_subscriptions only   *)
(* the pending counter is kept.                                            *)
(***************************************************************************)
EXTENDS AgentGraph, Sequences, SequencesExt

VARIABLES
  log,    \* chat_messages of the session, oldest first
  open,   \* the chat_sessions row exists
  usage,  \* rag_query rows of usage_events
  sub     \* the billing_subscriptions row: does it exist, pending_rag_queries

billingVars == <<usage, sub>>
chatVars == <<turns, log, open, billingVars>>

ChatMessage == [role : {"user", "assistant"}, question : Question]

ChatInit ==
  /\ GraphInit
  /\ log = <<>>
  /\ open = TRUE
  /\ usage = 0
  /\ sub = [exists |-> FALSE, pending |-> 0]

(* The question and the title are committed before anything is asked.       *)
SubmitQuery(q) ==
  /\ open
  /\ turns[q] = [pc |-> "unasked"]
  /\ log' = Append(log, [role |-> "user", question |-> q])
  /\ turns' = [turns EXCEPT ![q] = NewTurn]
  /\ UNCHANGED <<open, billingVars>>

(* record_usage: the event, and the counter if there is a row to update.    *)
RecordUsage ==
  /\ usage' = usage + 1
  /\ sub' = IF sub.exists THEN [sub EXCEPT !.pending = @ + 1] ELSE sub

Saved(q) ==
  /\ open
  /\ log' = Append(log, [role |-> "assistant", question |-> q])
  /\ RecordUsage
  /\ turns' = [turns EXCEPT ![q] = [pc |-> "answered"]]

(* Mutant: the usage event is written outside the answer's transaction.     *)
MutSave(q) ==
  /\ turns[q].pc = "save"
  /\ \/ Saved(q)
     \/ /\ turns' = [turns EXCEPT ![q] = [pc |-> "failed"]]
        /\ RecordUsage
        /\ UNCHANGED log
  /\ UNCHANGED open

(* Message and usage event in one transaction, which fails for a deleted    *)
(* session and may fail for another reason.                                 *)
Save(q) ==
  /\ turns[q].pc = "save"
  /\ \/ Saved(q)
     \/ /\ turns' = [turns EXCEPT ![q] = [pc |-> "failed"]]
        /\ UNCHANGED <<log, billingVars>>
  /\ UNCHANGED open

(* The client disconnects, or the graph raises and an error event is sent.  *)
GiveUp(q) ==
  /\ turns[q] \notin Ended
  /\ turns' = [turns EXCEPT ![q] = [pc |-> "failed"]]
  /\ UNCHANGED <<log, open, billingVars>>

(* The first look at the usage or the plan creates the subscription row; of *)
(* two at once one fails on its unique key.                                 *)
OpenSubscription ==
  /\ ~sub.exists
  /\ sub' = [sub EXCEPT !.exists = TRUE]
  /\ UNCHANGED <<turns, log, open, usage>>

DeleteSession ==
  /\ open
  /\ open' = FALSE
  /\ log' = <<>>
  /\ UNCHANGED <<turns, billingVars>>

TurnStep(q) == (GraphStep(q) /\ UNCHANGED <<log, open, billingVars>>) \/ Save(q)

ChatNext ==
  \/ \E q \in Question : SubmitQuery(q) \/ TurnStep(q) \/ GiveUp(q)
  \/ DeleteSession
  \/ OpenSubscription

ChatSpec == ChatInit /\ [][ChatNext]_chatVars

(* Every LLM call and query ends: the clients they are made with have       *)
(* timeouts.                                                                *)
ChatFairSpec == ChatSpec /\ \A q \in Question : WF_chatVars(TurnStep(q))

-----------------------------------------------------------------------------
(* Properties                                                               *)

Session == INSTANCE Answering WITH
  asked    <- {m.question : m \in {n \in ToSet(log) : n.role = "user"}},
  answered <- {m.question : m \in {n \in ToSet(log) : n.role = "assistant"}},
  billed   <- usage,
  metered  <- sub.exists,
  due      <- sub.pending,
  closed   <- ~open

(* The session keeps its promise: one answer per question, after it, billed *)
(* exactly once, and nothing in a deleted session.                          *)
AnsweringImplemented == Session!AnsweringSpec

(* A question that was submitted is answered or given up, however often the *)
(* gatekeeper asks for more.                                                *)
TurnEnds ==
  \A q \in Question : turns[q] \notin Ended ~> turns[q].pc \in {"answered", "failed"}
=============================================================================
