----------------------------- MODULE AgentGraph -----------------------------
(***************************************************************************)
(* One pass of a question through the agent graph: the supervisor picks    *)
(* agents or refuses, the dispatcher runs them at once (research is the    *)
(* planner: draft, audit, at most one more round), the synthesizer combines*)
(* their texts, audits the result and guards the output.                   *)
(*                                                                         *)
(* Texts are told apart by what the code tests: bare is an empty text or   *)
(* the bracketed error of _llm_text, every other one is words.  What the   *)
(* LLM, the retriever and the validators return is any of it.  refused and *)
(* unsound are history.                                                    *)
(***************************************************************************)
EXTENDS Naturals, FiniteSets

CONSTANTS
  Question,
  Agent,         \* _AGENT_NODES, with "research"
  MaxRounds      \* MAX_ITER

ASSUME GraphAssumption ==
  "research" \in Agent /\ IsFiniteSet(Agent) /\ MaxRounds \in Nat \ {0}

VARIABLE turns   \* the graph run of each question

Text == {"words", "bare", "refusal"}
Output == [text : Text, caveat : BOOLEAN, unsound : BOOLEAN]
NoOutput == [text |-> "none", caveat |-> FALSE, unsound |-> FALSE]

Plain(text) == [NoOutput EXCEPT !.text = text]

Verdict == {"none", "passed", "advisory", "unsound"}
Planner ==
  [round : 1 .. MaxRounds, draft : Output \cup {NoOutput}, verdict : Verdict]
NewPlanner == [round |-> 1, draft |-> NoOutput, verdict |-> "none"]

Ended == {[pc |-> "unasked"], [pc |-> "answered"], [pc |-> "failed"]}
Turn ==
  Ended \cup
  [pc : {"supervise", "dispatch", "agents", "audit", "save"}, refused : BOOLEAN,
   todo : SUBSET Agent, plan : Planner, outs : [Agent -> Output \cup {NoOutput}],
   answer : Output \cup {NoOutput}]

NewTurn ==
  [pc |-> "supervise", refused |-> FALSE, todo |-> {}, plan |-> NewPlanner,
   outs |-> [a \in Agent |-> NoOutput], answer |-> NoOutput]

GraphInit == turns = [q \in Question |-> [pc |-> "unasked"]]

-----------------------------------------------------------------------------
(* supervisor_node: the input guardrail or the LLM refuses, or the LLM (or  *)
(* the default) names agents.                                               *)
Supervise(q) ==
  /\ turns[q].pc = "supervise"
  /\ \/ turns' = [turns EXCEPT
          ![q].pc = "dispatch", ![q].refused = TRUE, ![q].answer = Plain("refusal")]
     \/ \E chosen \in SUBSET Agent \ {{}} :
          turns' = [turns EXCEPT ![q].pc = "dispatch", ![q].todo = chosen]

(* dispatcher_node: no agents means research, refused or not.               *)
Dispatch(q) ==
  /\ turns[q].pc = "dispatch"
  /\ turns' = [turns EXCEPT
       ![q].pc = "agents", ![q].todo = IF @ = {} THEN {"research"} ELSE @]

Finish(q, a, output) ==
  [turns EXCEPT
     ![q].todo = @ \ {a},
     ![q].outs[a] = output,
     ![q].plan = IF a = "research" THEN NewPlanner ELSE @]

(* The planner's plan, retrieve and generate nodes.                         *)
Draft(q) ==
  /\ turns[q].pc = "agents"
  /\ "research" \in turns[q].todo
  /\ turns[q].plan.draft = NoOutput
  /\ \E text \in {"words", "bare"} :
       turns' = [turns EXCEPT ![q].plan.draft = Plain(text)]

Drafted(q) ==
  turns[q].pc = "agents" /\ "research" \in turns[q].todo /\ turns[q].plan.draft # NoOutput

(* Mutant: the disclaimer is taken from the validation of the round before. *)
MutValidate(q) ==
  /\ Drafted(q)
  /\ LET plan == turns[q].plan IN
     \E result \in Verdict, missing \in BOOLEAN :
       LET verdict == IF result = "none" THEN plan.verdict ELSE result
           again   == verdict \in {"advisory", "unsound"} /\ missing
                        /\ plan.round < MaxRounds
       IN  turns' =
             IF again
             THEN [turns EXCEPT
                     ![q].plan = [NewPlanner EXCEPT
                                    !.round = plan.round + 1, !.verdict = verdict]]
             ELSE Finish(q, "research",
                    [plan.draft EXCEPT
                       !.caveat = plan.verdict = "unsound",
                       !.unsound = result = "unsound"])

(* Mutant: another round for as long as the gatekeeper misses something.    *)
MutNoLimit(q) ==
  /\ Drafted(q)
  /\ LET plan == turns[q].plan IN
     \E result \in Verdict, missing \in BOOLEAN :
       LET verdict == IF result = "none" THEN plan.verdict ELSE result
       IN  turns' =
             IF verdict \in {"advisory", "unsound"} /\ missing
             THEN [turns EXCEPT ![q].plan = [NewPlanner EXCEPT !.verdict = verdict]]
             ELSE Finish(q, "research",
                    [plan.draft EXCEPT
                       !.caveat = verdict = "unsound",
                       !.unsound = result = "unsound"])

(* The planner's validate node and the loop around it.  result is "none"    *)
(* when the validation raised: the verdict of the round before then stays.  *)
Validate(q) ==
  /\ Drafted(q)
  /\ LET plan == turns[q].plan IN
     \E result \in Verdict, missing \in BOOLEAN :
       LET verdict == IF result = "none" THEN plan.verdict ELSE result
           again   == verdict \in {"advisory", "unsound"} /\ missing
                        /\ plan.round < MaxRounds
       IN  turns' =
             IF again
             THEN [turns EXCEPT
                     ![q].plan = [NewPlanner EXCEPT
                                    !.round = plan.round + 1, !.verdict = verdict]]
             ELSE Finish(q, "research",
                    [plan.draft EXCEPT
                       !.caveat = verdict = "unsound",
                       !.unsound = result = "unsound"])

(* research_node turns an error of the planner into a text.                 *)
ResearchFails(q) ==
  /\ turns[q].pc = "agents"
  /\ "research" \in turns[q].todo
  /\ turns' = Finish(q, "research", Plain("words"))

(* insight_node, alert_node, incident_node; one that raises leaves nothing. *)
AgentEnds(q, a) ==
  /\ turns[q].pc = "agents"
  /\ a \in turns[q].todo \ {"research"}
  /\ \E output \in {NoOutput} \cup {Plain(t) : t \in {"words", "bare"}} :
       turns' = Finish(q, a, output)

(* synthesizer_node up to the audit: a lone output is the answer, several   *)
(* go through the LLM, none leaves the supervisor's answer or a notice.     *)
Combine(q) ==
  LET outs  == turns[q].outs
      given == {a \in Agent : outs[a] # NoOutput}
  IN  /\ turns[q].pc = "agents"
      /\ turns[q].todo = {}
      /\ \/ /\ given = {}
            /\ turns' = [turns EXCEPT
                 ![q].pc = "save",
                 ![q].answer = IF @ = NoOutput THEN Plain("words") ELSE @]
         \/ /\ Cardinality(given) = 1
            /\ turns' = [turns EXCEPT
                 ![q].pc = "audit",
                 ![q].answer = outs[CHOOSE a \in given : TRUE],
                 ![q].outs = [a \in Agent |-> NoOutput]]
         \/ /\ Cardinality(given) > 1
            /\ \E text \in {"words", "bare"} :
                 turns' = [turns EXCEPT
                   ![q].pc = "audit",
                   ![q].answer = Plain(text),
                   ![q].outs = [a \in Agent |-> NoOutput]]

(* The audit of the answer, which may raise, and the output guardrail: a    *)
(* bare text is replaced, unless the caveat is in front of it.              *)
Audit(q) ==
  /\ turns[q].pc = "audit"
  /\ \E unsound \in BOOLEAN :
       LET answer == turns[q].answer
           warned == [answer EXCEPT
                        !.caveat = @ \/ unsound, !.unsound = @ \/ unsound]
       IN  turns' = [turns EXCEPT
             ![q].pc = "save",
             ![q].answer =
               IF answer.text = "bare" /\ ~warned.caveat THEN Plain("words") ELSE warned]

GraphStep(q) ==
  \/ Supervise(q) \/ Dispatch(q)
  \/ Draft(q) \/ Validate(q) \/ ResearchFails(q)
  \/ \E a \in Agent : AgentEnds(q, a)
  \/ Combine(q) \/ Audit(q)

-----------------------------------------------------------------------------
(* An answer whose text failed an audit, the planner's or the last one,     *)
(* reaches the stream with the caveat.                                      *)
Warned ==
  \A q \in Question :
    turns[q].pc = "save" /\ turns[q].answer.unsound => turns[q].answer.caveat

(* As the comments of dispatcher_node and synthesizer_node say, a question  *)
(* that the supervisor refused is passed through with the refusal.          *)
RefusalStands ==
  \A q \in Question :
    turns[q].pc = "save" /\ turns[q].refused => turns[q].answer.text = "refusal"
=============================================================================
