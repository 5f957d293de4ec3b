----------------------------- MODULE AgentPipeline -----------------------------
(***************************************************************************)
(* One decision of an agentic experiment: the stages that ask a language   *)
(* model, the repairs and fallbacks of each stage, the gate that may turn  *)
(* the advice into HOLD, and the risk check that makes an order of it.     *)
(*                                                                         *)
(* The multi-agent pipeline has its analysts (technical, fundamental,      *)
(* sentiment, treated alike), the risk manager and the portfolio manager;  *)
(* the single agent has one stage and one repair.  One action is one call  *)
(* of the model with what the stage makes of its answer.                   *)
(*                                                                         *)
(* AgentDecisionPipeline       modules/agents/pipeline_agent.py            *)
(* SingleAgent                 modules/agents/single_agent.py              *)
(* AgentDecisionGate           modules/agents/decision_gate.py             *)
(* PaperTradingStepRunner      modules/execution/paper_step_runner.py      *)
(***************************************************************************)
EXTENDS RiskSizing

CONSTANTS
    NumAnalysts,    \* stages before the risk manager; 3 in the code
    NoThreshold,    \* the experiment has no confidence_threshold
    Thresholds,     \* confidence thresholds, in units of 1/Scale
    Confidences,    \* confidences an answer may state, in units of 1/Scale
    Books,          \* portfolio rows the step may read
    Prices          \* closing prices of the bar

ASSUME AgentAssumption ==
    /\ NumAnalysts \in Nat
    /\ NoThreshold \notin Int
    /\ Thresholds \subseteq 0..Scale
    /\ Confidences \subseteq 0..Scale
    /\ Books \subseteq [cash : Int, position : Nat, price : Int, value : Int]
    /\ Prices \subseteq Nat \ {0}

AgentMode == {"SINGLE_AGENT", "PIPELINE"}

RiskLevel == {"LOW", "MEDIUM", "HIGH"}
NoLevel == "NONE"               \* the single agent has no risk stage

\* A decision that parses: the range checks of the parser have passed.
ParsedAgentOutput ==
    [action : TradeAction, target : 0..Scale, confidence : Confidences \cup {0},
     newInformation : BOOLEAN]

FallbackDecision ==
    [action |-> "HOLD", target |-> 0, confidence |-> 0, newInformation |-> FALSE]

ParsingStatus == {"SUCCESS", "REPAIRED", "FAILED"}

FallbackReason ==
    {"PROVIDER_COMPLETE_EXCEPTION", "PROVIDER_REPAIR_EXCEPTION",
     "REPAIR_UNAVAILABLE", "REPAIR_PARSE_FAILED"}

NotRun == [status |-> "NONE", reason |-> "NONE"]

StageLog == {NotRun} \cup [status : ParsingStatus, reason : FallbackReason \cup {"NONE"}]

\* What the model did last in a stage: gave a text that parses, one that does
\* not, no text at all (the call raised), or had no repair to offer.
Answer == {"none", "valid", "malformed", "raised", "unavailable"}

VARIABLES
    mode,           \* strategy_config.agent_mode
    portfolio,      \* the portfolio row read at the start of the step
    price,          \* bar.adjusted_close
    threshold,      \* strategy_config.confidence_threshold
    pc,             \* where the decision is
    stage,          \* number of the stage
    repairs,        \* repair calls of the stage so far
    told,           \* per stage: malformed answers so far, and the last answer (history)
    log,            \* agent_decision_logs: parsing_status and fallbackReason per stage
    risk,           \* risk_assessment.risk_level
    proposed,       \* what the deciding stage proposes
    decision,       \* trading_decisions: the advice after the gate
    order           \* risk_checks: final_action and final_quantity

context == <<mode, portfolio, price, threshold>>
stageVars == <<stage, repairs, told, log, risk, proposed>>
vars == <<context, pc, stageVars, decision, order>>

-----------------------------------------------------------------------------
\* The stages of the mode.

RiskStage == NumAnalysts + 1
LastStage == IF mode = "PIPELINE" THEN NumAnalysts + 2 ELSE 1
MaxRepairs == IF mode = "PIPELINE" THEN 2 ELSE 1

Stages == 1..(NumAnalysts + 2)

Assesses(s) == mode = "PIPELINE" /\ s = RiskStage
Decides(s) == s = LastStage

-----------------------------------------------------------------------------

TypeOK ==
    /\ mode \in AgentMode
    /\ portfolio \in Books
    /\ price \in Prices
    /\ threshold \in Thresholds \cup {NoThreshold}
    /\ pc \in {"load", "complete", "repair", "gate", "done", "raised"}
    /\ stage \in 1..LastStage
    /\ repairs \in 0..(MaxRepairs - 1)
    /\ told \in [Stages -> [malformed : 0..3, last : Answer]]
    /\ log \in [Stages -> StageLog]
    /\ risk \in RiskLevel \cup {NoLevel}
    /\ proposed \in ParsedAgentOutput
    /\ decision \in [action : TradeAction, target : Int, fallbackUsed : BOOLEAN]
    /\ order \in [action : TradeAction, quantity : Int]

Init ==
    /\ mode \in AgentMode
    /\ portfolio \in Books
    /\ price \in Prices
    /\ threshold \in Thresholds \cup {NoThreshold}
    /\ pc = IF mode = "PIPELINE" THEN "load" ELSE "complete"
    /\ stage = 1
    /\ repairs = 0
    /\ told = [s \in Stages |-> [malformed |-> 0, last |-> "none"]]
    /\ log = [s \in Stages |-> NotRun]
    /\ risk = NoLevel
    /\ proposed = FallbackDecision
    /\ decision = [action |-> "HOLD", target |-> 0, fallbackUsed |-> FALSE]
    /\ order = Hold

-----------------------------------------------------------------------------
(***************************************************************************)
(* Stages                                                                  *)
(***************************************************************************)

\* run, up to the first model call: prices, benchmark and intraday bars fall
\* back to what is there, research that cannot be fetched is left empty.
LoadContext ==
    /\ pc = "load"
    /\ pc' = "complete"
    /\ UNCHANGED <<context, stageVars, decision, order>>

\* Anything but an HTTP error in the research providers leaves run.
LoadRaises ==
    /\ pc = "load"
    /\ pc' = "raised"
    /\ UNCHANGED <<context, stageVars, decision, order>>

\* The stage ends with an entry in the log and its output, parsed or fallback.
EndStage(status, reason, level, output) ==
    /\ log' = [log EXCEPT ![stage] = [status |-> status, reason |-> reason]]
    /\ risk' = IF Assesses(stage) THEN level ELSE risk
    /\ proposed' = IF Decides(stage) THEN output ELSE proposed
    /\ repairs' = 0
    /\ stage' = IF Decides(stage) THEN stage ELSE stage + 1
    /\ pc' = IF Decides(stage) THEN "gate" ELSE "complete"
    /\ UNCHANGED <<context, decision, order>>

\* Mutant of FallBack: a risk manager that failed sees no risk.
FallBackWithoutRisk(reason) == EndStage("FAILED", reason, "LOW", FallbackDecision)

\* A stage without a usable answer: no view, HIGH risk, or HOLD.
FallBack(reason) == EndStage("FAILED", reason, "HIGH", FallbackDecision)

Tell(answer) ==
    told' = [told EXCEPT ![stage] =
        [malformed |-> @.malformed + (IF answer = "malformed" THEN 1 ELSE 0),
         last |-> answer]]

\* provider.complete_*: request failed, timed out, or answered without a text.
CompleteRaises ==
    /\ pc = "complete"
    /\ Tell("raised")
    /\ FallBack("PROVIDER_COMPLETE_EXCEPTION")

\* Mutant of ValidAnswer: a repaired answer is logged as a first success.
ValidAnswerForgetsRepair ==
    /\ pc \in {"complete", "repair"}
    /\ Tell("valid")
    /\ \E level \in RiskLevel, output \in ParsedAgentOutput :
          EndStage("SUCCESS", "NONE", level, output)

\* A text that parses; log status REPAIRED if a repair prompt was needed.
ValidAnswer ==
    /\ pc \in {"complete", "repair"}
    /\ Tell("valid")
    /\ \E level \in RiskLevel, output \in ParsedAgentOutput :
          EndStage(IF pc = "repair" THEN "REPAIRED" ELSE "SUCCESS", "NONE", level, output)

\* Mutant of MalformedAnswer: when the repairs are used up they start again.
MalformedAnswerForEver ==
    /\ pc \in {"complete", "repair"}
    /\ pc' = "repair"
    /\ repairs' = IF pc = "repair" THEN (repairs + 1) % MaxRepairs ELSE 0
    /\ told' = [told EXCEPT ![stage] = [malformed |-> 1, last |-> "malformed"]]
    /\ UNCHANGED <<context, stage, log, risk, proposed, decision, order>>

\* Mutant of MalformedAnswer: one repair too many.
MalformedAnswerOnceMore ==
    /\ pc \in {"complete", "repair"}
    /\ Tell("malformed")
    /\ IF pc = "repair" /\ repairs = MaxRepairs
       THEN FallBack("REPAIR_PARSE_FAILED")
       ELSE /\ pc' = "repair"
            /\ repairs' = IF pc = "repair" THEN repairs + 1 ELSE 0
            /\ UNCHANGED <<context, stage, log, risk, proposed, decision, order>>

\* AgentOutputParseError: ask for a repair while there is one left.
MalformedAnswer ==
    /\ pc \in {"complete", "repair"}
    /\ Tell("malformed")
    /\ IF pc = "repair" /\ repairs + 1 = MaxRepairs
       THEN FallBack("REPAIR_PARSE_FAILED")
       ELSE /\ pc' = "repair"
            /\ repairs' = IF pc = "repair" THEN repairs + 1 ELSE 0
            /\ UNCHANGED <<context, stage, log, risk, proposed, decision, order>>

RepairRaises ==
    /\ pc = "repair"
    /\ Tell("raised")
    /\ FallBack("PROVIDER_REPAIR_EXCEPTION")

RepairUnavailable ==
    /\ pc = "repair"
    /\ Tell("unavailable")
    /\ FallBack("REPAIR_UNAVAILABLE")

\* The parsers compare the numbers they have read with 0 and 1.  For NaN, which
\* JSON texts may hold, Decimal raises InvalidOperation: no AgentOutputParseError,
\* so no repair and no fallback, and the step runner sees the exception.
ParserRaises ==
    /\ pc \in {"complete", "repair"}
    /\ pc' = "raised"
    /\ UNCHANGED <<context, stageVars, decision, order>>

-----------------------------------------------------------------------------
(***************************************************************************)
(* Gate and risk check                                                     *)
(***************************************************************************)

\* quantize: the multiple nearest to n / d, the even one if two are equally near.
RoundHalfEven(n, d) ==
    LET q == n \div d
        r == n % d
    IN  IF 2 * r > d \/ (2 * r = d /\ q % 2 = 1) THEN q + 1 ELSE q

\* _current_exposure_pct, in units of 1/Scale.
CurrentExposure ==
    LET value == PortfolioValue(portfolio, price)
    IN  IF value <= 0 THEN 0
        ELSE RoundHalfEven(portfolio.position * price * Scale, value)

BelowThreshold(advice) == threshold # NoThreshold /\ advice.confidence < threshold

BuyRefused(advice) ==
    \/ Smaller(advice.target, Scale) <= CurrentExposure
    \/ ~advice.newInformation
    \/ risk = "HIGH"

\* Mutant of SellRefused: the target is not looked at.
SellRefusedWithoutTarget(advice) == portfolio.position <= 0

SellRefused(advice) ==
    \/ portfolio.position <= 0
    \/ Smaller(advice.target, Scale) >= CurrentExposure

\* The gate's conditions, each with a reason code of its own in the audit.
Refused(advice) ==
    \/ BelowThreshold(advice)
    \/ advice.action = "BUY" /\ BuyRefused(advice)
    \/ advice.action = "SELL" /\ SellRefused(advice)

FinalAction(advice) == IF Refused(advice) THEN "HOLD" ELSE advice.action

FinalTarget(advice) ==
    IF FinalAction(advice) = "HOLD" THEN CurrentExposure
    ELSE Smaller(advice.target, Scale)

Degraded == {s \in 1..LastStage : log[s].status = "FAILED"}

\* The deciding stage's proposal, or HOLD if that stage failed, through the gate;
\* then the decision, its logs and its risk check, in one transaction.
Decide ==
    /\ pc = "gate"
    /\ LET failed == log[LastStage].status = "FAILED"
           advice == IF failed THEN FallbackDecision ELSE proposed
       IN  /\ decision' = [action |-> FinalAction(advice), target |-> FinalTarget(advice),
                            fallbackUsed |-> Refused(advice) \/ Degraded # {}]
           /\ order' = EvaluateTargetExposure(FinalAction(advice), FinalTarget(advice),
                                              portfolio, price)
    /\ pc' = "done"
    /\ UNCHANGED <<context, stageVars>>

-----------------------------------------------------------------------------

CallModel ==
    \/ CompleteRaises \/ ValidAnswer \/ MalformedAnswer
    \/ RepairRaises \/ RepairUnavailable \/ ParserRaises

Next == LoadContext \/ LoadRaises \/ CallModel \/ Decide

Spec == Init /\ [][Next]_vars

\* Every call of the model ends: the HTTP client has a timeout.
FairSpec == Spec /\ WF_vars(Next)

-----------------------------------------------------------------------------
(***************************************************************************)
(* Properties                                                              *)
(***************************************************************************)

\* The risk check sizes the order from the target alone, the gate compares the
\* target with an exposure it has rounded, and the stored value of the portfolio
\* may be older than the price: still no BUY ends as a SELL, no SELL as a BUY,
\* and no HOLD as an order.
OrderFollowsDecision ==
    pc = "done" => order.action \in {"HOLD", decision.action}

\* BR-027: an order goes back to an answer that parsed.  A BUY needs confidence,
\* news, and a risk manager that answered, and not with HIGH: a failed repair
\* anywhere behind the order can only take it away.
OrderIsAdvised ==
    pc = "done" /\ order.action # "HOLD" =>
        /\ told[LastStage].last = "valid"
        /\ threshold # NoThreshold => proposed.confidence >= threshold
        /\ order.action = "BUY" =>
              /\ proposed.newInformation
              /\ mode = "PIPELINE" => told[RiskStage].last = "valid" /\ risk # "HIGH"

\* BR-025, BR-027: the log tells what the model did in every stage, and a decision
\* that is not marked as a fallback is what the model said.
AuditIsTrue ==
    /\ \A s \in Stages :
          /\ log[s].status = "SUCCESS" <=> told[s] = [malformed |-> 0, last |-> "valid"]
          /\ log[s].status = "REPAIRED" <=> told[s].last = "valid" /\ told[s].malformed > 0
          /\ log[s].reason = "PROVIDER_COMPLETE_EXCEPTION"
                <=> told[s] = [malformed |-> 0, last |-> "raised"]
          /\ log[s].reason = "REPAIR_PARSE_FAILED" <=> told[s].malformed = MaxRepairs + 1
    /\ pc = "done" /\ ~decision.fallbackUsed =>
          /\ \A s \in 1..LastStage : told[s].last = "valid"
          /\ decision.action = proposed.action
          /\ decision.action # "HOLD" => decision.target = proposed.target

\* Every decision ends, after two or three calls of the model a stage at most:
\* the step's transaction is not held open for ever.
DecisionEnds == <>(pc \in {"done", "raised"})

=============================================================================
