----------------------------- MODULE MCOutcomes -----------------------------
(* Trials of four moments, with limits that so few reach. *)
EXTENDS Outcomes

Called(action, outcome) ==
    [Blank("llm_call") EXCEPT !.action = action, !.outcome = outcome]
Cheaply == Called("cheap_execute", "stop")

MCActs ==
    {Called("cheap_execute", "length"),
     [Cheaply EXCEPT !.adjusted = TRUE],
     Called("freeze_or_replan", "stop"),
     Called("hypothesis_apply", "length"),
     [Cheaply EXCEPT !.hyp = "A"],
     [Cheaply EXCEPT !.rule = ApplyRule],
     [Called("premium_recover", "stop") EXCEPT !.rule = ApplyRecoveryRule],
     Tool("file_write", "workspace", "unknown", ""),
     Tool("test", "", "failure", ""),
     Tool("test", "", "success", ""),
     Tool("validation", "", "unknown", "fact"),
     Tool("execution_probe", "", "unknown", "stall")}

MCVerdicts ==
    {[Blank("file_modified") EXCEPT !.target = "paths",
                                    !.source = "agent_patch"],
     [Blank("test_failed") EXCEPT !.failed = 1, !.print = "p"],
     Blank("verifier_result"),
     [Blank("verifier_result") EXCEPT !.good = TRUE]}
=============================================================================
