----------------------------- MODULE MCHttpServer -----------------------------
EXTENDS HttpServer, BundledPolicy

Bundled == [policy |-> DEFAULT_ROUTING_POLICY, catalog |-> DEFAULT_MODEL_CATALOG]

\* One provider, and no rule that delegates or declines to for every task.
Narrow ==
  [policy |-> [DEFAULT_ROUTING_POLICY EXCEPT !.delegation_rules =
                 SubSeq(delegation_rules, 1, 3)],
   catalog |-> [default_provider |-> "anthropic_claude",
                providers |-> {"anthropic_claude"}]]

BothConfigurations == {Bundled, Narrow}

\* An assessment that every rule set decides, one that Narrow has no delegation
\* rule for, one that the schema refuses, and one that is no object at all.
Sample ==
  [task_type |-> "planning", complexity |-> "high", risk |-> "low",
   context_size |-> "large", tool_need |-> "none", parallelizable |-> TRUE,
   requires_subagents |-> TRUE, confidence |-> 60, suggested_subtasks |-> 2]
Assessments ==
  {Sample, [Sample EXCEPT !.requires_subagents = FALSE],
   [Sample EXCEPT !.complexity = "extreme"], NoObject}
Questions ==
  [assessment : Assessments,
   preferred : MODEL_PROVIDERS \cup {"none", "other", "not_text"}]

\* Bodies that are not questions come in one size only.
Request(path, media, declared, size, body) ==
  [path |-> path, media |-> media, declared |-> declared, size |-> size, body |-> body]
SomeRequests ==
  {Request(path, "json", declared, size, <<"question", q>>) :
     path \in {"route", "plan"}, declared \in BOOLEAN, size \in {1, 3}, q \in Questions}
  \cup {Request(path, media, declared, 2, body) :
     path \in {"route", "plan"}, media \in {"json", "none", "text"}, declared \in BOOLEAN,
     body \in {<<"malformed">>, <<"shapeless">>}}
  \cup {Request("plan", "none", TRUE, 0, <<"malformed">>)}
-----------------------------------------------------------------------------
\* The tool of the MCP server that does what the request asks for.
ToolAnswer ==
  registeredTool(Question,
    IF request.path = "route" THEN routeTaskTool(config, Question)
    ELSE prepareExecutionTool(config, Question))

\* The command line, as its usage says to call it, on a file with the assessment.
CommandAnswer ==
  main(config, usage(Question.preferred, "task.json"),
       [path \in {"task.json"} |-> Question.assessment])

\* What HTTP says of a question, but for what befell the request on the way, the
\* MCP tool says too: the same output, a fault where there is a fault, and the
\* same kind of fault, where an assessment that is no object is the one thing
\* that the SDK refuses before the tool can name it.  With the shipped
\* configuration, which is the one it has, the command line says it of a route
\* for every provider that is a word.
FrontEndsAgree ==
  response # << >> /\ request.body[1] = "question" =>
    \A r \in {response[1]}, tool \in {ToolAnswer} :
      /\ r.status = 200 => tool = Fulfilled(r.output[1])
      /\ r.status = 422 =>
           tool = Rejected(IF isObject(Question.assessment)
                           THEN "INVALID_TASK_ASSESSMENT" ELSE "InvalidParams")
      /\ r.status = 400 =>
           tool \in {Rejected("INVALID_PREFERRED_PROVIDER"),
                      Rejected("INVALID_TASK_ASSESSMENT"), Rejected("InvalidParams")}
      /\ r.status = 500 /\ call = "settled" => tool = Rejected("ROUTING_ERROR")
      /\ config = Bundled /\ request.path = "route" /\ Question.preferred # "not_text" =>
           \A command \in {CommandAnswer} :
             /\ r.status = 200 => command = [exit |-> 0, output |-> r.output]
             /\ r.status \in {400, 422} => command = Exits(1)
==============================================================================
