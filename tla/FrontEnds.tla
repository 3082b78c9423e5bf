------------------------------ MODULE FrontEnds ------------------------------
(***************************************************************************)
(* The two front ends that answer a question in one go: a tool of the MCP  *)
(* server, and the command line.  A question is an assessment and a        *)
(* preferred provider: one of MODEL_PROVIDERS, "none", "other" for a       *)
(* string that names no provider, or "not_text" for what is no string.     *)
(*                                                                         *)
(* Abstracted: messages and details of errors, and the JSON around them.   *)
(***************************************************************************)
EXTENDS RouterCalls

Supported(p) == p \in MODEL_PROVIDERS \cup {"none"}

\* Stands for every assessment that is there but is no object: a string, a
\* number, null, or, as it is written here, an array.
NoObject == << >>
isObject(a) == a # NoObject

-----------------------------------------------------------------------------
\* The MCP tools.  What the server answers is the output of the tool, or an
\* error with the code that toMcpToolError gives it.

toMcpToolError(error) ==
  IF error = "TaskAssessmentValidationError" THEN "INVALID_TASK_ASSESSMENT"
  ELSE IF error = "McpToolInputError" THEN "INVALID_PREFERRED_PROVIDER"
  ELSE IF error = "RoutingPolicyError" THEN "ROUTING_ERROR"
  ELSE "INTERNAL_ERROR"

\* Mutant of toolOptions: a preferred provider is forgotten.
noOptions(p) == IF Supported(p) THEN Fulfilled("none") ELSE Rejected("McpToolInputError")

toolOptions(p) == IF Supported(p) THEN Fulfilled(p) ELSE Rejected("McpToolInputError")

\* The assessment is validated before the options are looked at.
routeTaskTool(c, question) ==
  LET options == toolOptions(question.preferred)
  IN  IF ~validAssessment(question.assessment)
      THEN Rejected("TaskAssessmentValidationError")
      ELSE IF options[1] = "rejected" THEN options
      ELSE routeTask(c, question.assessment, options[2])

\* The options are looked at before the assessment is validated.
prepareExecutionTool(c, question) ==
  LET options == toolOptions(question.preferred)
  IN  IF options[1] = "rejected" THEN options
      ELSE prepareAgentExecution(c, question.assessment, options[2])

\* The questions that toolInputSchema takes: of the assessment it asks that it
\* be an object, of the provider that it be a string.
toolInputSchema(question) ==
  isObject(question.assessment) /\ question.preferred # "not_text"

\* A call of a registered tool.  The SDK refuses what does not meet the schema in
\* its own words, before the handler runs; the handler answers with what it makes
\* of the tool's promise.
registeredTool(question, promise) ==
  IF ~toolInputSchema(question) THEN Rejected("InvalidParams")
  ELSE IF promise[1] = "rejected" THEN Rejected(toMcpToolError(promise[2]))
  ELSE promise

-----------------------------------------------------------------------------
\* The command line.  Arguments are words, and "files" gives the files that
\* can be read and parsed as JSON what they hold.

\* The position of --provider, 0 when it is not there.
providerFlag(args) ==
  LET at == {i \in DOMAIN args : args[i] = "--provider"}
  IN  IF at = {} THEN 0 ELSE CHOOSE i \in at : \A j \in at : i <= j

rawProvider(args) ==
  LET i == providerFlag(args)
  IN  IF i > 0 /\ i < Len(args) THEN args[i + 1] ELSE "none"

\* The first argument that is not a dash word and not behind --provider.  The
\* position behind a flag that is not there is the first one.
filePath(args) ==
  LET left == {i \in DOMAIN args :
                 args[i] \notin {"--", "--provider"} /\ i # providerFlag(args) + 1}
  IN  IF left = {} THEN ""
      ELSE args[CHOOSE i \in left : \A j \in left : i <= j]

Exits(code) == [exit |-> code, output |-> << >>]

printed(decision) ==
  IF decision[1] = "rejected" THEN Exits(1)
  ELSE [exit |-> 0, output |-> <<decision[2]>>]

\* main: an unknown provider, thrown by parseCliArgs outside of the try, ends
\* the process with 1 as well.
main(c, args, files) ==
  LET provider == rawProvider(args)
      path == filePath(args)
  IN  IF ~Supported(provider) THEN Exits(1)
      ELSE IF path = "" THEN Exits(2)
      ELSE IF path \notin DOMAIN files THEN Exits(1)
      ELSE IF ~validAssessment(files[path]) THEN Exits(1)
      ELSE printed(routeTask(c, files[path], provider))

\* The usage: -- [--provider openai_codex|anthropic_claude] <file>
usage(provider, path) ==
  IF provider = "none" THEN <<"--", path>> ELSE <<"--", "--provider", provider, path>>
==============================================================================
