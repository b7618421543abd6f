---------------------------- MODULE RequestClient ----------------------------
(***************************************************************************)
(* requestJson of src/lib/request-client.ts: how one HTTP call of the      *)
(* dashboard ends, as a decision over what happened to it.  The parsers of *)
(* src/lib/api-parsers.ts either accept a body or throw.                   *)
(***************************************************************************)

\* What may happen to a call: the caller's signal aborts it, its timer runs
\* out, the network fails, or an answer arrives.  The first of them decides:
\* bindAbortSignals ignores a second reason and release ends both.
Ends == {"abort", "timeout", "network", "answer"}

\* An answer, as far as the client looks at it.
Answers == [status : {"ok", "unauthorized", "error"},
            body : {"empty", "accepted", "rejected"}]

\* classifyFetchError, for a call that got no answer
ClassifyFetchError(end) ==
  IF end = "timeout" THEN "timeout" ELSE IF end = "abort" THEN "aborted" ELSE "network"

\* buildResponseError, by the status
BuildResponseError(answer) == IF answer.status = "unauthorized" THEN "auth" ELSE "server"

\* The outcome: "ok" or the kind of the RequestError.
RequestJson(urlValid, end, answer, allowEmpty) ==
  IF ~urlValid THEN "config"
  ELSE IF end # "answer" THEN ClassifyFetchError(end)
  ELSE IF answer.status # "ok" THEN BuildResponseError(answer)
  ELSE IF answer.body = "empty" THEN (IF allowEmpty THEN "ok" ELSE "empty")
  ELSE IF answer.body = "rejected" THEN "parse" ELSE "ok"

ErrorKinds == {"aborted", "auth", "config", "empty", "network", "parse", "server", "timeout"}

\* What may go wrong with a GET that nobody aborted.
Failures ==
  {RequestJson(TRUE, end, answer, FALSE) : end \in Ends \ {"abort"}, answer \in Answers} \ {"ok"}
=============================================================================
