----------------------------- MODULE MCAnalysis -----------------------------
(***************************************************************************)
(* Values for the constants of Analysis, for TLC.                          *)
(***************************************************************************)
EXTENDS Analysis

(* Names that confuse an escaping, and a plain one.                         *)
Names == {<<"a">>, <<"~">>, <<"/">>, <<"~", "1">>, <<"~", "0">>, <<"/", "~">>}

(* Every combination of status, phrases and kind of node, for one name or   *)
(* none; the other names with a failure that is retried and one that is not. *)
AnyFailure ==
  [node : {<<>>, <<"a">>}, status : {0, 401, 404, 408, 429},
   phrases : SUBSET Phrases, webhookNode : BOOLEAN]
  \cup
  [node : Names, status : {0, 429}, phrases : {{}}, webhookNode : {FALSE}]

(* What a run of a node ends with: no error, one that must not be retried,  *)
(* one that may be and is told by its code, and one without a message.      *)
RunErrors ==
  { NoError,
    [NoError EXCEPT !.message = {"configuration"}, !.stack = {"webhook"}, !.node = <<"a">>],
    [NoError EXCEPT !.message = {}, !.kind = "other",
                    !.code = [status |-> 429, phrases |-> {}]],
    [NoError EXCEPT !.description = {"timeout"},
                    !.code = [status |-> 1000, phrases |-> {"network"}]] }

RunData ==
  {<<>>}
    \cup {<<[node |-> <<"a">>, runs |-> runs]>> : runs \in BoundedSeq(RunErrors, 2)}
    \cup {<<[node |-> <<"webhook">>, runs |-> <<e>>], [node |-> <<"a">>, runs |-> <<f, g>>]>> :
             e, f, g \in RunErrors}

NoDetails == [node |-> <<>>, kind |-> None]

(* Failed executions that differ in where the error is told.                *)
FailedExecutions ==
  [status : {"error"}, ids : {TRUE}, last : {<<>>, <<"a">>, <<"webhook">>},
   error : {NoError, [NoError EXCEPT !.node = <<"/">>, !.description = {"timeout"}]},
   runData : RunData, details : {NoDetails},
   message : {None, {"authentication"}}, description : {None}, stack : {{}},
   code : {None, [status |-> 401, phrases |-> {}]}, webhooks : {{}}]

(* Executions that differ in the rest of the payload.                       *)
AnyExecution ==
  FailedExecutions
  \cup
  [status : {None, "crashed", "success"}, ids : BOOLEAN, last : {<<>>},
   error : RunErrors, runData : {<<>>},
   details : {NoDetails, [node |-> <<"a">>, kind |-> None],
              [node |-> <<"a">>, kind |-> "webhook"]},
   message : {None, {}}, description : {None, {"data_mapping"}},
   stack : {{}, {"webhook"}}, code : {None, [status |-> 404, phrases |-> {}]},
   webhooks : {{}, {<<"a">>}}]

(* Answers of at most four lines; prose adds nothing to these.              *)
ShortReplies ==
  BoundedSeq({"fence", "{", "}", "rate_limit", "configuration", "extra"}, 4)

NoRetry   == [field \in Fields |-> Missing]
SomeRetry == [field \in Fields |->
                CASE field = "retryOnFail"      -> FALSE
                  [] field = "maxTries"         -> 5
                  [] field = "waitBetweenTries" -> 1000]

Nodes == [name : Names \cup {<<>>}, retry : {NoRetry, SomeRetry}]

(* Two nodes that may be taken for each other, or any id with one or none.  *)
SmallWorkflows ==
  [id : {WorkflowId}, objects : {TRUE}, nodes : [1..2 -> Nodes]]
    \cup [id : {WorkflowId, NoId, "other"}, objects : BOOLEAN, nodes : BoundedSeq(Nodes, 1)]
=============================================================================
