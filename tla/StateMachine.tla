---------------------------- MODULE StateMachine ----------------------------
(***************************************************************************)
(* The declared life of an invoice: the transition table of                *)
(* internal/invoicing, the blockers of internal/validationtasks, and the   *)
(* corrections that commit without an entry in that table.                 *)
(***************************************************************************)

\* transitionDefinitions: from, to.
Definitions ==
    {<<"DOWNLOADED", "ARCHIVED">>, <<"ARCHIVED", "MATCHING">>,
     <<"MATCHING", "AWAITING_CONTRACT">>, <<"MATCHING", "AWAITING_MATCH_CONFIRM">>,
     <<"MATCHING", "DEDUPE_CHECKED">>, <<"AWAITING_MATCH_CONFIRM", "DEDUPE_CHECKED">>,
     <<"AWAITING_CONTRACT", "DEDUPE_CHECKED">>, <<"DEDUPE_CHECKED", "DUPLICATE">>,
     <<"DEDUPE_CHECKED", "HEADER_READ">>, <<"HEADER_READ", "LINES_READ">>,
     <<"LINES_READ", "COMMERCIAL_VALIDATING">>,
     <<"COMMERCIAL_VALIDATING", "AWAITING_COMMERCIAL_REVIEW">>,
     <<"COMMERCIAL_VALIDATING", "COMMERCIALLY_VALIDATED">>,
     <<"AWAITING_COMMERCIAL_REVIEW", "COMMERCIALLY_VALIDATED">>,
     <<"COMMERCIALLY_VALIDATED", "CLASSIFIED">>, <<"CLASSIFIED", "AWAITING_REVIEW">>,
     <<"CLASSIFIED", "READY_FOR_SAGA">>, <<"AWAITING_REVIEW", "READY_FOR_SAGA">>,
     <<"READY_FOR_SAGA", "EXPORTING">>, <<"EXPORTING", "EXPORTED">>}

\* Not in the table: a contract that turns up and needs confirmation, a commercial
\* validation asked for again, a reanalysis.
Corrections ==
    {<<"AWAITING_CONTRACT", "AWAITING_MATCH_CONFIRM">>,
     <<"AWAITING_COMMERCIAL_REVIEW", "COMMERCIAL_VALIDATING">>,
     <<"CLASSIFIED", "COMMERCIALLY_VALIDATED">>, <<"AWAITING_REVIEW", "COMMERCIALLY_VALIDATED">>,
     <<"READY_FOR_SAGA", "COMMERCIALLY_VALIDATED">>}

After(s, table) == {d[2] : d \in {x \in table : x[1] = s}}

\* The status a task blocks an invoice in, and the type of the task.
Blockers == {<<"AWAITING_CONTRACT", "MISSING_CONTRACT">>, <<"AWAITING_MATCH_CONFIRM", "CONTRACT_MATCH">>,
             <<"AWAITING_COMMERCIAL_REVIEW", "COMMERCIAL_REVIEW">>, <<"AWAITING_REVIEW", "CLASSIFICATION">>}

Task(t, s) == [type |-> t, status |-> s]

\* The active tasks of an invoice that enters a status.
TasksOf(s) == {Task(b[2], "OPEN") : b \in {x \in Blockers : x[1] = s}}

\* transitions: the tasks that may be put to wait, for a contract or a correction.
Awaitable == {"MISSING_CONTRACT", "COMMERCIAL_REVIEW"}
=============================================================================
