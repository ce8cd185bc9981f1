------------------------------ MODULE MCTurns ------------------------------
(***************************************************************************)
(* A flow whose published line has a step that waits for inputs and a      *)
(* form, and beside it an exchange that either side may start.  The first  *)
(* step and that exchange's request may each add the callback to the line. *)
(***************************************************************************)
EXTENDS Turns

CONSTANTS search, on_search, form, status, on_status

MCStep(key, type, ours, input, pair) ==
    [key |-> key, type |-> type, ours |-> ours, input |-> input, manual |-> FALSE,
     unsolicited |-> FALSE, pair |-> pair]

MCKey == {"search_1", "form_1", "on_search_1", "status_1", "status_x", "on_status_x"}
MCType == {search, on_search, form, status, on_status}
MCFormType == {form}
MCId == 1..MaxId

MCSequence == <<MCStep("search_1", search, TRUE, TRUE, NoPair),
                MCStep("form_1", form, FALSE, FALSE, NoPair)>>
MCCallback == <<MCStep("on_search_1", on_search, FALSE, FALSE, NoPair)>>
MCMoreSequences == {<<>>, MCCallback}
MCSaves ==
    [key \in MCKey |-> IF key \in {"search_1", "status_x"} THEN {MCCallback} ELSE {}]

\* That request adds a step of its own action.
MCStatus == <<MCStep("status_1", status, FALSE, FALSE, NoPair)>>
MCStatusSequences == {<<>>, MCStatus}
MCStatusSaves == [key \in MCKey |-> IF key = "status_x" THEN {MCStatus} ELSE {}]

\* Either side may start the exchange: each step is the other's reply.
MCExtra == {MCStep("status_x", status, FALSE, FALSE, "on_status_x"),
            MCStep("on_status_x", on_status, TRUE, FALSE, "status_x")}
=============================================================================
