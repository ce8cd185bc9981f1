----------------------------- MODULE MCFlowMap -----------------------------
(***************************************************************************)
(* FlowMapBuilder on every list of up to MaxList exchanges of a flow with  *)
(* a form, an action that is both a step and an extra, an extra paired     *)
(* with it and one that is answered by it without being its pair, as       *)
(* published and with a step of an extra's action added.                   *)
(***************************************************************************)
EXTENDS FlowMapBuilder

CONSTANTS search, form, on_status, status, cancel, m1, m2

MCStep(key, type, ours, pair) ==
    [key |-> key, type |-> type, ours |-> ours, input |-> FALSE, manual |-> FALSE,
     unsolicited |-> FALSE, pair |-> pair]

MCKey == {"search_1", "form_1", "on_status_1", "cancel_1", "status_x", "on_status_x", "cancel_x"}
MCType == {search, form, on_status, status, cancel}
MCFormType == {form}
MCId == {m1, m2}
MCSequence == <<MCStep("search_1", search, TRUE, NoPair),
                MCStep("form_1", form, TRUE, NoPair),
                MCStep("on_status_1", on_status, FALSE, NoPair)>>
MCMoreSequences == {<<>>, <<MCStep("cancel_1", cancel, TRUE, NoPair)>>}
MCExtra == {MCStep("status_x", status, TRUE, "on_status_x"),
            MCStep("on_status_x", on_status, FALSE, "status_x"),
            MCStep("cancel_x", cancel, TRUE, "on_status_x")}
=============================================================================
