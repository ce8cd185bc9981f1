--------------------------- MODULE MCRecordStore ---------------------------
(* Three calls on one transaction: enough for a send, a callback that lands *)
(* while it is in flight, and the answer to (or discard of) the send.       *)
EXTENDS RecordStore

CONSTANTS t1

MCCall == 1..3
MCKey == {t1}
MCKeyOf == [c \in MCCall |-> t1]
=============================================================================
