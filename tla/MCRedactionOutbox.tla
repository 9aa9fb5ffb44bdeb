--------------------------- MODULE MCRedactionOutbox ---------------------------
(* Three events, one of them refused by the cloud, in batches of two: batches *)
(* with and without the refused one, and events behind a full batch.         *)
EXTENDS RedactionOutbox

CONSTANTS ev1, ev2, ev3
=============================================================================
