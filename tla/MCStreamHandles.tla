--------------------------- MODULE MCStreamHandles ---------------------------
(***************************************************************************)
(* StreamHandles with an opener that makes two calls and an acceptor that  *)
(* makes one, which is enough for two whole streams to send to each other. *)
(***************************************************************************)
EXTENDS StreamHandles

MCForms == {[s \in Side |-> f] : f \in {"whole", "halves"}}
MCSends == [s \in Side |-> IF s = "opener" THEN 2 ELSE 1]
MCCloses == [s \in Side |-> IF s = "opener" THEN 2 ELSE 0]
=============================================================================
