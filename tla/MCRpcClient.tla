---------------------------- MODULE MCRpcClient -----------------------------
(* RpcClient for TLC: calls a and b listen to one topic, c to another, and *)
(* every call passes a callback of its own.                                *)
EXTENDS RpcClient, TLC

MCTopicOf == [x \in Call |-> IF x = "c" THEN "u" ELSE "t"]

MCHandlerOf == [x \in Call |-> CASE x = "a" -> "f" [] x = "b" -> "g" [] x = "c" -> "h"]
=============================================================================
