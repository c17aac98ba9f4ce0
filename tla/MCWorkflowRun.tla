--------------------------- MODULE MCWorkflowRun ---------------------------
(* The verify loop of buildVerifyWorkflow, cut down: a gate, a fix-up tier and, *)
(* behind it, a human gate like plan-implement's, one of whose edges dangles.   *)
EXTENDS WorkflowRun

MCNodes == {"verify", "fixup", "approve", "gone", "exit"}
MCKind == [n \in MCNodes |->
  CASE n = "verify" -> "command" [] n = "fixup" -> "agent" [] n = "approve" -> "human"
    [] n = "gone" -> "missing" [] n = "exit" -> "exit"]
Edge(f, o, t) == [from |-> f, on |-> o, to |-> t]
MCEdges == {Edge("verify", "succeeded", "exit"), Edge("fixup", "any", "verify"),
            Edge("approve", "label", "verify"), Edge("approve", "label", "gone")}
MCOverflow == [n \in MCNodes |-> IF n = "fixup" THEN "approve" ELSE None]
MCTiers == [n \in MCNodes |-> IF n = "fixup" THEN <<"approve">> ELSE << >>]
MCRetry == [n \in MCNodes |-> IF n = "verify" THEN "fixup" ELSE None]
MCLimit == [n \in MCNodes |-> IF n = "verify" THEN 2 ELSE 1]
MCGate == {"verify"}
MCContinuable == {"verify", "fixup"}
=============================================================================
