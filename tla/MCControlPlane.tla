----------------------------- MODULE MCControlPlane -----------------------------
(* Instances of the guards, the gateway and the boss's commands. *)
EXTENDS ControlPlane, TLC

CONSTANTS c1, c2, model, stub, ip, k1, d1

MCLimit == [m \in {"POST", "PATCH", "DELETE"} |-> IF m = "POST" THEN 2 ELSE 1]
MCHealth == [p \in {model, stub} |-> IF p = model THEN "configured" ELSE "mock"]
MCTexts == {{"revenue", "asset"}}
MCRetries == {1}
=================================================================================
