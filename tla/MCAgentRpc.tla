----------------------------- MODULE MCAgentRpc -----------------------------
(* AgentRpc for TLC: an increment, a peripheral call that fails on CPU3    *)
(* and one the service refuses.  A peripheral call that succeeds differs   *)
(* from one that fails in its class only: no frame is matched by status.   *)
EXTENDS AgentRpc, TLC

MCSymmetry == Permutations(Agent)

MCIncrement == [type |-> "PING", arg |-> 1, valid |-> TRUE, status |-> "OK"]
MCPwmSet == [type |-> "PERIPHERAL", arg |-> 10, valid |-> TRUE, status |-> "ERROR"]
MCRefused == [type |-> "PERIPHERAL", arg |-> 12, valid |-> FALSE, status |-> "OK"]

MCCalls == {MCIncrement, MCPwmSet, MCRefused}
MCIncrements == {MCIncrement}

(* One patient agent, or all agents, any of which may time out.            *)
MCSetups ==
  {[agents |-> {a}, impatient |-> {}] : a \in Agent}
    \cup {[agents |-> Agent, impatient |-> Agent]}
=============================================================================
