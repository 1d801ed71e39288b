----------------------------- MODULE DapService -----------------------------
(***************************************************************************)
(* What the debugger promises its host, in the terms of the two bulk       *)
(* endpoints: since the last SET_CONFIGURATION, every request is executed  *)
(* once, in the order of the requests, and the host reads one response for *)
(* each request executed, in that order.  Requests are numbered as the     *)
(* host sends them and a response by the request it answers.               *)
(***************************************************************************)
EXTENDS Naturals

VARIABLES
    asked,      \* requests sent
    base,       \* those no longer answered: sent before the configuration
    executions, \* commands executed since then
    executed,   \* the request executed last
    answered    \* the request whose response the host read last

serviceVars == <<asked, base, executions, executed, answered>>

ServiceInit ==
    /\ asked = 0
    /\ base = 0
    /\ executions = 0
    /\ executed = 0
    /\ answered = 0

Ask ==
    /\ asked' = asked + 1
    /\ UNCHANGED <<base, executions, executed, answered>>

\* The next request, and no other.
Execute ==
    /\ base + executions < asked
    /\ executions' = executions + 1
    /\ executed' = base + executions + 1
    /\ UNCHANGED <<asked, base, answered>>

\* The response to the request after the one answered last.
Answer ==
    /\ answered < base + executions
    /\ answered' = answered + 1
    /\ UNCHANGED <<asked, base, executions, executed>>

Configure ==
    /\ base' = asked
    /\ executions' = 0
    /\ executed' = asked
    /\ answered' = asked
    /\ UNCHANGED asked

ServiceNext == Ask \/ Execute \/ Answer \/ Configure

ServiceSpec == ServiceInit /\ [][ServiceNext]_serviceVars
=============================================================================
