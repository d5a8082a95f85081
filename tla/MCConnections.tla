---------------------------- MODULE MCConnections ----------------------------
(***************************************************************************)
(* Small instances for TLC of what threads share to reach other systems:   *)
(* the pools of database and JMS connections and the tokens for HTTP.  The *)
(* three have no variable in common, so that a behaviour exercises one of  *)
(* them, and the others stay in an initial state.                          *)
(***************************************************************************)
EXTENDS DBConnectionPool, JMSPool, HttpExecutor

CONSTANTS ta, tb, tc   \* threads
CONSTANTS c1, c2       \* connections, and clients
CONSTANTS h1, h2, h3   \* handles
CONSTANTS pBasic, pBearer, pToken, pCorp, unknown, hostA, hostB

VARIABLE subject

Override(hosts, ports, p) == [hosts |-> hosts, ports |-> ports, profile |-> p]
McAuthFile ==
    [named |-> {pBasic, pToken}, inline |-> {pBearer},
     overrides |-> <<Override({hostA, hostB}, AnyPort, unknown), Override({hostA}, 80..89, pToken),
                     Override({hostB}, {80}, pBearer)>>]
McTlsFile ==
    [named |-> {pCorp}, inline |-> {}, overrides |-> <<Override({hostA}, AnyPort, pCorp)>>]
McAuthType == [p \in Profiles |-> IF p = pToken THEN "token_fetch"
                                  ELSE IF p = pBasic THEN "basic" ELSE "bearer"]
McTtl == [p \in Profiles |-> IF p = pToken THEN 2 ELSE 0]
Request(host, port, ref) == [host |-> host, port |-> port, authRef |-> ref, tlsRef |-> unknown]
McRequests == {Request(hostA, 81, unknown), Request(hostB, 80, unknown),
               Request(hostA, 443, pBasic)}

SharedInit == /\ Init /\ JMSInit /\ HttpInit
              /\ subject \in {"db", "jms", "http"}
              /\ subject # "db" => idle = <<>>
              /\ subject # "jms" => available = <<>>
SharedNext ==
    /\ UNCHANGED subject
    /\ \/ subject = "db" /\ Next /\ UNCHANGED <<jmsVars, httpVars>>
       \/ subject = "jms" /\ JMSNext /\ UNCHANGED <<vars, httpVars>>
       \/ subject = "http" /\ HttpNext /\ UNCHANGED <<vars, jmsVars>>
SharedSpec ==
    /\ SharedInit /\ [][SharedNext]_<<vars, jmsVars, httpVars, subject>>
    /\ Fairness /\ JMSFairness
=============================================================================
