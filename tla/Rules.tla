-------------------------------- MODULE Rules --------------------------------
(***************************************************************************)
(* What both listeners do with rules.  A rule is a record                  *)
(*   match    the payloads its conditions accept                           *)
(*   skip     rule.skip                                                    *)
(*   outputs  a sequence of [type, dest, render, fault]: msg_type, the     *)
(*            rendered destination, the template as a function of the      *)
(*            input payload, and the faults whose probability is positive. *)
(***************************************************************************)
EXTENDS Common, Sequences

CONSTANTS Poison,  \* what a poison pill turns a payload into
          NoDest   \* a destination local before its first assignment

ASSUME RulesAssumption == Poison \in Payloads /\ NoDest \notin Destinations

OutputTypes == {"kafka", "jms", "http", "db"}
Faults      == {"drop", "duplicate", "poison"}
OutputSpec  == [type: OutputTypes, dest: Destinations,
                render: [Payloads -> Payloads], fault: SUBSET Faults]
RuleSpec    == [match: SUBSET Payloads, skip: BOOLEAN, outputs: Seq(OutputSpec)]
IsRuleTable(table, names) == table \in [names -> Seq(RuleSpec)]

\* The first rule by priority whose conditions hold.
Matching(rules, payload) == {i \in DOMAIN rules : payload \in rules[i].match}
IsFirst(i, S) == i \in S /\ \A j \in S : i <= j

\* A message with a fault configured may be replaced by a poisoned one.
Sendable(payload, fault) ==
    {payload} \cup (IF "poison" \in fault THEN {Poison} ELSE {})
=============================================================================
