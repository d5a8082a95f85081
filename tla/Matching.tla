------------------------------ MODULE Matching ------------------------------
(***************************************************************************)
(* Rules as their files define them (config/loader.py) and the conditions  *)
(* of a rule (rules/matcher.py), for the Kafka listener and for the dry run *)
(* of POST /rules:match.                                                   *)
(*                                                                         *)
(* A rule document is a record                                             *)
(*   format     "when" (the new format), "rules" (the old one) or "none"   *)
(*   priority   a number, a word such as "high", or None                   *)
(*   name       for the order among equal priorities                       *)
(*   topic      the destination of its when block, or None                 *)
(*   match      a set of [type, expression, value, regex]                  *)
(*   outputs    a set of [type, dest, payload], what an output names        *)
(* A message is a record                                                   *)
(*   topic, key, headers    of the record                                  *)
(*   json       what JSONPath expressions find in it                       *)
(*   raw, text  its payload as it was sent, and as str() of what the       *)
(*              listener has parsed                                        *)
(***************************************************************************)
EXTENDS Integers, FiniteSets

CONSTANTS None,    \* an absent field
          Empty,   \* the empty string
          Word,    \* a priority that is no number
          NoRule,
          Within,  \* the pairs <<part, text>> where the part occurs in the text
          Found    \* the pairs <<pattern, text>> where the pattern finds a match

ASSUME TextsAssumption == None # Empty /\ Word \notin Nat

ConditionTypes ==
    {"jsonpath", "exact", "partial", "regex", "header", "key", "path_param", "query_param"}
Inward == {"db", "http_response"}   \* outputs that name no destination

-----------------------------------------------------------------------------
\* What _parse_rule_new_format rejects; the file loads without that rule.
WellFormed(doc) ==
    /\ doc.priority # None /\ doc.topic # None /\ doc.outputs # {}
    /\ \A c \in doc.match : c.type \in ConditionTypes
    /\ \A o \in doc.outputs :
        /\ o.type \in Inward \/ o.dest # None
        /\ o.type \in Inward \cup {"http"} \/ o.payload # None
    /\ Cardinality({o \in doc.outputs : o.type = "http_response"}) <= 1

\* The old format: whatever its strategy, the condition becomes a jsonpath one,
\* with an expression only if the strategy says so.
OldCondition(c) ==
    IF c.type = "jsonpath" THEN [c EXCEPT !.regex = None]
    ELSE [type |-> "jsonpath", expression |-> None, value |-> c.value, regex |-> None]

RuleOf(doc) ==
    [topic |-> doc.topic, name |-> doc.name,
     priority |-> IF doc.priority = None THEN 100 ELSE doc.priority,
     conditions |-> IF doc.format = "when" THEN doc.match ELSE {OldCondition(c) : c \in doc.match}]

\* _load_yaml_file: a file with neither key has no rules.
RulesIn(docs) ==
    {RuleOf(doc) : doc \in {d \in docs :
        \/ d.format = "when" /\ WellFormed(d)
        \/ d.format = "rules" /\ d.topic # None /\ d.outputs # {} /\ \A o \in d.outputs : o.dest # None}}

\* Python compares numbers or words, not one with the other.
Sortable(rules) == ~\E r, q \in rules : r.priority = Word /\ q.priority # Word
Before(r, q) ==
    IF r.priority = q.priority THEN r.name <= q.name ELSE r.priority < q.priority

-----------------------------------------------------------------------------
\* The values a condition is asked about: Kafka messages have no parameters.
ListenerSees(c, m) ==
    CASE c.type = "jsonpath" -> IF c.expression = None THEN {} ELSE m.json[c.expression]
      [] c.type = "header"   -> {m.headers[c.expression]}
      [] c.type = "key"      -> {m.key}
      [] c.type \in {"exact", "partial", "regex"} -> {m.text}
      [] OTHER -> {}

\* explain_rule_match is given the payload as an object or as text.
DryRunSees(c, m) ==
    IF c.type \in {"exact", "partial", "regex"} THEN {IF m.given = "text" THEN m.raw ELSE m.text}
    ELSE ListenerSees(c, m)

\* A value wins over a pattern, and with neither the field has only to exist.
Compares(c, v, value) ==
    IF value # None THEN v = value ELSE c.regex # None => <<c.regex, v>> \in Found
Pattern(c) == IF c.regex # None THEN c.regex ELSE c.value

JsonHolds(c, v) ==
    IF c.regex # None THEN <<c.regex, v>> \in Found ELSE c.value # None /\ v = c.value
TextHolds(c, v) ==
    CASE c.type = "exact"   -> v = Pattern(c)
      [] c.type = "partial" -> <<Pattern(c), v>> \in Within
      [] c.type = "regex"   -> <<Pattern(c), v>> \in Found
\* For headers and keys an empty value counts as none, for parameters not.
FieldHolds(c, v) == Compares(c, v, IF c.value = Empty THEN None ELSE c.value)
ParamHolds(c, v) == Compares(c, v, c.value)

Holds(c, seen) ==
    \E v \in seen \ {None} :
        CASE c.type = "jsonpath"                    -> JsonHolds(c, v)
          [] c.type \in {"exact", "partial", "regex"} -> TextHolds(c, v)
          [] c.type \in {"header", "key"}             -> FieldHolds(c, v)
          [] c.type \in {"path_param", "query_param"} -> ParamHolds(c, v)

\* get_rules_for_topic in its order; all conditions of a rule must hold.
First(rules) ==
    IF rules = {} THEN NoRule
    ELSE CHOOSE r \in rules : \A q \in rules : Before(r, q)
RuleThatRuns(rules, m) ==
    First({r \in rules : r.topic = m.topic /\ \A c \in r.conditions : Holds(c, ListenerSees(c, m))})
RuleExplained(rules, m) ==
    First({r \in rules : r.topic = m.topic /\ \A c \in r.conditions : Holds(c, DryRunSees(c, m))})
=============================================================================
