------------------------- MODULE MCTopicSubscription -------------------------
(***************************************************************************)
(* A small instance of TopicSubscription for TLC: one or two rule files     *)
(* with rules of both formats on the orders topic, a topic that is created  *)
(* late and that a test expects on, and messages that different conditions  *)
(* tell apart.                                                             *)
(***************************************************************************)
EXTENDS TopicSubscription

CONSTANTS f1, f2, orders, replies, kind, trace, new, old, customer, broken

Cond(type, expression, value, regex) ==
    [type |-> type, expression |-> expression, value |-> value, regex |-> regex]
ToReplies == [type |-> "kafka", dest |-> replies, payload |-> new]
Doc(format, priority, name, match) ==
    [format |-> format, priority |-> priority, name |-> name, topic |-> orders,
     match |-> match, outputs |-> {ToReplies}]

NewOrders  == Doc("when", 10, 1, {Cond("jsonpath", kind, new, None)})
ByKey      == Doc("when", 10, 2, {Cond("key", None, Empty, customer), Cond("header", trace, None, None)})
InText     == Doc("when", Word, 3, {Cond("partial", None, old, None)})
Incomplete == [Doc("when", 1, 4, {}) EXCEPT !.outputs = {}]
OldFormat  == Doc("rules", None, 5, {Cond("jsonpath", kind, old, None)})

Original   == {NewOrders, Incomplete}
Changed    == {ByKey, OldFormat}
Unsortable == {InText}
McContents  == {Original, Changed, Unsortable, broken}
OneFile     == [f \in Files |-> IF f = f1 THEN Original ELSE Absent]
BothFiles   == [f \in Files |-> IF f = f1 THEN Original ELSE Changed]
McBroken    == {broken}

Message(given, key, header, value, text) ==
    [topic |-> orders, given |-> given, key |-> key, headers |-> [h \in {trace} |-> header],
     json |-> [p \in {kind} |-> {value}], raw |-> value, text |-> text]
McMessages ==
    {Message("object", customer, new, new, old), Message("object", customer, new, old, new),
     Message("text", None, None, old, old), Message("text", None, None, new, old)}
McScenarios ==
    {[exists |-> {orders}, files |-> OneFile, edits |-> {}, failures |-> 2, sends |-> 2],
     [exists |-> {orders}, files |-> OneFile, failures |-> 0, sends |-> 0,
      edits |-> {<<f1, Changed>>, <<f2, Unsortable>>}],
     [exists |-> {orders, replies}, files |-> OneFile, failures |-> 0, sends |-> 0,
      edits |-> {<<f1, broken>>, <<f1, Original>>, <<f2, Changed>>}],
     [exists |-> {orders, replies}, files |-> BothFiles, failures |-> 0, sends |-> 0,
      edits |-> {<<f1, Changed>>, <<f1, Absent>>, <<f2, Unsortable>>, <<f2, Changed>>}]}
McWithin == {<<t, t>> : t \in {new, old, customer}}
=============================================================================
