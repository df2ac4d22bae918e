------------------------------- MODULE Values -------------------------------
(* The JSON values the stages look at.  Text is opaque: a value says whether *)
(* it is a string and whether it converts to a number, and which one.        *)
EXTENDS Integers

Value(str, atom, numeric, num) ==
    [str |-> str, atom |-> atom, numeric |-> numeric, num |-> num]

Null == Value(FALSE, "null", FALSE, 0)

Text(atom) == Value(TRUE, atom, FALSE, 0)

Number(n) == Value(FALSE, "number", TRUE, n)

\* What obj.get(field) gives: null and a missing field look the same.
Get(obj, field) == IF field \in DOMAIN obj THEN obj[field] ELSE Null

\* {**obj, **fields}: the fields, then what obj has besides them.
With(fields, obj) ==
    [f \in DOMAIN fields \cup DOMAIN obj |-> IF f \in DOMAIN fields THEN fields[f] ELSE obj[f]]
============================================================================
