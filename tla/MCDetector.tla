----------------------------- MODULE MCDetector -----------------------------
(* sentinel-detector with the rule files and lines of two questions: every   *)
(* short condition over two selections, and every kind of entry.             *)
EXTENDS Detector

digits(atom, n) == Value(TRUE, atom, TRUE, n)

RelatedTexts == {<<"endswith", "a.zip", ".zip">>, <<"contains", "a.zip", ".zip">>}
Unknown == {"(a"}

Entry(field, modifier, values) ==
    [field |-> field, modifier |-> modifier, values |-> values]

Rule(selections, condition) ==
    [shaped |-> TRUE, selections |-> selections, condition |-> condition]

NoFields == [f \in {} |-> Null]

Line(kind, id, top, raw, df, ports) ==
    [kind |-> kind, id |-> id, top |-> top, raw |-> raw, df |-> df, ports |-> ports]

Usual == 95     \* above all training events
Odd == 38       \* right at the threshold
Unheard == 5    \* below all training events

Object(top, raw) == Line("object", TRUE, top, raw, Usual, TRUE)

Blank == Line("blank", FALSE, NoFields, NoFields, Usual, TRUE)
Junk == Line("junk", FALSE, NoFields, NoFields, Usual, TRUE)
Scalar == Line("scalar", FALSE, NoFields, NoFields, Usual, TRUE)

(* Conditions: selection a holds of field f = x, selection b of g = x.       *)
Words == {"a", "b", "c", "and", "or", "not"}

AB == [s \in {"a", "b"} |->
          <<Entry(IF s = "a" THEN "f" ELSE "g", "", <<Text("x")>>)>>]

Conditions == UNION {[1..n -> Words] : n \in 0..4}
                 \cup {<<"a", "Or", "b">>, <<"(a">>, <<"NOT", "a", "aNd", "b">>}

\* A second selection that is called like an operator.
Unreachable == [s \in {"a", "not", "or"} |-> AB[IF s = "a" THEN "a" ELSE "b"]]

ConditionDirectories ==
    {<<Rule(AB, c)>> : c \in Conditions}
    \cup {<<Rule(Unreachable, c)>> : c \in {<<"not", "a">>, <<"not">>, <<"a", "or">>, <<"a", "or", "not", "a">>}}

FG(F) == [h \in {"f", "g"} |-> Text(IF h \in F THEN "x" ELSE "y")]

ConditionLines == {Object(FG(F), NoFields) : F \in SUBSET {"f", "g"}}

(* Entries: one field, every modifier, one or two values.                    *)
Values == {Text("a.zip"), Text(".zip"), digits("7", 7), Number(5), Number(9), Null}

Lists == {<<v>> : v \in Values} \cup {<<>>, <<Text(".zip"), Number(5)>>,
             <<Number(9), Text(".zip")>>, <<digits("7", 7), Text("a.zip")>>}

EntryRules == {Rule([s \in {"a"} |-> <<Entry("f", m, l)>>], <<"a">>) :
                  m \in {"", "contains", "endswith", "gte", "lte", "regex"}, l \in Lists}

TwoEntries == Rule([s \in {"a", "b"} |->
                       IF s = "a" THEN <<Entry("g", "", <<Number(5)>>), Entry("f", "regex", <<Null>>)>>
                                  ELSE <<>>], <<"b">>)

Shapeless == [TwoEntries EXCEPT !.shaped = FALSE]

EntryDirectories == {<<r>> : r \in EntryRules}
    \cup {<<r, Rule([s \in {"a"} |-> <<>>], <<"a">>)>> :
              r \in {e \in EntryRules : e.selections["a"][1].modifier \in {"gte", "regex"}}}
    \cup {<<>>, <<TwoEntries>>, <<Shapeless>>}

F1(v) == [h \in {"f"} |-> v]

EntryLines == {Object(F1(v), NoFields) : v \in Values}
    \cup {Object(NoFields, F1(Number(5))), Object(F1(Null), F1(Number(5))),
          Object(F1(Text("a.zip")), [h \in {"g"} |-> Number(5)]),
          Line("object", TRUE, NoFields, NoFields, Odd, TRUE),
          Line("object", TRUE, NoFields, NoFields, Odd + 1, TRUE),
          Line("object", FALSE, NoFields, NoFields, Unheard, TRUE),
          Line("object", TRUE, NoFields, NoFields, Usual, FALSE),
          Blank, Junk, Scalar}

AllDirectories == ConditionDirectories \cup EntryDirectories

LinesFor(d) == IF d \in ConditionDirectories THEN ConditionLines ELSE EntryLines

(* An ordinary fit, training events that all look alike, and none at all.     *)
Ranges == {<<10, 90>>, <<50, 50>>, EmptyCorpus}
============================================================================
