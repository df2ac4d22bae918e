-------------------------------- MODULE Sigma --------------------------------
(***************************************************************************)
(* The rule engine of sentinel-detector (sigma.py): what a rule file must  *)
(* be to load, and what SigmaMatcher.match makes of an event: "yes", "no"  *)
(* or "raise" for the ValueError or TypeError that ends the process.       *)
(*                                                                         *)
(* Related lists which strings contain, start or end with which; a value   *)
(* is numeric here if float() takes it.                                    *)
(***************************************************************************)
EXTENDS Values, Sequences, SequencesExt

CONSTANTS Related,    \* <<modifier, s, t>>: the text modifier holds of s and t
          OddWords    \* words of a condition that are no name and no operator

TextModifiers == {"contains", "startswith", "endswith"}

Modifiers == TextModifiers \cup {"", "gte", "ge", "lte", "le"}

Operators == {"and", "or"}

Bool(b) == IF b THEN "yes" ELSE "no"

\* all() and any() stop at the first outcome that is not the neutral one; an
\* exception is such an outcome.
Until(outcomes, neutral) ==
    LET i == SelectInSeq(outcomes, LAMBDA o : o # neutral)
    IN  IF i = 0 THEN neutral ELSE outcomes[i]

-----------------------------------------------------------------------------
(* Loading: SigmaRule.from_yaml and _tokenize_condition.                   *)

\* Operators are recognised however they are cased; other words are kept.
Ands == {"and", "anD", "aNd", "aND", "And", "AnD", "ANd", "AND"}
Ors == {"or", "oR", "Or", "OR"}
Nots == {"not", "noT", "nOt", "nOT", "Not", "NoT", "NOt", "NOT"}

Token(word) == CASE word \in Ands -> "and" [] word \in Ors -> "or"
                 [] word \in Nots -> "not" [] OTHER -> word

Tokens(rule) == [i \in 1..Len(rule.condition) |-> Token(rule.condition[i])]

\* A rule file loads if it has the shape of a rule, its condition is not empty
\* and the tokenizer knows every word of it.  That the condition parses, that
\* the selections it names exist and that the modifiers do is not looked at.
Loads(rule) ==
    /\ rule.shaped
    /\ rule.condition # <<>>
    /\ \A i \in 1..Len(rule.condition) : rule.condition[i] \notin OddWords

\* A rule as the YAML reader hands it over: the condition, the entries of a
\* selection and the values of an entry are lists.
IsRule(rule) ==
    /\ Len(rule.condition) \in Nat
    /\ \A s \in DOMAIN rule.selections :
          /\ Len(rule.selections[s]) \in Nat
          /\ \A i \in 1..Len(rule.selections[s]) : Len(rule.selections[s][i].values) \in Nat

-----------------------------------------------------------------------------
(* Plausible mistakes in the code; nothing else uses them.                 *)

\* The bound of a rule is not checked for None, nor is the event's value.
CompareUnguarded(actual, modifier, expected) ==
    CASE modifier = "" -> Bool(actual = expected)
      [] modifier \in TextModifiers ->
            Bool(actual.str /\ expected.str
                   /\ <<modifier, actual.atom, expected.atom>> \in Related)
      [] modifier \in {"gte", "ge"} ->
            IF actual.numeric /\ expected.numeric
            THEN Bool(actual.num >= expected.num) ELSE "raise"
      [] modifier \in {"lte", "le"} ->
            IF actual.numeric /\ expected.numeric
            THEN Bool(actual.num =< expected.num) ELSE "raise"
      [] OTHER -> "raise"

\* "and" and "or" are swapped.
CombineSwapped(op, left, right) == IF op = "or" THEN left /\ right ELSE left \/ right

-----------------------------------------------------------------------------
(* Matching.                                                               *)

\* event.get(field, raw.get(field)): a null at the top level hides the payload.
Lookup(event, field) ==
    IF field \in DOMAIN event.top THEN event.top[field] ELSE Get(event.raw, field)

\* _field_matches for a value that is not a list.
Compare(actual, modifier, expected) ==
    CASE actual = Null -> "no"
      [] actual # Null /\ modifier = "" -> Bool(actual = expected)
      [] actual # Null /\ modifier \in TextModifiers ->
            Bool(actual.str /\ expected.str
                   /\ <<modifier, actual.atom, expected.atom>> \in Related)
      [] actual # Null /\ modifier \in {"gte", "ge"} ->
            IF ~actual.numeric THEN "no"
            ELSE IF expected.numeric THEN Bool(actual.num >= expected.num) ELSE "raise"
      [] actual # Null /\ modifier \in {"lte", "le"} ->
            IF ~actual.numeric THEN "no"
            ELSE IF expected.numeric THEN Bool(actual.num =< expected.num) ELSE "raise"
      [] OTHER -> "raise"

AnyOf(outcomes) == Until(outcomes, "no")

\* An entry of a selection is a field, a modifier and the values it accepts.
FieldMatches(event, entry) ==
    AnyOf([i \in 1..Len(entry.values) |->
              Compare(Lookup(event, entry.field), entry.modifier, entry.values[i])])

SelectionMatches(selection, event) ==
    Until([i \in 1..Len(selection) |-> FieldMatches(event, selection[i])], "yes")

Combine(op, left, right) == IF op = "and" THEN left /\ right ELSE left \/ right

\* No term: parse_term raises.
Fault == [ok |-> FALSE]

\* The term behind a "not".
Negated(t) == IF t.ok THEN [t EXCEPT !.value = ~@] ELSE t

\* _eval_condition: the term that starts at a position, a name behind any number
\* of "not", and where it ends.
Terms(tokens, sels) ==
    LET n == Len(tokens)
        term[p \in 1..n+1] ==
            IF p > n \/ tokens[p] \in Operators THEN Fault
            ELSE IF tokens[p] = "not" THEN Negated(term[p + 1])
            ELSE IF tokens[p] \in DOMAIN sels
            THEN [ok |-> TRUE, value |-> sels[tokens[p]], next |-> p + 1]
            ELSE Fault
    IN  term

\* What becomes of the value so far at the end of a term: "and" and "or" bind
\* alike and to the left.
Rests(tokens, sels) ==
    LET n == Len(tokens)
        term == Terms(tokens, sels)
        rest[p \in 1..n+1] ==
            [left \in BOOLEAN |->
                IF p > n THEN Bool(left)
                ELSE IF tokens[p] \notin Operators \/ ~term[p + 1].ok THEN "raise"
                ELSE rest[term[p + 1].next][Combine(tokens[p], left, term[p + 1].value)]]
    IN  rest

EvalCondition(tokens, sels) ==
    LET first == Terms(tokens, sels)[1]
    IN  IF first.ok THEN Rests(tokens, sels)[first.next][first.value] ELSE "raise"

\* SigmaMatcher.match: every selection is evaluated, whether or not the
\* condition names it.
Match(rule, event) ==
    LET sel == [s \in DOMAIN rule.selections |-> SelectionMatches(rule.selections[s], event)]
    IN  IF \E s \in DOMAIN sel : sel[s] = "raise" THEN "raise"
        ELSE EvalCondition(Tokens(rule), [s \in DOMAIN sel |-> sel[s] = "yes"])

-----------------------------------------------------------------------------
(* What a rule means, stated without the algorithm.                        *)

Fits(actual, modifier, v) ==
    /\ actual # Null
    /\ \/ modifier = "" /\ actual = v
       \/ /\ modifier \in TextModifiers /\ actual.str /\ v.str
          /\ <<modifier, actual.atom, v.atom>> \in Related
       \/ /\ actual.numeric /\ v.numeric
          /\ \/ modifier \in {"gte", "ge"} /\ actual.num >= v.num
             \/ modifier \in {"lte", "le"} /\ actual.num =< v.num

\* Every entry of the selection accepts the event by one of its values.
Selects(selection, event) ==
    \A i \in 1..Len(selection) :
        \E j \in 1..Len(selection[i].values) :
            Fits(Lookup(event, selection[i].field), selection[i].modifier,
                 selection[i].values[j])

\* The selections a condition can name: one that is called like an operator
\* cannot be reached.
Names(rule) == DOMAIN rule.selections \ (Operators \cup {"not"})

\* A condition is well formed if every word may follow the one before it.
WellFormed(rule) ==
    LET t == Tokens(rule)
        n == Len(t)
    IN  /\ n > 0
        /\ \A i \in 1..n : t[i] \in Names(rule) \cup Operators \cup {"not"}
        /\ t[1] \notin Operators /\ t[n] \in Names(rule)
        /\ \A i \in 1..n-1 : t[i] \in Names(rule) <=> t[i+1] \in Operators

\* The "not"s right before position k.
NotsBefore(t, k) == {i \in 1..k-1 : \A j \in i..k-1 : t[j] = "not"}

\* The term that ends at k is true.
TermHolds(rule, event, t, k) ==
    Selects(rule.selections[t[k]], event) <=> Cardinality(NotsBefore(t, k)) % 2 = 0

\* The operator before the term that ends at k; the first term has none.
OperatorBefore(t, k) ==
    LET i == k - Cardinality(NotsBefore(t, k)) - 1
    IN  IF i = 0 THEN "or" ELSE t[i]

\* Some term is true that stands first or behind an "or", and no later "and"
\* takes it back.
Means(rule, event) ==
    LET t == Tokens(rule)
        ends == {k \in 1..Len(t) : t[k] \in Names(rule)}
    IN  \E k \in ends :
            /\ OperatorBefore(t, k) = "or"
            /\ TermHolds(rule, event, t, k)
            /\ \A j \in ends : (j > k /\ OperatorBefore(t, j) = "and") =>
                                    TermHolds(rule, event, t, j)

\* A rule that can be matched against any event without an exception.
Sound(rule) ==
    /\ WellFormed(rule)
    /\ \A s \in DOMAIN rule.selections : \A i \in 1..Len(rule.selections[s]) :
          LET entry == rule.selections[s][i] IN
          /\ entry.modifier \in Modifiers
          /\ entry.modifier \in Modifiers \ (TextModifiers \cup {""}) =>
                \A j \in 1..Len(entry.values) : entry.values[j].numeric
============================================================================
