---------------------------- MODULE ParserProofs ----------------------------
(***************************************************************************)
(* Proofs of the parser's accounting and order for any lines, any pipe and *)
(* any number of lines, with the enrichment of an event left unexpanded.   *)
(***************************************************************************)
EXTENDS Parser, SequenceTheorems, FiniteSetTheorems, TLAPS

\* What may be in the output, enriched or torn.
Records == [line : Nat, event : {Enrich(l) : l \in Lines}, whole : BOOLEAN]

Typed ==
    /\ pc \in {"read", "write", "ended", "killed"}
    /\ input \in Seq(Lines)
    /\ total \in Nat /\ errors \in Nat
    /\ out \in Seq(Records)

\* What the output rests on: a line is being written only if it is acceptable
\* and none after the ones written.
Awaited ==
    pc = "write" => /\ input # <<>> /\ Acceptable(Current)
                    /\ \A k \in 1..Len(out) : out[k].line < Len(input)

\* The lines of text, and those among them that are counted as errors.
Texts == {i \in 1..Len(input) : input[i].kind = "text"}

Faulty == {i \in 1..Len(input) : input[i].kind = "text" /\ ~Acceptable(input[i])}

\* The counters of main can be compared.
Settled == Running \/ (pc = "ended" /\ (code = 0 \/ reader))

Accounted ==
    /\ errors = Cardinality(Faulty)
    /\ Settled => Cardinality(Texts) = total + errors + Cardinality(Pending)

\* The inductive invariant.
IInv == Typed /\ Awaited /\ OutputFollowsInput /\ EveryLineAccounted

-----------------------------------------------------------------------------

\* A sequence that grows by one element.
LEMMA AppendFacts ==
    ASSUME NEW S, NEW s \in Seq(S), NEW e \in S
    PROVE  /\ Append(s, e) \in Seq(S)
           /\ Len(s) \in Nat
           /\ Len(Append(s, e)) = Len(s) + 1
           /\ \A i \in 1..Len(s) : Append(s, e)[i] = s[i]
           /\ Append(s, e)[Len(s) + 1] = e
  OBVIOUS

\* A finite set of positions that gains the next one gains one.
LEMMA OneMore ==
    ASSUME NEW n \in Nat, NEW S \in SUBSET (1..n)
    PROVE  /\ Cardinality(S) \in Nat
           /\ Cardinality(S \cup {n + 1}) = Cardinality(S) + 1
  <1>1. IsFiniteSet(1..n)
    BY FS_Interval
  <1>2. IsFiniteSet(S)
    BY <1>1, FS_Subset
  <1>3. n + 1 \notin S
    OBVIOUS
  <1> QED
    BY <1>2, <1>3, FS_AddElement, FS_CardinalityType

\* While a line is being written one line is pending, else none.
LEMMA PendingCount ==
    /\ pc = "write" => Cardinality(Pending) = 1
    /\ pc # "write" => Cardinality(Pending) = 0
  BY FS_Singleton, FS_EmptySet DEF Pending

\* EveryLineAccounted, with its sets named.
LEMMA Accounts == EveryLineAccounted <=> Accounted
  <1>1. {i \in Texts : ~Acceptable(input[i])} = Faulty
    BY DEF Texts, Faulty
  <1> QED
    BY <1>1, Zenon DEF EveryLineAccounted, Accounted, Settled, Texts

-----------------------------------------------------------------------------

\* Nothing is read, written or counted at the start.
LEMMA InitIInv == Init => IInv
  <1> SUFFICES ASSUME Init PROVE IInv
    OBVIOUS
  <1>1. pc = "read" /\ input = <<>> /\ out = <<>> /\ total = 0 /\ errors = 0
    BY DEF Init
  <1>2. Typed /\ Awaited /\ OutputFollowsInput
    BY <1>1 DEF Typed, Awaited, OutputFollowsInput
  <1>3. Texts = {} /\ Faulty = {}
    BY <1>1 DEF Texts, Faulty
  <1>4. EveryLineAccounted
    BY <1>1, <1>3, PendingCount, FS_EmptySet, Accounts DEF Accounted
  <1> QED
    BY <1>2, <1>4 DEF IInv

\* A line that is read is dropped, counted or pending.
LEMMA ReadKeeps ==
    ASSUME IInv, ReadLine
    PROVE  IInv'
  <1> SUFFICES ASSUME NEW n \in Nat, n = Len(input)
               PROVE  IInv'
    BY DEF IInv, Typed
  <1>1. PICK l \in Lines : input' = Append(input, l) /\ Handle(l)
    BY DEF ReadLine
  <1>2. /\ pc = "read" /\ UNCHANGED <<total, out, taken, reader>>
        /\ input \in Seq(Lines) /\ out \in Seq(Records) /\ Len(out) \in Nat
        /\ total \in Nat /\ errors \in Nat
    BY DEF ReadLine, IInv, Typed
  <1>3. /\ input' \in Seq(Lines) /\ Len(input') = n + 1
        /\ \A i \in 1..n : input'[i] = input[i]
        /\ input'[n + 1] = l
    BY <1>1, <1>2, AppendFacts
  <1>4. \A i \in 1..n+1 : i \in 1..n \/ i = n + 1
    OBVIOUS
  <1>5. /\ pc' \in {"read", "write", "ended"} /\ errors' \in Nat
        /\ Acceptable(l) => pc' = "write"
        /\ pc' = "write" => Acceptable(l)
    BY <1>1, <1>2 DEF Handle, Acceptable, Decodes
  <1>6. Typed'
    BY <1>2, <1>3, <1>5 DEF Typed
  <1>7. \A k \in 1..Len(out) : out[k].line \in 1..n
    BY DEF IInv, OutputFollowsInput
  <1>8. Awaited'
    <2>1. input' # <<>> /\ Current' = l
      BY <1>3 DEF Current
    <2>2. \A k \in 1..Len(out) : out[k].line < n + 1
      BY <1>7
    <2> QED
      BY <1>2, <1>3, <1>5, <2>1, <2>2 DEF Awaited
  <1>9. OutputFollowsInput'
    <2> DEFINE A == {i \in 1..n : Acceptable(input[i])}
               B == {i \in 1..n+1 : Acceptable(input'[i])}
    <2>1. /\ \A j, k \in 1..Len(out) : j < k => out[j].line < out[k].line
          /\ \A k \in 1..Len(out) : out[k].line \in A
          /\ \A i \in A : \E k \in 1..Len(out) : out[k].line = i
          /\ \A k \in 1..Len(out) : out[k].whole
      BY <1>2 DEF IInv, OutputFollowsInput
    <2>2. A \subseteq B /\ \A i \in B : i \in A \/ (i = n + 1 /\ Acceptable(l))
      BY <1>3, <1>4
    <2>3. B = {i \in 1..Len(input) : Acceptable(input[i])}'
      BY <1>3
    <2> HIDE DEF A, B
    <2> QED
      BY <1>2, <1>3, <1>5, <2>1, <2>2, <2>3 DEF OutputFollowsInput
  <1>10. EveryLineAccounted'
    <2>1. Texts' = IF l.kind = "text" THEN Texts \cup {n + 1} ELSE Texts
      BY <1>3, <1>4 DEF Texts
    <2>2. Faulty' = IF l.kind = "text" /\ ~Acceptable(l) THEN Faulty \cup {n + 1} ELSE Faulty
      BY <1>3, <1>4 DEF Faulty, Acceptable, Decodes, Dated
    <2>3. Texts \in SUBSET (1..n) /\ Faulty \in SUBSET (1..n)
      BY DEF Texts, Faulty
    <2>4. /\ Cardinality(Texts) \in Nat /\ Cardinality(Texts \cup {n + 1}) = Cardinality(Texts) + 1
          /\ Cardinality(Faulty \cup {n + 1}) = Cardinality(Faulty) + 1
      BY <2>3, OneMore
    <2>5. errors = Cardinality(Faulty) /\ Cardinality(Texts) = total + errors
      <3>1. Accounted /\ Settled
        BY <1>2, Accounts DEF IInv, Settled, Running
      <3>2. Cardinality(Pending) = 0
        BY <1>2, PendingCount
      <3> QED
        BY <1>2, <3>1, <3>2 DEF Accounted
    <2>6. /\ pc' = "write" => Cardinality(Pending)' = 1
          /\ pc' # "write" => Cardinality(Pending)' = 0
      BY FS_Singleton, FS_EmptySet DEF Pending
    <2>7. \/ l.kind # "text" /\ pc' # "write" /\ errors' = errors
          \/ l.kind = "text" /\ ~Acceptable(l) /\ pc' = "read" /\ errors' = errors + 1
          \/ l.kind = "text" /\ Acceptable(l) /\ pc' = "write" /\ errors' = errors
      BY <1>1, <1>2 DEF Handle, Decodes, Acceptable
    <2>8. /\ errors' = Cardinality(Faulty')
          /\ Cardinality(Texts') = total' + errors' + Cardinality(Pending)'
      BY <1>2, <2>1, <2>2, <2>4, <2>5, <2>6, <2>7
    <2>9. Accounted'
      BY <2>8 DEF Accounted
    <2> QED
      BY <2>9, Accounts, PTL
  <1> QED
    BY <1>6, <1>8, <1>9, <1>10 DEF IInv

\* The record of the pending line goes behind all others.
LEMMA RecordAdded ==
    ASSUME IInv, pc = "write", NEW whole \in BOOLEAN,
           out' = Append(out, Enriched(whole)), UNCHANGED input
    PROVE  LET A == {i \in 1..Len(input) : Acceptable(input[i])}
           IN  /\ out' \in Seq(Records)
               /\ \A j, k \in 1..Len(out') : j < k => out'[j].line < out'[k].line
               /\ \A k \in 1..Len(out') : out'[k].line \in A
               /\ \A i \in A : \E k \in 1..Len(out') : out'[k].line = i
               /\ \A k \in 1..Len(out') : ~out'[k].whole => k = Len(out') /\ ~whole
  <1> DEFINE A == {i \in 1..Len(input) : Acceptable(input[i])}
  <1> SUFFICES ASSUME NEW n \in Nat, n = Len(input), NEW m \in Nat, m = Len(out),
                      NEW e, e = Enriched(whole)
               PROVE  /\ out' \in Seq(Records)
                      /\ \A j, k \in 1..Len(out') : j < k => out'[j].line < out'[k].line
                      /\ \A k \in 1..Len(out') : out'[k].line \in A
                      /\ \A i \in A : \E k \in 1..Len(out') : out'[k].line = i
                      /\ \A k \in 1..Len(out') : ~out'[k].whole => k = Len(out') /\ ~whole
    BY DEF IInv, Typed
  <1>1. input \in Seq(Lines) /\ out \in Seq(Records) /\ out' = Append(out, e)
    BY DEF IInv, Typed
  <1>2. input # <<>> /\ Acceptable(input[n]) /\ \A k \in 1..m : out[k].line < n
    BY DEF IInv, Awaited, Current
  <1>3. n \in 1..n
    BY <1>1, <1>2
  <1>4. e.line = n /\ e.whole = whole
    BY DEF Enriched
  <1>5. e \in Records
    <2>1. input[n] \in Lines
      BY <1>1, <1>3
    <2>2. Enrich(input[n]) \in {Enrich(l) : l \in Lines}
      BY <2>1
    <2>3. e = [line |-> n, event |-> Enrich(input[n]), whole |-> whole]
      BY DEF Enriched, Current
    <2> QED
      BY <2>2, <2>3 DEF Records
  <1>6. /\ out' \in Seq(Records) /\ Len(out') = m + 1
        /\ \A k \in 1..m : out'[k] = out[k]
        /\ out'[m + 1] = e
    BY <1>1, <1>5, AppendFacts
  <1>7. \A k \in 1..m+1 : k \in 1..m \/ k = m + 1
    OBVIOUS
  <1>8. /\ \A j, k \in 1..m : j < k => out[j].line < out[k].line
        /\ \A k \in 1..m : out[k].line \in A
        /\ \A i \in A : (\E k \in 1..m : out[k].line = i) \/ i = n
        /\ \A k \in 1..m : out[k].whole
    BY DEF IInv, OutputFollowsInput
  <1>9. n \in A
    BY <1>2, <1>3
  <1> HIDE DEF A
  <1>10. ASSUME NEW j \in 1..m+1, NEW k \in 1..m+1, j < k
         PROVE  out'[j].line < out'[k].line
    <2>1. j \in 1..m
      BY <1>10
    <2>2. CASE k \in 1..m
      BY <1>6, <1>8, <1>10, <2>1, <2>2
    <2>3. CASE k = m + 1
      BY <1>2, <1>4, <1>6, <2>1, <2>3
    <2> QED
      BY <1>7, <2>2, <2>3
  <1>11. \A k \in 1..m+1 : out'[k].line \in A
    BY <1>4, <1>6, <1>7, <1>8, <1>9
  <1>12. \A i \in A : \E k \in 1..m+1 : out'[k].line = i
    <2>1. m + 1 \in 1..m+1 /\ \A k \in 1..m : k \in 1..m+1
      OBVIOUS
    <2> QED
      BY <1>4, <1>6, <1>8, <2>1
  <1>13. \A k \in 1..m+1 : ~out'[k].whole => k = m + 1 /\ ~whole
    BY <1>4, <1>6, <1>7, <1>8
  <1> QED
    BY <1>6, <1>10, <1>11, <1>12, <1>13

\* Writing the pending line makes it an output line.
LEMMA WriteKeeps ==
    ASSUME IInv, WriteLine
    PROVE  IInv'
  <1>1. /\ pc = "write" /\ reader /\ pc' = "read"
        /\ UNCHANGED <<input, errors, reader>> /\ total' = total + 1
        /\ out' = Append(out, Enriched(TRUE))
        /\ total \in Nat /\ errors \in Nat
    BY DEF WriteLine, IInv, Typed
  <1> DEFINE A == {i \in 1..Len(input) : Acceptable(input[i])}
  <1>2. /\ out' \in Seq(Records)
        /\ \A j, k \in 1..Len(out') : j < k => out'[j].line < out'[k].line
        /\ \A k \in 1..Len(out') : out'[k].line \in A
        /\ \A i \in A : \E k \in 1..Len(out') : out'[k].line = i
        /\ \A k \in 1..Len(out') : out'[k].whole
    BY <1>1, RecordAdded
  <1>3. Typed' /\ Awaited'
    <2>1. Awaited'
      BY <1>1 DEF Awaited
    <2>2. total' \in Nat /\ input' \in Seq(Lines)
      BY <1>1 DEF IInv, Typed
    <2> QED
      BY <1>1, <1>2, <2>1, <2>2 DEF Typed
  <1>4. OutputFollowsInput'
    <2>1. A' = A
      BY <1>1
    <2> HIDE DEF A
    <2> QED
      BY <1>2, <2>1 DEF OutputFollowsInput, A
  <1>5. EveryLineAccounted'
    <2>1. Accounted /\ Settled
      BY <1>1, Accounts DEF IInv, Settled, Running
    <2>2. Cardinality(Pending) = 1 /\ Cardinality(Pending)' = 0
      <3>1. Cardinality(Pending)' = 0
        BY <1>1, FS_EmptySet DEF Pending
      <3> QED
        BY <1>1, <3>1, PendingCount
    <2>3. Texts' = Texts /\ Faulty' = Faulty
      BY <1>1 DEF Texts, Faulty, Acceptable, Decodes, Dated
    <2>4. Accounted'
      BY <1>1, <2>1, <2>2, <2>3 DEF Accounted
    <2> QED
      BY <2>4, Accounts, PTL
  <1> QED
    BY <1>3, <1>4, <1>5 DEF IInv

\* A signal may leave half of the pending line behind.
LEMMA KillKeeps ==
    ASSUME IInv, Kill
    PROVE  IInv'
  <1>1. /\ pc' = "killed" /\ UNCHANGED <<input, total, errors>> /\ pc # "killed"
        /\ UNCHANGED out \/ (pc = "write" /\ out' = Append(out, Enriched(FALSE)))
    BY DEF Kill, Running
  <1>2. Awaited' /\ EveryLineAccounted'
    <2>1. Faulty' = Faulty
      BY <1>1 DEF Faulty, Acceptable, Decodes, Dated
    <2>2. Accounted
      BY Accounts DEF IInv
    <2>3. Accounted'
      BY <1>1, <2>1, <2>2 DEF Accounted, Settled, Running
    <2>4. Awaited'
      BY <1>1 DEF Awaited
    <2> QED
      BY <2>3, <2>4, Accounts, PTL
  <1> DEFINE A == {i \in 1..Len(input) : Acceptable(input[i])}
  <1>3. A' = A
    BY <1>1
  <1>4. CASE UNCHANGED out
    <2>1. /\ \A j, k \in 1..Len(out) : j < k => out[j].line < out[k].line
          /\ \A k \in 1..Len(out) : out[k].line \in A
          /\ \A i \in A : \/ \E k \in 1..Len(out) : out[k].line = i
                          \/ i = Len(input) /\ pc # "read"
          /\ \A k \in 1..Len(out) : out[k].whole
      BY <1>1 DEF IInv, OutputFollowsInput
    <2>2. Typed'
      BY <1>1, <1>4 DEF IInv, Typed
    <2> HIDE DEF A
    <2>3. OutputFollowsInput'
      BY <1>1, <1>3, <1>4, <2>1 DEF OutputFollowsInput, A
    <2> QED
      BY <1>2, <2>2, <2>3 DEF IInv
  <1>5. CASE pc = "write" /\ out' = Append(out, Enriched(FALSE))
    <2>1. /\ out' \in Seq(Records)
          /\ \A j, k \in 1..Len(out') : j < k => out'[j].line < out'[k].line
          /\ \A k \in 1..Len(out') : out'[k].line \in A
          /\ \A i \in A : \E k \in 1..Len(out') : out'[k].line = i
          /\ \A k \in 1..Len(out') : ~out'[k].whole => k = Len(out')
      BY <1>1, <1>5, RecordAdded
    <2>2. Typed'
      BY <1>1, <2>1 DEF IInv, Typed
    <2> HIDE DEF A
    <2>3. OutputFollowsInput'
      BY <1>1, <1>3, <2>1 DEF OutputFollowsInput, A
    <2> QED
      BY <1>2, <2>2, <2>3 DEF IInv
  <1> QED
    BY <1>1, <1>4, <1>5

\* What ends the process by itself, and the next stage, write nothing.
LEMMA QuietKeeps ==
    ASSUME IInv, EndOfInput \/ WriteFails \/ TakeLine \/ ReaderDies \/ UNCHANGED vars
    PROVE  IInv'
  <1>1. /\ UNCHANGED <<input, total, errors, out>>
        /\ pc' = pc \/ (pc # "killed" /\ pc' = "ended")
        /\ reader' => reader
        /\ pc = "write" /\ pc' = "ended" => ~reader' /\ code' = 1
        /\ pc' = pc => code' = code
    BY DEF EndOfInput, WriteFails, TakeLine, ReaderDies, vars, IInv, Typed
  <1>2. Typed'
    BY <1>1 DEF IInv, Typed
  <1>3. Awaited'
    BY <1>1 DEF IInv, Awaited, Current
  <1>4. OutputFollowsInput'
    <2> DEFINE A == {i \in 1..Len(input) : Acceptable(input[i])}
    <2>1. A' = A
      BY <1>1
    <2>2. /\ \A j, k \in 1..Len(out) : j < k => out[j].line < out[k].line
          /\ \A k \in 1..Len(out) : out[k].line \in A
          /\ \A i \in A : \/ \E k \in 1..Len(out) : out[k].line = i
                          \/ i = Len(input) /\ pc # "read" /\ ~(pc = "ended" /\ code = 0)
          /\ \A k \in 1..Len(out) : ~out[k].whole => k = Len(out) /\ pc = "killed"
      BY DEF IInv, OutputFollowsInput
    <2>3. /\ pc' # pc => pc # "killed" /\ pc' # "read"
          /\ pc # "read" /\ pc' = "ended" /\ code' = 0 => pc = "ended" /\ code = 0
      BY <1>1 DEF IInv, Typed
    <2> HIDE DEF A
    <2> QED
      BY <1>1, <2>1, <2>2, <2>3 DEF OutputFollowsInput, A
  <1>5. EveryLineAccounted'
    <2>1. Texts' = Texts /\ Faulty' = Faulty
      BY <1>1 DEF Texts, Faulty, Acceptable, Decodes, Dated
    <2>2. Settled' => Settled /\ Pending' = Pending
      BY <1>1 DEF Settled, Running, Pending, IInv, Typed
    <2>3. Accounted
      BY Accounts DEF IInv
    <2>4. Accounted'
      BY <1>1, <2>1, <2>2, <2>3 DEF Accounted
    <2> QED
      BY <2>4, Accounts, PTL
  <1> QED
    BY <1>2, <1>3, <1>4, <1>5 DEF IInv

\* IInv always holds.
LEMMA Inductive == Spec => []IInv
  <1>1. IInv /\ [Next]_vars => IInv'
    BY ReadKeeps, WriteKeeps, KillKeeps, QuietKeeps DEF Next
  <1> QED
    BY <1>1, InitIInv, PTL DEF Spec

-----------------------------------------------------------------------------
(* What a record holds, and the pipe.                                      *)

Faithful == \A k \in 1..Len(out) : out[k].event = Enrich(input[out[k].line])

Channel ==
    /\ code \in {0, 1} /\ reader \in BOOLEAN
    /\ taken \in 0..Len(out) /\ Len(out) - taken =< PipeCap

\* A record that is written is the enriched form of the line it came from.
LEMMA NextFaithful ==
    ASSUME IInv, Faithful, [Next]_vars
    PROVE  Faithful'
  <1>1. /\ input \in Seq(Lines) /\ Len(input) \in Nat
        /\ out \in Seq(Records) /\ Len(out) \in Nat
        /\ \A k \in 1..Len(out) : out[k].line \in 1..Len(input)
    BY DEF IInv, Typed, OutputFollowsInput
  <1>2. CASE ReadLine
    <2>1. PICK l \in Lines : input' = Append(input, l)
      BY <1>2 DEF ReadLine
    <2>2. out' = out
      BY <1>2 DEF ReadLine
    <2>3. \A i \in 1..Len(input) : input'[i] = input[i]
      BY <1>1, <2>1, AppendFacts
    <2> QED
      BY <1>1, <2>2, <2>3 DEF Faithful
  <1>3. CASE UNCHANGED <<input, out>>
    BY <1>3 DEF Faithful
  <1>4. ASSUME NEW whole \in BOOLEAN, pc = "write", UNCHANGED input,
               out' = Append(out, Enriched(whole))
        PROVE  Faithful'
    <2> SUFFICES ASSUME NEW n \in Nat, n = Len(input), NEW m \in Nat, m = Len(out),
                        NEW e, e = Enriched(whole)
                 PROVE  Faithful'
      BY <1>1
    <2>1. e.line = n /\ e.event = Enrich(input[n]) /\ e.whole = whole
      BY DEF Enriched, Current
    <2>2. n \in 1..n
      BY <1>1, <1>4 DEF IInv, Awaited
    <2>3. e \in Records
      <3>1. e = [line |-> n, event |-> Enrich(input[n]), whole |-> whole]
        BY DEF Enriched, Current
      <3>2. input[n] \in Lines
        BY <1>1, <2>2
      <3>3. Enrich(input[n]) \in {Enrich(l) : l \in Lines}
        BY <3>2
      <3> QED
        BY <3>1, <3>3 DEF Records
    <2>4. /\ Len(out') = m + 1
          /\ \A k \in 1..m : out'[k] = out[k]
          /\ out'[m + 1] = e
      BY <1>1, <1>4, <2>3, AppendFacts
    <2>5. \A k \in 1..m+1 : k \in 1..m \/ k = m + 1
      OBVIOUS
    <2>6. \A k \in 1..m+1 : out'[k].event = Enrich(input[out'[k].line])
      BY <2>1, <2>4, <2>5 DEF Faithful
    <2> QED
      BY <1>4, <2>4, <2>6 DEF Faithful
  <1>5. CASE WriteLine
    BY <1>4, <1>5 DEF WriteLine
  <1>6. CASE Kill
    BY <1>3, <1>4, <1>6 DEF Kill
  <1>7. CASE EndOfInput \/ WriteFails \/ TakeLine \/ ReaderDies \/ UNCHANGED vars
    BY <1>3, <1>7 DEF EndOfInput, WriteFails, TakeLine, ReaderDies, vars
  <1> QED
    BY <1>2, <1>5, <1>6, <1>7 DEF Next

\* The pipe never holds more than it can.
LEMMA NextChannel ==
    ASSUME IInv, IInv', Channel, [Next]_vars
    PROVE  Channel'
  <1> SUFFICES ASSUME NEW m \in Nat, m = Len(out)
               PROVE  Channel'
    BY DEF IInv, Typed
  <1>1. /\ taken \in 0..m /\ m - taken =< PipeCap /\ code \in {0, 1} /\ reader \in BOOLEAN
        /\ PipeCap \in Nat /\ out \in Seq(Records)
    BY ParserAssumption DEF Channel, IInv, Typed
  <1>2. ASSUME NEW e, out' = Append(out, e), m - taken < PipeCap,
               UNCHANGED <<code, taken, reader>>
        PROVE  Channel'
    <2>1. Len(out') = m + 1
      BY <1>1, <1>2
    <2> QED
      BY <1>1, <1>2, <2>1 DEF Channel
  <1>3. CASE WriteLine
    BY <1>2, <1>3 DEF WriteLine
  <1>4. CASE Kill
    <2>1. CASE UNCHANGED out
      BY <1>1, <1>4, <2>1 DEF Kill, Channel
    <2> QED
      BY <1>2, <1>4, <2>1 DEF Kill
  <1>5. CASE TakeLine
    <2>1. UNCHANGED <<code, out, reader>> /\ taken < m /\ taken' = taken + 1
      BY <1>5 DEF TakeLine
    <2> QED
      BY <1>1, <2>1 DEF Channel
  <1>6. CASE ReadLine
    BY <1>1, <1>6 DEF ReadLine, Handle, Channel
  <1>7. CASE EndOfInput \/ WriteFails \/ ReaderDies \/ UNCHANGED vars
    BY <1>1, <1>7 DEF EndOfInput, WriteFails, ReaderDies, vars, Channel
  <1> QED
    BY <1>3, <1>4, <1>5, <1>6, <1>7 DEF Next

\* Both always hold.
LEMMA RestInductive == Spec => [](IInv /\ Faithful /\ Channel)
  <1>1. Init => Faithful /\ Channel
    <2> SUFFICES ASSUME Init PROVE Faithful /\ Channel
      OBVIOUS
    <2>1. out = <<>> /\ taken = 0 /\ code = 0 /\ reader = TRUE
      BY DEF Init
    <2> QED
      BY <2>1, ParserAssumption DEF Faithful, Channel
  <1>2. IInv /\ [Next]_vars => IInv'
    BY ReadKeeps, WriteKeeps, KillKeeps, QuietKeeps DEF Next
  <1>3. IInv /\ IInv' /\ Faithful /\ Channel /\ [Next]_vars => Faithful' /\ Channel'
    BY NextFaithful, NextChannel
  <1> QED
    BY <1>1, <1>2, <1>3, InitIInv, PTL DEF Spec

\* The fields of an enriched event.
LEMMA EnrichFields ==
    ASSUME NEW l
    PROVE  /\ Enrich(l)["ts"] = Ts(l)
           /\ Enrich(l)["event_class"] = Text(Classify(l))
           /\ Enrich(l)["severity"] = Text(Severity(l.raw))
           /\ \A f \in StringFields : Enrich(l)[f] = StringField(l.raw, f)
           /\ \A f \in PortFields : Enrich(l)[f] = U16Field(l.raw, f)
  BY DEF Enrich, StringFields, PortFields

\* A port is a number of 16 bits that was there before, or null.
LEMMA PortKept ==
    ASSUME NEW raw, NEW f
    PROVE  /\ U16Field(raw, f) \in {Null, Get(raw, f)}
           /\ U16Field(raw, f) = Null
                \/ (~U16Field(raw, f).str /\ U16Field(raw, f).num \in U16)
  BY DEF U16Field

\* Enriching fills in only what was there.
LEMMA FieldsKept ==
    ASSUME NEW l, NEW f \in StringFields \cup PortFields
    PROVE  Enrich(l)[f] \in {Null, Get(l.raw, f)}
  <1>1. CASE f \in StringFields
    BY <1>1, EnrichFields, Zenon DEF StringField
  <1>2. CASE f \in PortFields
    BY <1>2, EnrichFields, PortKept, Zenon
  <1> QED
    BY <1>1, <1>2

\* Whatever a payload says, the class and the severity of the enriched event
\* are ones that the schema lists, and its ports are ports.
LEMMA EnrichTypes ==
    ASSUME NEW l, Dated(l)
    PROVE  EnrichedType(Enrich(l))
  <1> SUFFICES ASSUME NEW e, e = Enrich(l)
               PROVE  EnrichedType(e)
    OBVIOUS
  <1>1. \A a : Text(a).str /\ Text(a).atom = a
    BY DEF Text, Value
  <1>2. Classify(l) \in Classes
    BY DEF Classify, Classes
  <1>3. Severity(l.raw) \in Severities
    <2>1. \A w \in DOMAIN Aliases : Aliases[w] \in Severities
      BY DEF Aliases, Severities
    <2>2. "info" \in Severities
      BY DEF Severities
    <2> QED
      BY <2>1, <2>2 DEF Severity
  <1>4. \E t \in Timestamps : Ts(l) = Text(Utc[t])
    BY DEF Dated, Ts
  <1>5. e["ts"].str /\ e["ts"].atom \in {Utc[t] : t \in Timestamps}
    <2>1. PICK t \in Timestamps : Ts(l) = Text(Utc[t])
      BY <1>4
    <2>2. e["ts"] = Text(Utc[t])
      BY <2>1, EnrichFields, Zenon
    <2> QED
      BY <1>1, <2>2, Zenon
  <1>6. /\ e["event_class"].str /\ e["event_class"].atom \in Classes
        /\ e["severity"].str /\ e["severity"].atom \in Severities
    BY <1>1, <1>2, <1>3, EnrichFields
  <1>7. \A f \in StringFields : e[f] = Null \/ e[f].str
    BY EnrichFields, Zenon DEF StringField
  <1>8. ASSUME NEW f \in PortFields
        PROVE  e[f] = Null \/ (~e[f].str /\ e[f].num \in U16)
    <2>1. e[f] = U16Field(l.raw, f)
      BY EnrichFields, Zenon
    <2>2. \/ U16Field(l.raw, f) = Null
          \/ ~U16Field(l.raw, f).str /\ U16Field(l.raw, f).num \in U16
      BY PortKept
    <2> QED
      BY <2>1, <2>2, Zenon
  <1> QED
    BY <1>5, <1>6, <1>7, <1>8, Zenon DEF EnrichedType

-----------------------------------------------------------------------------
(* The safety properties.                                                  *)

\* The errors main counts are the lines of text it could not decode or date;
\* unless it was killed or a write failed, every line of text was enriched,
\* counted as an error or is being written: main's two counters add up.
THEOREM LinesAccounted == Spec => []EveryLineAccounted
  <1>1. IInv => EveryLineAccounted
    BY DEF IInv
  <1> QED
    BY <1>1, Inductive, PTL

\* The output of main is the acceptable lines of stdin, in their order, each
\* once, whatever ends the process and when.
THEOREM OrderKept == Spec => []OutputFollowsInput
  <1>1. IInv => OutputFollowsInput
    BY DEF IInv
  <1> QED
    BY <1>1, Inductive, PTL

\* Every value that enrich writes is the value of the raw event or null.
THEOREM ValuesKept == Spec => []NothingMadeUp
  <1>1. IInv /\ Faithful => NothingMadeUp
    BY FieldsKept DEF Faithful, NothingMadeUp
  <1> QED
    BY <1>1, RestInductive, PTL

\* The types of main's state; every event written has a class, a severity, a
\* timestamp and ports as the schema wants them; the pipe is never overfull.
THEOREM TypeCorrect == Spec => []TypeOK
  <1>1. IInv /\ Faithful /\ Channel => TypeOK
    <2> SUFFICES ASSUME IInv, Faithful, Channel PROVE TypeOK
      OBVIOUS
    <2>1. ASSUME NEW k \in 1..Len(out)
          PROVE  out[k].line \in 1..Len(input) /\ EnrichedType(out[k].event)
      <3>1. out[k].line \in 1..Len(input) /\ Dated(input[out[k].line])
        BY DEF IInv, OutputFollowsInput, Acceptable
      <3> QED
        BY <3>1, EnrichTypes DEF Faithful
    <2> QED
      BY <2>1 DEF IInv, Typed, Channel, TypeOK
  <1> QED
    BY <1>1, RestInductive, PTL
=============================================================================
