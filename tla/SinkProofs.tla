---------------------------- MODULE SinkProofs ----------------------------
(***************************************************************************)
(* Proofs about Sink for every batch size, channel capacity and number of  *)
(* lines: its safety properties, and that it implements Delivery.          *)
(***************************************************************************)
EXTENDS SinkRefinement, SequenceTheorems, TLAPS

-----------------------------------------------------------------------------
(* Sequences and requests.                                                 *)

\* An appended element comes last and disturbs no other one.
LEMMA AppendFacts ==
    ASSUME NEW S, NEW s \in Seq(S), NEW e \in S
    PROVE  /\ Append(s, e) \in Seq(S)
           /\ Len(Append(s, e)) = Len(s) + 1
           /\ \A i \in 1..Len(s) : Append(s, e)[i] = s[i]
           /\ Append(s, e)[Len(s) + 1] = e
  OBVIOUS

\* So does a replaced one.
LEMMA ReplaceFacts ==
    ASSUME NEW S, NEW s \in Seq(S), NEW p \in 1..Len(s), NEW e \in S
    PROVE  /\ [s EXCEPT ![p] = e] \in Seq(S)
           /\ Len([s EXCEPT ![p] = e]) = Len(s)
           /\ [s EXCEPT ![p] = e][p] = e
           /\ \A q \in 1..Len(s) : q # p => [s EXCEPT ![p] = e][q] = s[q]
  BY ExceptSeq

\* A flush issues a well-formed request that is waiting for its answer.
LEMMA BatchFacts ==
    ASSUME TypeOK, NEW t \in Tables
    PROVE  /\ Batch(t) \in Posts
           /\ Batch(t).table = t
           /\ Batch(t).rows = buffers[t]
           /\ Batch(t).reply = "none"
  BY DEF TypeOK, Batch, Posts, Replies

\* An answer, or the server applying a request, changes no request's rows or
\* table.
LEMMA ReplyFacts ==
    ASSUME TypeOK, NEW p \in 1..Len(posts), NEW r \in Replies,
           posts' = [posts EXCEPT ![p].reply = r]
    PROVE  /\ posts' \in Seq(Posts)
           /\ Len(posts') = Len(posts)
           /\ \A q \in 1..Len(posts) : /\ posts'[q].rows = posts[q].rows
                                       /\ posts'[q].table = posts[q].table
                                       /\ q # p => posts'[q].reply = posts[q].reply
           /\ posts'[p].reply = r
  <1> DEFINE e == [posts[p] EXCEPT !.reply = r]
  <1>1. posts \in Seq(Posts) /\ p \in 1..Len(posts) /\ posts[p] \in Posts
    BY DEF TypeOK
  <1>2. e \in Posts
    BY <1>1 DEF Posts
  <1>3. e.rows = posts[p].rows /\ e.table = posts[p].table /\ e.reply = r
    BY <1>1 DEF Posts
  <1>4. posts' = [posts EXCEPT ![p] = e]
    OBVIOUS
  <1> HIDE DEF e
  <1>5. /\ posts' \in Seq(Posts)
        /\ Len(posts') = Len(posts)
        /\ posts'[p] = e
        /\ \A q \in 1..Len(posts) : q # p => posts'[q] = posts[q]
    BY ONLY <1>1, <1>2, <1>4, ReplaceFacts
  <1> QED
    BY <1>3, <1>5

\* The server applying a request changes no request's rows, table or reply.
LEMMA AppliedFacts ==
    ASSUME TypeOK, NEW p \in 1..Len(posts),
           posts' = [posts EXCEPT ![p].applied = TRUE]
    PROVE  /\ posts' \in Seq(Posts)
           /\ Len(posts') = Len(posts)
           /\ \A q \in 1..Len(posts) : /\ posts'[q].rows = posts[q].rows
                                       /\ posts'[q].table = posts[q].table
                                       /\ posts'[q].reply = posts[q].reply
  <1> DEFINE e == [posts[p] EXCEPT !.applied = TRUE]
  <1>1. posts \in Seq(Posts) /\ p \in 1..Len(posts) /\ posts[p] \in Posts
    BY DEF TypeOK
  <1>2. e \in Posts
    BY <1>1 DEF Posts
  <1>3. e.rows = posts[p].rows /\ e.table = posts[p].table /\ e.reply = posts[p].reply
    BY <1>1 DEF Posts
  <1>4. posts' = [posts EXCEPT ![p] = e]
    OBVIOUS
  <1> HIDE DEF e
  <1>5. /\ posts' \in Seq(Posts)
        /\ Len(posts') = Len(posts)
        /\ posts'[p] = e
        /\ \A q \in 1..Len(posts) : q # p => posts'[q] = posts[q]
    BY ONLY <1>1, <1>2, <1>4, ReplaceFacts
  <1> QED
    BY <1>3, <1>5

\* Whatever ends a request, InsertBatch's answer sets its reply alone.
LEMMA AnswerIsReply ==
    ASSUME ReplyOK \/ ReplyError \/ PostFails
    PROVE  /\ Running /\ InFlight
           /\ \E r \in Replies \ {"none"} : posts' = [posts EXCEPT ![Len(posts)].reply = r]
           /\ UNCHANGED <<input, reader, sent, received, tick, pc, buffers, todo>>
  BY DEF ReplyOK, ReplyError, PostFails, Answer, Replies

\* A received line is skipped, or appended to the buffer of one table.
LEMMA ReceiveFacts ==
    ASSUME TypeOK, ReceiveLine
    PROVE  /\ AtSelect /\ received < sent /\ received + 1 \in Nat
           /\ received' = received + 1
           /\ UNCHANGED <<input, reader, sent, tick, pc, posts>>
           /\ \/ ~IsRow(input[received + 1]) /\ UNCHANGED <<buffers, todo>>
              \/ \E t \in Tables :
                    LET b == Append(buffers[t], received + 1)
                    IN  /\ IsRow(input[received + 1])
                        /\ t = Route(input[received + 1])
                        /\ buffers' = [buffers EXCEPT ![t] = b]
                        /\ todo' = IF Full(b) THEN {t} ELSE {}
  <1>1. received + 1 \in Nat
    BY DEF TypeOK
  <1>2. Route(input[received + 1]) \in Tables
    BY DEF Route, Tables
  <1> QED
    BY <1>1, <1>2, Zenon DEF ReceiveLine

-----------------------------------------------------------------------------
(* Type correctness.                                                       *)

\* The initial state has its types.
LEMMA InitType == Init => TypeOK
  <1> SUFFICES ASSUME Init
               PROVE  TypeOK
    OBVIOUS
  <1>1. input \in Seq(Kinds) /\ posts \in Seq(Posts)
    BY DEF Init
  <1>2. buffers \in [Tables -> Seq(Nat)]
    BY DEF Init
  <1>3. sent \in received .. received + ChanCap
    BY ConfigAssumption DEF Init
  <1> QED
    BY <1>1, <1>2, <1>3 DEF Init, TypeOK

\* Every step keeps the types.
LEMMA NextType == TypeOK /\ [Next]_vars => TypeOK'
  <1> SUFFICES ASSUME TypeOK, [Next]_vars
               PROVE  TypeOK'
    OBVIOUS
  <1> USE ConfigAssumption DEF TypeOK
  <1>1. CASE Scan
    BY <1>1 DEF Scan
  <1>2. CASE ScanEnds
    BY <1>2 DEF ScanEnds
  <1>3. CASE SendLine
    BY <1>3 DEF SendLine
  <1>4. CASE TickFires
    BY <1>4 DEF TickFires
  <1>5. CASE ReceiveLine
    <2>1. received' \in Nat /\ sent' \in received' .. received' + ChanCap
      BY <1>5, ReceiveFacts
    <2>2. CASE UNCHANGED <<buffers, todo>>
      BY <1>5, <2>1, <2>2, ReceiveFacts
    <2>3. ASSUME NEW t \in Tables, NEW b, b = Append(buffers[t], received + 1),
                 buffers' = [buffers EXCEPT ![t] = b],
                 todo' = IF Full(b) THEN {t} ELSE {}
          PROVE  TypeOK'
      <3>1. b \in Seq(Nat)
        BY <2>3, AppendFacts
      <3>2. todo' \in SUBSET Tables
        BY <2>3
      <3>3. buffers' \in [Tables -> Seq(Nat)]
        BY <2>3, <3>1
      <3> QED
        BY <1>5, <2>1, <3>2, <3>3, ReceiveFacts
    <2> QED
      BY <1>5, <2>2, <2>3, ReceiveFacts
  <1>6. CASE ReceiveTick
    BY <1>6 DEF ReceiveTick, NonEmpty
  <1>7. CASE ReceiveClosed
    BY <1>7 DEF ReceiveClosed, NonEmpty
  <1>8. ASSUME NEW t \in Tables, Flush(t)
        PROVE  TypeOK'
    <2>1. Batch(t) \in Posts
      BY BatchFacts
    <2>2. posts' \in Seq(Posts)
      BY <1>8, <2>1, AppendFacts DEF Flush
    <2> QED
      BY <1>8, <2>2 DEF Flush
  <1>9. ASSUME NEW p \in 1..Len(posts), ServerInserts(p)
        PROVE  TypeOK'
    BY <1>9, AppliedFacts DEF ServerInserts
  <1>10. CASE ReplyOK \/ ReplyError \/ PostFails
    <2>1. Len(posts) \in 1..Len(posts)
      BY <1>10, AnswerIsReply DEF InFlight
    <2>2. posts' \in Seq(Posts)
      BY <1>10, <2>1, AnswerIsReply, ReplyFacts
    <2> QED
      BY <1>10, <2>2, AnswerIsReply
  <1>11. CASE Exit
    BY <1>11 DEF Exit
  <1>12. CASE Kill
    BY <1>12 DEF Kill
  <1>13. CASE UNCHANGED vars
    BY <1>13 DEF vars
  <1> QED
    BY <1>1, <1>2, <1>3, <1>4, <1>5, <1>6, <1>7, <1>8, <1>9, <1>10, <1>11, <1>12, <1>13 DEF Next

\* Every variable keeps its type and the channel never exceeds its capacity.
THEOREM TypeCorrect == Spec => []TypeOK
  BY InitType, NextType, PTL DEF Spec

-----------------------------------------------------------------------------
(* The inductive invariant.                                                *)

\* The rows that are in a buffer or in the request being waited for.
Unfinished ==
    BufferedRows + (IF InFlight THEN Len(posts[Len(posts)].rows) ELSE 0)

RowsInv == OrderedOnce /\ NoRowMislaid /\ BatchWithinSize

FewUnfinished == Unfinished =< 2 * MaxBatch - 1

IInv == TypeOK /\ Support /\ RowsInv /\ FewUnfinished

\* Where the rows of the buffers and the requests come from: a part of Support.
Provenance ==
    /\ \A t \in Tables : FromStdin(buffers[t], t)
    /\ \A p \in 1..Len(posts) : FromStdin(posts[p].rows, posts[p].table)

\* A batch has room for one row at least.
LEMMA MaxBatchType == MaxBatch \in Nat \ {0} /\ MaxBatch >= BatchSize
  BY ConfigAssumption DEF MaxBatch

\* A step that moves no row from a buffer or to one preserves what is said of
\* the rows, whatever it does to the control state.
LEMMA FrameRows ==
    ASSUME TypeOK, Support, RowsInv,
           buffers' = buffers, received' = received, Len(posts') = Len(posts),
           \A i \in 1..received : input'[i] = input[i],
           \A p \in 1..Len(posts) : /\ posts'[p].rows = posts[p].rows
                                    /\ posts'[p].table = posts[p].table
    PROVE  RowsInv' /\ Provenance'
  <1>1. OrderedOnce'
    BY DEF OrderedOnce, RowsInv
  <1>2. NoRowMislaid'
    <2> SUFFICES ASSUME NEW r \in 1..received, IsRow(input'[r])
                 PROVE  \/ In(r, buffers[Route(input'[r])])
                        \/ \E p \in 1..Len(posts) : InPost(r, p)'
      BY DEF NoRowMislaid
    <2>1. input'[r] = input[r]
      OBVIOUS
    <2>2. \/ In(r, buffers[Route(input[r])])
          \/ \E p \in 1..Len(posts) : InPost(r, p)
      BY <2>1 DEF NoRowMislaid, RowsInv
    <2>3. \A p \in 1..Len(posts) : InPost(r, p) => InPost(r, p)'
      BY <2>1 DEF InPost, Holds
    <2> QED
      BY <2>1, <2>2, <2>3, Zenon
  <1>3. BatchWithinSize'
    BY DEF BatchWithinSize, RowsInv
  <1>4. Provenance'
    <2>1. \A s, t : FromStdin(s, t) => FromStdin(s, t)'
      BY DEF FromStdin
    <2>2. \A t \in Tables : FromStdin(buffers[t], t)'
      BY <2>1 DEF Support
    <2>3. \A p \in 1..Len(posts) : FromStdin(posts[p].rows, posts[p].table)'
      BY <2>1 DEF Support
    <2> QED
      BY <2>2, <2>3 DEF Provenance, FromStdin
  <1> QED
    BY <1>1, <1>2, <1>3, <1>4 DEF RowsInv

\* A flush turns the buffer of t into the last request.
LEMMA FlushFacts ==
    ASSUME TypeOK, NEW t \in Tables, Flush(t)
    PROVE  /\ Running /\ ~InFlight /\ t \in todo /\ todo' = todo \ {t}
           /\ UNCHANGED <<input, reader, sent, received, tick, pc>>
           /\ buffers'[t] = <<>>
           /\ \A u \in Tables \ {t} : buffers'[u] = buffers[u]
           /\ Len(posts) \in Nat /\ Len(posts') = Len(posts) + 1
           /\ \A p \in 1..Len(posts) : posts'[p] = posts[p]
           /\ posts'[Len(posts) + 1] = Batch(t)
  <1>1. Batch(t) \in Posts /\ posts \in Seq(Posts) /\ buffers \in [Tables -> Seq(Nat)]
    BY BatchFacts DEF TypeOK
  <1>2. posts' = Append(posts, Batch(t)) /\ buffers' = [buffers EXCEPT ![t] = <<>>]
    BY DEF Flush
  <1>3. /\ Len(posts) \in Nat /\ Len(posts') = Len(posts) + 1
        /\ \A p \in 1..Len(posts) : posts'[p] = posts[p]
        /\ posts'[Len(posts) + 1] = Batch(t)
    BY <1>1, <1>2, AppendFacts
  <1>4. buffers'[t] = <<>> /\ \A u \in Tables \ {t} : buffers'[u] = buffers[u]
    BY <1>1, <1>2
  <1> QED
    BY <1>3, <1>4 DEF Flush

\* A flush keeps what is said of the rows.
LEMMA FlushRows ==
    ASSUME TypeOK, Support, RowsInv, NEW t \in Tables, Flush(t),
           Len(buffers[t]) =< MaxBatch
    PROVE  RowsInv' /\ Provenance'
  <1> SUFFICES ASSUME NEW n \in Nat, n = Len(posts)
               PROVE  RowsInv' /\ Provenance'
    BY FlushFacts
  <1>1. /\ n \in Nat /\ Len(posts') = n + 1
        /\ \A p \in 1..n : posts'[p] = posts[p]
        /\ posts'[n + 1].rows = buffers[t] /\ posts'[n + 1].table = t
        /\ buffers'[t] = <<>> /\ \A u \in Tables \ {t} : buffers'[u] = buffers[u]
        /\ input' = input /\ received' = received
    BY FlushFacts, BatchFacts
  <1>2. \A p \in 1..n+1 : p \in 1..n \/ p = n + 1
    BY <1>1
  <1>3. \A p \in 1..n : posts[p].table \in Tables
    <2>1. \A p \in 1..n : posts[p] \in Posts
      BY DEF TypeOK
    <2> QED
      BY <2>1 DEF Posts
  <1>4. OrderedOnce'
    <2>1. \A u \in Tables : Increasing(buffers'[u])
      BY <1>1 DEF RowsInv, OrderedOnce, Increasing
    <2>2. \A p \in 1..n+1 : Increasing(posts'[p].rows)
      BY <1>1, <1>2 DEF RowsInv, OrderedOnce
    <2>3. \A p \in 1..n+1 : Below(posts'[p].rows, buffers'[posts'[p].table])
      <3>1. ASSUME NEW p \in 1..n+1, posts'[p].table = t
            PROVE  Below(posts'[p].rows, buffers'[posts'[p].table])
        BY <1>1, <3>1 DEF Below
      <3>2. ASSUME NEW p \in 1..n+1, posts'[p].table # t
            PROVE  Below(posts'[p].rows, buffers'[posts'[p].table])
        BY <1>1, <1>2, <1>3, <3>2 DEF RowsInv, OrderedOnce
      <3> QED
        BY <3>1, <3>2
    <2>4. ASSUME NEW p \in 1..n+1, NEW q \in p+1..n+1, posts'[p].table = posts'[q].table
          PROVE  Below(posts'[p].rows, posts'[q].rows)
      <3>1. p \in 1..n
        BY <1>1
      <3>2. CASE q \in 1..n
        BY <1>1, <2>4, <3>1, <3>2 DEF RowsInv, OrderedOnce
      <3>3. CASE q = n + 1
        BY <1>1, <2>4, <3>1, <3>3 DEF RowsInv, OrderedOnce
      <3> QED
        BY <1>1, <3>2, <3>3
    <2> QED
      BY <1>1, <2>1, <2>2, <2>3, <2>4 DEF OrderedOnce
  <1>5. NoRowMislaid'
    <2> SUFFICES ASSUME NEW r \in 1..received, IsRow(input[r])
                 PROVE  \/ In(r, buffers'[Route(input[r])])
                        \/ \E p \in 1..n+1 : InPost(r, p)'
      BY <1>1 DEF NoRowMislaid
    <2>1. Route(input[r]) \in Tables
      BY DEF Route, Tables
    <2>2. CASE In(r, buffers[Route(input[r])]) /\ Route(input[r]) # t
      BY <1>1, <2>1, <2>2
    <2>3. CASE In(r, buffers[Route(input[r])]) /\ Route(input[r]) = t
      <3>1. In(r, posts'[n + 1].rows) /\ posts'[n + 1].table = Route(input'[r])
        BY <1>1, <2>3
      <3>2. \E p \in 1..n+1 : InPost(r, p)'
        BY <1>1, <3>1 DEF InPost, Holds
      <3> QED
        BY <3>2
    <2>4. ASSUME NEW p \in 1..n, InPost(r, p)
          PROVE  \E q \in 1..n+1 : InPost(r, q)'
      <3>1. InPost(r, p)' /\ p \in 1..n+1
        BY <1>1, <2>4 DEF InPost, Holds
      <3> QED
        BY <3>1
    <2> QED
      BY <2>2, <2>3, <2>4 DEF RowsInv, NoRowMislaid
  <1>6. BatchWithinSize'
    BY <1>1, <1>2 DEF RowsInv, BatchWithinSize
  <1>7. Provenance'
    <2>1. \A u \in Tables : FromStdin(buffers[u], u)' /\ FromStdin(<<>>, u)'
      BY <1>1 DEF Support, FromStdin
    <2>2. \A p \in 1..n+1 : FromStdin(posts[p].rows, posts[p].table)'
      BY <1>1, <1>2 DEF Support, FromStdin
    <2> QED
      BY <1>1, <2>1, <2>2 DEF Provenance, FromStdin
  <1> QED
    BY <1>4, <1>5, <1>6, <1>7 DEF RowsInv

\* So does receiving a line.
LEMMA ReceiveRows ==
    ASSUME TypeOK, Support, RowsInv, ReceiveLine
    PROVE  RowsInv' /\ Provenance'
  <1>1. /\ received + 1 \in Nat /\ received \in Nat /\ received' = received + 1
        /\ input' = input /\ posts' = posts
    BY ReceiveFacts DEF TypeOK
  <1>2. \A r \in 1..received+1 : r \in 1..received \/ r = received + 1
    BY <1>1
  <1>3. \A p \in 1..Len(posts) : /\ posts[p].table \in Tables
                                /\ FromStdin(posts[p].rows, posts[p].table)
    <2>1. \A p \in 1..Len(posts) : posts[p] \in Posts
      BY DEF TypeOK
    <2> QED
      BY <2>1 DEF Posts, Support
  <1>4. BatchWithinSize'
    BY <1>1 DEF RowsInv, BatchWithinSize
  <1>5. CASE ~IsRow(input[received + 1]) /\ UNCHANGED <<buffers, todo>>
    <2>1. OrderedOnce'
      BY <1>1, <1>5 DEF RowsInv, OrderedOnce
    <2>2. NoRowMislaid'
      BY <1>1, <1>2, <1>5 DEF RowsInv, NoRowMislaid, InPost, Holds
    <2>3. Provenance'
      BY <1>1, <1>5 DEF Support, Provenance, FromStdin
    <2> QED
      BY <1>4, <2>1, <2>2, <2>3 DEF RowsInv
  <1>6. ASSUME NEW t \in Tables, NEW b, b = Append(buffers[t], received + 1),
               IsRow(input[received + 1]), t = Route(input[received + 1]),
               buffers' = [buffers EXCEPT ![t] = b]
        PROVE  RowsInv' /\ Provenance'
    <2> SUFFICES ASSUME NEW old \in Seq(Nat), old = buffers[t]
                 PROVE  RowsInv' /\ Provenance'
      BY DEF TypeOK
    <2>1. /\ b \in Seq(Nat) /\ Len(old) \in Nat /\ Len(b) = Len(old) + 1
          /\ \A i \in 1..Len(old) : b[i] = old[i]
          /\ b[Len(old) + 1] = received + 1
      BY <1>1, <1>6, AppendFacts
    <2>2. buffers'[t] = b /\ \A u \in Tables \ {t} : buffers'[u] = buffers[u]
      BY <1>6 DEF TypeOK
    <2>3. FromStdin(old, t) /\ Increasing(old)
      BY DEF Support, RowsInv, OrderedOnce
    <2>4. \A i \in 1..Len(b) : i \in 1..Len(old) \/ i = Len(old) + 1
      BY <2>1
    <2>5. OrderedOnce'
      <3>1. Increasing(b)
        <4> SUFFICES ASSUME NEW i \in 1..Len(b), NEW j \in 1..Len(b), i < j
                     PROVE  b[i] < b[j]
          BY DEF Increasing
        <4>1. i \in 1..Len(old) /\ b[i] = old[i] /\ old[i] \in 1..received
          <5>1. i \in 1..Len(old)
            BY <2>1
          <5>2. old[i] \in 1..received
            BY <2>3, <5>1, Zenon DEF FromStdin
          <5> QED
            BY <2>1, <5>1, <5>2, Zenon
        <4>2. CASE j \in 1..Len(old)
          BY <2>1, <2>3, <4>1, <4>2 DEF Increasing
        <4>3. CASE j = Len(old) + 1
          BY <1>1, <2>1, <4>1, <4>3
        <4> QED
          BY <2>4, <4>2, <4>3
      <3>2. \A u \in Tables : Increasing(buffers'[u])
        BY <2>2, <3>1 DEF RowsInv, OrderedOnce
      <3>3. ASSUME NEW p \in 1..Len(posts)
            PROVE  Below(posts[p].rows, buffers'[posts[p].table])
        <4>1. Below(posts[p].rows, buffers[posts[p].table])
          BY DEF RowsInv, OrderedOnce
        <4>2. CASE posts[p].table = t
          <5>1. \A i \in 1..Len(posts[p].rows) : posts[p].rows[i] \in 1..received
            BY <1>3 DEF FromStdin
          <5>2. \A i \in 1..Len(posts[p].rows) : posts[p].rows[i] < received + 1
            BY <1>1, <5>1
          <5>3. Below(posts[p].rows, b)
            BY <2>1, <2>4, <4>1, <4>2, <5>2 DEF Below
          <5> QED
            BY <2>2, <4>2, <5>3
        <4>3. CASE posts[p].table # t
          BY <1>3, <2>2, <4>1, <4>3
        <4> QED
          BY <4>2, <4>3
      <3> QED
        BY <1>1, <3>2, <3>3 DEF RowsInv, OrderedOnce
    <2>6. NoRowMislaid'
      <3> SUFFICES ASSUME NEW r \in 1..received+1, IsRow(input[r])
                   PROVE  \/ In(r, buffers'[Route(input[r])])
                          \/ \E p \in 1..Len(posts) : InPost(r, p)
        BY <1>1 DEF NoRowMislaid, InPost, Holds
      <3>1. CASE r = received + 1
        <4>1. In(received + 1, b)
          BY <2>1 DEF In
        <4> QED
          BY <1>6, <2>2, <3>1, <4>1
      <3>2. CASE r \in 1..received /\ In(r, buffers[Route(input[r])])
        <4>1. Route(input[r]) \in Tables
          BY DEF Route, Tables
        <4>2. In(r, old) => In(r, b)
          <5>1. 1..Len(old) \subseteq 1..Len(b)
            BY <2>1
          <5> QED
            BY <2>1, <5>1 DEF In
        <4> QED
          BY <2>2, <3>2, <4>1, <4>2
      <3>3. CASE \E p \in 1..Len(posts) : InPost(r, p)
        BY <3>3
      <3> QED
        BY <1>2, <3>1, <3>2, <3>3 DEF RowsInv, NoRowMislaid
    <2>7. Provenance'
      <3>1. FromStdin(b, t)'
        BY <1>1, <1>6, <2>1, <2>3, <2>4 DEF FromStdin
      <3>2. \A u \in Tables \ {t} : FromStdin(buffers[u], u)'
        BY <1>1, <2>2 DEF Support, FromStdin
      <3>3. \A p \in 1..Len(posts) : FromStdin(posts[p].rows, posts[p].table)'
        BY <1>1, <1>3 DEF FromStdin
      <3> QED
        BY <1>1, <2>2, <3>1, <3>2, <3>3 DEF Provenance
    <2> QED
      BY <1>4, <2>5, <2>6, <2>7 DEF RowsInv
  <1> QED
    BY <1>5, <1>6, ReceiveFacts

-----------------------------------------------------------------------------
(* The other part of Support, and the number of unfinished rows.           *)

Control ==
    /\ Len(input) = IF reader = "send" THEN sent + 1 ELSE sent
    /\ \A t \in Tables : /\ Len(buffers[t]) =< MaxBatch
                         /\ t \notin todo => Len(buffers[t]) < MaxBatch
    /\ \A p \in 1..Len(posts) : posts[p].reply = "none" => p = Len(posts)
    /\ pc \in {"return", "exited"} =>
          /\ reader = "done" /\ received = sent
          /\ \A t \in Tables \ todo : buffers[t] = <<>>
    /\ pc = "exited" => todo = {} /\ ~InFlight

\* The support, as what it says of the rows and of the control state.
LEMMA SupportParts == Support <=> Provenance /\ Control
  BY DEF Support, Provenance, Control

\* What is in the buffers and in the requests are finite sequences.
LEMMA BufferTypes ==
    ASSUME TypeOK
    PROVE  /\ \A t \in Tables : buffers[t] \in Seq(Nat) /\ Len(buffers[t]) \in Nat
           /\ \A p \in 1..Len(posts) : Len(posts[p].rows) \in Nat
           /\ Len(posts) \in Nat
  <1>1. \A p \in 1..Len(posts) : posts[p] \in Posts
    BY DEF TypeOK
  <1> QED
    BY <1>1 DEF TypeOK, Posts

\* The arithmetic of the bound on what a kill loses.
LEMMA Arithmetic ==
    /\ \A x, y \in Nat : x + y \in Nat /\ x + y = y + x /\ x + 0 = x /\ 0 + x = x
    /\ \A x \in Nat : x + 1 \in Nat
    /\ \A x, y, m \in Nat : x < m /\ y < m => (x + 1) + y =< 2 * m - 1
  OBVIOUS

\* The rows in the buffers, with one table set apart.
LEMMA RowsInSum ==
    ASSUME NEW f, \A t \in Tables : Len(f[t]) \in Nat, NEW t \in Tables
    PROVE  /\ \E u \in Tables : u # t
           /\ \A u \in Tables \ {t} : RowsIn(f) = Len(f[t]) + Len(f[u])
  <1> SUFFICES ASSUME NEW a \in Nat, NEW e \in Nat,
                      a = Len(f["alerts"]), e = Len(f["events_enriched"])
               PROVE  /\ \E u \in Tables : u # t
                      /\ \A u \in Tables \ {t} : RowsIn(f) = Len(f[t]) + Len(f[u])
    BY Zenon DEF Tables
  <1>1. RowsIn(f) = e + a
    BY Zenon DEF RowsIn
  <1>2. e + a = a + e
    BY Arithmetic, Zenon
  <1>3. CASE t = "alerts"
    <2>1. \A u \in Tables \ {t} : u = "events_enriched"
      BY <1>3, Zenon DEF Tables
    <2>2. \A u \in Tables \ {t} : Len(f[u]) = e
      BY <2>1, Zenon
    <2>3. Len(f[t]) = a
      BY <1>3, Zenon
    <2> QED
      BY <1>1, <1>2, <1>3, <2>2, <2>3, Zenon DEF Tables
  <1>4. CASE t = "events_enriched"
    <2>1. \A u \in Tables \ {t} : u = "alerts"
      BY <1>4, Zenon DEF Tables
    <2>2. \A u \in Tables \ {t} : Len(f[u]) = a
      BY <2>1, Zenon
    <2>3. Len(f[t]) = e
      BY <1>4, Zenon
    <2> QED
      BY <1>1, <1>4, <2>2, <2>3, Zenon DEF Tables
  <1> QED
    BY <1>3, <1>4, Zenon DEF Tables

\* A step that leaves the buffers and the requests alone preserves all that is
\* said of the rows.
LEMMA FrameAll ==
    ASSUME TypeOK, Support, RowsInv, FewUnfinished,
           UNCHANGED <<buffers, received, posts>>,
           \A i \in 1..received : input'[i] = input[i]
    PROVE  RowsInv' /\ Provenance' /\ FewUnfinished'
  <1>1. RowsInv' /\ Provenance'
    BY FrameRows
  <1>2. FewUnfinished'
    BY DEF FewUnfinished, Unfinished, BufferedRows, InFlight, MaxBatch
  <1> QED
    BY <1>1, <1>2

\* Receiving a line keeps what is said of the control state.
LEMMA ReceiveControl ==
    ASSUME TypeOK, Control, FewUnfinished, ReceiveLine
    PROVE  Control' /\ FewUnfinished'
  <1>1. /\ pc = "loop" /\ todo = {} /\ ~InFlight /\ received \in Nat
        /\ UNCHANGED <<input, reader, sent, tick, pc, posts>>
    BY ReceiveFacts DEF AtSelect, TypeOK
  <1>2. \A t \in Tables : Len(buffers[t]) \in Nat /\ Len(buffers[t]) < MaxBatch
    BY <1>1, BufferTypes DEF Control
  <1>3. ~InFlight'
    BY <1>1 DEF InFlight
  <1>4. CASE UNCHANGED <<buffers, todo>>
    BY <1>1, <1>4 DEF Control, FewUnfinished, Unfinished, BufferedRows, InFlight, MaxBatch
  <1>5. ASSUME NEW t \in Tables, NEW b, b = Append(buffers[t], received + 1),
               buffers' = [buffers EXCEPT ![t] = b],
               todo' = IF Full(b) THEN {t} ELSE {}
        PROVE  Control' /\ FewUnfinished'
    <2>1. Len(b) = Len(buffers[t]) + 1
      BY <1>1, <1>5, BufferTypes, AppendFacts
    <2>2. buffers'[t] = b /\ \A u \in Tables \ {t} : buffers'[u] = buffers[u]
      BY <1>5 DEF TypeOK
    <2>3. t \notin todo' => Len(b) < MaxBatch
      BY <1>2, <1>5, <2>1, MaxBatchType, ConfigAssumption DEF Full
    <2>4. \A u \in Tables : /\ Len(buffers'[u]) =< MaxBatch
                            /\ u \notin todo' => Len(buffers'[u]) < MaxBatch
      BY <1>2, <2>1, <2>2, <2>3, MaxBatchType
    <2>5. Control'
      BY <1>1, <2>4 DEF Control, MaxBatch
    <2>6. PICK u \in Tables : u # t
      BY <1>2, RowsInSum
    <2>7. /\ BufferedRows = Len(buffers[t]) + Len(buffers[u])
          /\ BufferedRows' = Len(b) + Len(buffers[u])
      <3>1. \A v \in Tables : Len(buffers'[v]) \in Nat
        BY <1>2, <2>1, <2>2
      <3>2. RowsIn(buffers') = Len(buffers'[t]) + Len(buffers'[u])
        BY <2>6, <3>1, RowsInSum
      <3> QED
        BY <1>2, <2>2, <2>6, <3>2, RowsInSum, Zenon DEF BufferedRows
    <2>8. Unfinished' = (Len(buffers[t]) + 1) + Len(buffers[u])
      <3>1. Len(b) + Len(buffers[u]) \in Nat
        BY <1>2, <2>1, Arithmetic, Zenon
      <3>2. Unfinished' = BufferedRows' + 0
        BY <1>3, Zenon DEF Unfinished
      <3> QED
        BY <2>1, <2>7, <3>1, <3>2, Arithmetic, Zenon
    <2>9. MaxBatch' = MaxBatch
      BY DEF MaxBatch
    <2> QED
      BY <1>2, <2>5, <2>8, <2>9, MaxBatchType, Arithmetic, Zenon DEF FewUnfinished
  <1> QED
    BY <1>4, <1>5, ReceiveFacts

\* So does a flush.
LEMMA FlushControl ==
    ASSUME TypeOK, Control, FewUnfinished, NEW t \in Tables, Flush(t)
    PROVE  Control' /\ FewUnfinished'
  <1> SUFFICES ASSUME NEW n \in Nat, n = Len(posts)
               PROVE  Control' /\ FewUnfinished'
    BY FlushFacts
  <1>1. /\ Running /\ ~InFlight /\ t \in todo /\ todo' = todo \ {t}
        /\ UNCHANGED <<input, reader, sent, received, tick, pc>>
        /\ buffers'[t] = <<>> /\ \A u \in Tables \ {t} : buffers'[u] = buffers[u]
        /\ Len(posts') = n + 1 /\ \A p \in 1..n : posts'[p] = posts[p]
        /\ posts'[n + 1].rows = buffers[t] /\ posts'[n + 1].reply = "none"
    BY FlushFacts, BatchFacts
  <1>2. \A u \in Tables : Len(buffers[u]) \in Nat
    BY BufferTypes
  <1>3. \A p \in 1..n : posts[p].reply # "none"
    BY <1>1 DEF Control, InFlight
  <1>4. \A p \in 1..n+1 : posts'[p].reply = "none" => p = n + 1
    BY <1>1, <1>3
  <1>5. Control'
    <2>1. \A u \in Tables : /\ Len(buffers'[u]) =< MaxBatch
                            /\ u \notin todo' => Len(buffers'[u]) < MaxBatch
      BY <1>1, MaxBatchType DEF Control
    <2>2. pc # "exited"
      BY <1>1 DEF Running
    <2>3. pc = "return" => \A u \in Tables \ todo' : buffers'[u] = <<>>
      BY <1>1 DEF Control
    <2> QED
      BY <1>1, <1>4, <2>1, <2>2, <2>3 DEF Control, MaxBatch
  <1>6. FewUnfinished'
    <2>1. PICK u \in Tables : u # t
      BY <1>2, RowsInSum
    <2>2. /\ BufferedRows = Len(buffers[t]) + Len(buffers[u])
          /\ BufferedRows' = Len(buffers[u])
      <3>1. \A v \in Tables : Len(buffers'[v]) \in Nat
        BY <1>1, <1>2
      <3>2. RowsIn(buffers') = Len(buffers'[t]) + Len(buffers'[u])
        BY <2>1, <3>1, RowsInSum
      <3> QED
        <4>1. Len(buffers'[t]) = 0 /\ buffers'[u] = buffers[u]
          BY <1>1, <2>1
        <4>2. BufferedRows' = 0 + Len(buffers[u])
          BY <3>2, <4>1, Zenon DEF BufferedRows
        <4>3. BufferedRows' = Len(buffers[u])
          BY <1>2, <4>2, Arithmetic, Zenon
        <4> QED
          BY <1>2, <2>1, <4>3, RowsInSum, Zenon DEF BufferedRows
    <2>3. InFlight' /\ Len(posts'[Len(posts')].rows) = Len(buffers[t])
      BY <1>1 DEF InFlight
    <2>4. Unfinished' = Unfinished
      <3>1. Unfinished = BufferedRows + 0 /\ BufferedRows \in Nat
        BY <1>1, <1>2, <2>2, Arithmetic, Zenon DEF Unfinished
      <3>2. Unfinished' = Len(buffers[u]) + Len(buffers[t])
        BY <2>2, <2>3, Zenon DEF Unfinished
      <3> QED
        BY <1>2, <2>2, <3>1, <3>2, Arithmetic, Zenon
    <2>5. MaxBatch' = MaxBatch
      BY DEF MaxBatch
    <2> QED
      BY <2>4, <2>5 DEF FewUnfinished
  <1> QED
    BY <1>5, <1>6

\* The server applying a request keeps the invariant.
LEMMA ServerKeepsAll ==
    ASSUME IInv, NEW p \in 1..Len(posts), ServerInserts(p)
    PROVE  Control' /\ RowsInv' /\ Provenance' /\ FewUnfinished'
  <1>1. UNCHANGED <<input, reader, sent, received, tick, pc, buffers, todo>>
    BY DEF ServerInserts
  <1>2. /\ Len(posts') = Len(posts) /\ posts # <<>> /\ posts' # <<>>
        /\ \A q \in 1..Len(posts) : /\ posts'[q].rows = posts[q].rows
                                    /\ posts'[q].table = posts[q].table
                                    /\ posts'[q].reply = posts[q].reply
    BY AppliedFacts DEF ServerInserts, IInv
  <1>3. Len(posts) \in 1..Len(posts)
    OBVIOUS
  <1>4. RowsInv' /\ Provenance'
    BY <1>1, <1>2, FrameRows DEF IInv
  <1>5. InFlight' = InFlight /\ posts'[Len(posts')].rows = posts[Len(posts)].rows
    BY <1>2, <1>3 DEF InFlight
  <1>6. Control'
    BY <1>1, <1>2, <1>5, SupportParts DEF IInv, Control, MaxBatch
  <1>7. FewUnfinished'
    BY <1>1, <1>5, Zenon DEF IInv, FewUnfinished, Unfinished, BufferedRows, MaxBatch
  <1> QED
    BY <1>4, <1>6, <1>7

\* So does an answer, or giving up on one.
LEMMA AnswerKeepsAll ==
    ASSUME IInv, ReplyOK \/ ReplyError \/ PostFails
    PROVE  Control' /\ RowsInv' /\ Provenance' /\ FewUnfinished'
  <1> DEFINE n == Len(posts)
  <1>1. /\ Running /\ InFlight
        /\ UNCHANGED <<input, reader, sent, received, tick, pc, buffers, todo>>
    BY AnswerIsReply
  <1>2. n \in 1..n
    BY <1>1 DEF InFlight, IInv, TypeOK
  <1>3. /\ Len(posts') = Len(posts)
        /\ \A q \in 1..Len(posts) : /\ posts'[q].rows = posts[q].rows
                                    /\ posts'[q].table = posts[q].table
                                    /\ q # Len(posts) => posts'[q].reply = posts[q].reply
        /\ posts'[Len(posts)].reply # "none"
    BY <1>2, AnswerIsReply, ReplyFacts DEF IInv
  <1>4. RowsInv' /\ Provenance'
    BY <1>1, <1>3, FrameRows DEF IInv
  <1>5. ~InFlight'
    BY <1>3 DEF InFlight
  <1>6. Control'
    BY <1>1, <1>3, <1>5, SupportParts DEF IInv, Control, MaxBatch
  <1>7. FewUnfinished'
    <2>1. BufferedRows \in Nat /\ Len(posts[n].rows) \in Nat
      <3>1. \A t \in Tables : Len(buffers[t]) \in Nat
        BY BufferTypes DEF IInv
      <3>2. PICK t \in Tables : TRUE
        BY DEF Tables
      <3>3. PICK u \in Tables : u # t
        BY <3>1, RowsInSum
      <3>4. BufferedRows = Len(buffers[t]) + Len(buffers[u])
        BY <3>1, <3>3, RowsInSum DEF BufferedRows
      <3> QED
        BY <1>2, <3>1, <3>4, BufferTypes, Arithmetic, Zenon DEF IInv
    <2>2. Unfinished = BufferedRows + Len(posts[n].rows)
      BY <1>1, Zenon DEF Unfinished
    <2>3. Unfinished' = BufferedRows
      BY <1>1, <1>5, <2>1, Arithmetic, Zenon DEF Unfinished, BufferedRows
    <2>4. \A x, y \in Nat : \A m \in Nat \ {0} : x + y =< 2 * m - 1 => x =< 2 * m - 1
      OBVIOUS
    <2>5. MaxBatch' = MaxBatch
      BY DEF MaxBatch
    <2> QED
      BY <2>1, <2>2, <2>3, <2>4, <2>5, MaxBatchType, Zenon DEF IInv, FewUnfinished
  <1> QED
    BY <1>4, <1>6, <1>7

-----------------------------------------------------------------------------
(* IInv is inductive.                                                      *)

\* The invariant holds at the start.
LEMMA InitIInv == Init => IInv
  <1> SUFFICES ASSUME Init
               PROVE  IInv
    OBVIOUS
  <1>1. TypeOK
    BY InitType
  <1>2. posts = <<>> /\ received = 0 /\ \A t \in Tables : buffers[t] = <<>>
    BY DEF Init
  <1>3. Support
    BY <1>2, MaxBatchType DEF Init, Support, FromStdin, InFlight
  <1>4. RowsInv
    BY <1>2 DEF RowsInv, OrderedOnce, Increasing, NoRowMislaid, BatchWithinSize
  <1>5. FewUnfinished
    <2>1. buffers["alerts"] = <<>> /\ buffers["events_enriched"] = <<>>
      BY <1>2 DEF Tables
    <2>2. Unfinished = (0 + 0) + 0
      BY <1>2, <2>1 DEF Unfinished, InFlight, BufferedRows, RowsIn
    <2>3. (0 + 0) + 0 =< 2 * MaxBatch - 1
      BY MaxBatchType
    <2> QED
      BY <2>2, <2>3, Zenon DEF FewUnfinished
  <1> QED
    BY <1>1, <1>3, <1>4, <1>5 DEF IInv

\* Steps that move no row and issue no request keep the control part too.
LEMMA QuietControl ==
    ASSUME IInv,
           \/ Scan \/ ScanEnds \/ SendLine \/ TickFires \/ ReceiveTick
           \/ ReceiveClosed \/ Exit \/ Kill \/ UNCHANGED vars
    PROVE  /\ Control'
           /\ UNCHANGED <<buffers, received, posts>>
           /\ \A i \in 1..received : input'[i] = input[i]
  <1> USE DEF Control, InFlight, MaxBatch
  <1>1. TypeOK /\ Control
    BY SupportParts DEF IInv
  <1>2. CASE Scan
    <2>1. PICK k \in Kinds : input' = Append(input, k)
      BY <1>2 DEF Scan
    <2>2. /\ Len(input') = Len(input) + 1
          /\ \A i \in 1..Len(input) : input'[i] = input[i]
      BY <1>1, <2>1, AppendFacts DEF TypeOK
    <2>3. Len(input) = sent /\ \A i \in 1..received : i \in 1..Len(input)
      BY <1>1, <1>2, ConfigAssumption DEF Scan, TypeOK
    <2> QED
      BY <1>1, <1>2, <2>2, <2>3 DEF Scan
  <1>3. CASE ScanEnds
    BY <1>1, <1>3 DEF ScanEnds
  <1>4. CASE SendLine
    BY <1>1, <1>4, ConfigAssumption DEF SendLine, TypeOK
  <1>5. CASE TickFires
    BY <1>1, <1>5 DEF TickFires
  <1>6. CASE ReceiveTick
    BY <1>1, <1>6 DEF ReceiveTick, AtSelect, NonEmpty
  <1>7. CASE ReceiveClosed
    BY <1>1, <1>7 DEF ReceiveClosed, AtSelect, NonEmpty
  <1>8. CASE Exit
    BY <1>1, <1>8 DEF Exit
  <1>9. CASE Kill
    BY <1>1, <1>9 DEF Kill
  <1>10. CASE UNCHANGED vars
    BY <1>1, <1>10 DEF vars
  <1> QED
    BY <1>2, <1>3, <1>4, <1>5, <1>6, <1>7, <1>8, <1>9, <1>10

\* Every step keeps it.
LEMMA NextIInv == IInv /\ [Next]_vars => IInv'
  <1> SUFFICES ASSUME IInv, [Next]_vars
               PROVE  IInv'
    OBVIOUS
  <1>1. TypeOK'
    BY NextType DEF IInv
  <1>2. (Provenance' /\ Control') => Support'
    BY DEF Support, Provenance, Control
  <1>3. TypeOK /\ Support /\ Control /\ RowsInv /\ FewUnfinished
    BY SupportParts DEF IInv
  <1>4. CASE \/ Scan \/ ScanEnds \/ SendLine \/ TickFires \/ ReceiveTick
             \/ ReceiveClosed \/ Exit \/ Kill \/ UNCHANGED vars
    BY <1>1, <1>2, <1>3, <1>4, QuietControl, FrameAll DEF IInv
  <1>5. CASE ReceiveLine
    BY <1>1, <1>2, <1>3, <1>5, ReceiveRows, ReceiveControl DEF IInv
  <1>6. ASSUME NEW t \in Tables, Flush(t)
        PROVE  IInv'
    <2>1. Len(buffers[t]) =< MaxBatch
      BY <1>3 DEF Control
    <2> QED
      BY <1>1, <1>2, <1>3, <1>6, <2>1, FlushRows, FlushControl DEF IInv
  <1>7. ASSUME NEW p \in 1..Len(posts), ServerInserts(p)
        PROVE  IInv'
    BY <1>1, <1>2, <1>7, ServerKeepsAll DEF IInv
  <1>8. CASE ReplyOK \/ ReplyError \/ PostFails
    BY <1>1, <1>2, <1>8, AnswerKeepsAll DEF IInv
  <1> QED
    BY <1>4, <1>5, <1>6, <1>7, <1>8 DEF Next

\* IInv, which implies every safety property below, always holds.
LEMMA Inductive == Spec => []IInv
  BY InitIInv, NextIInv, PTL DEF Spec

-----------------------------------------------------------------------------
(* The safety properties.                                                  *)

\* The rows of a table are posted in the order of stdin and no row is posted
\* twice, or posted and still buffered: flush takes the batch out of the
\* buffer before the insert and never puts it back.
THEOREM RowsPostedOnceInOrder == Spec => []OrderedOnce
  <1>1. IInv => OrderedOnce
    BY DEF IInv, RowsInv
  <1> QED
    BY <1>1, Inductive, PTL

\* No row the main loop received is anywhere but in the buffer of its table or
\* in a request to its table, whatever became of the other requests.
THEOREM RowsNeverMislaid == Spec => []NoRowMislaid
  <1>1. IInv => NoRowMislaid
    BY DEF IInv, RowsInv
  <1> QED
    BY <1>1, Inductive, PTL

\* No request carries more rows than the batch size, or one if that is below 1.
THEOREM BatchesWithinSize == Spec => []BatchWithinSize
  <1>1. IInv => BatchWithinSize
    BY DEF IInv, RowsInv
  <1> QED
    BY <1>1, Inductive, PTL

\* When run has returned and its deferred flushAll is through, every row that
\* was scanned has had its insert.
THEOREM ExitIsDrained == Spec => []DrainedAtExit
  <1>1. IInv => DrainedAtExit
    <2> SUFFICES ASSUME IInv, pc = "exited",
                        NEW r \in 1..Len(input), IsRow(input[r])
                 PROVE  \E p \in 1..Len(posts) : InPost(r, p) /\ posts[p].reply # "none"
      BY DEF DrainedAtExit
    <2>1. /\ TypeOK /\ Control /\ ~InFlight /\ todo = {}
          /\ reader = "done" /\ Len(input) = received
      BY SupportParts DEF IInv, Control
    <2>2. Route(input[r]) \in Tables
      BY DEF Route, Tables
    <2>3. ~In(r, buffers[Route(input[r])])
      BY <2>1, <2>2 DEF Control, In
    <2>4. PICK p \in 1..Len(posts) : InPost(r, p)
      BY <2>1, <2>3 DEF IInv, RowsInv, NoRowMislaid
    <2>5. posts[p].reply # "none"
      BY <2>1, <2>4 DEF Control, InFlight
    <2> QED
      BY <2>4, <2>5
  <1> QED
    BY <1>1, Inductive, PTL

\* The lines scanned but not in a finished insert, all that a kill can lose of
\* what Scan() returned, are at most the channel's capacity and two batches.
THEOREM LossIsBounded == Spec => []BoundedLoss
  <1>1. IInv => BoundedLoss
    <2> SUFFICES ASSUME IInv
                 PROVE  BoundedLoss
      OBVIOUS
    <2> DEFINE F == IF InFlight THEN Len(posts[Len(posts)].rows) ELSE 0
               L == Len(input) - received
    <2>1. L \in Int /\ L =< ChanCap + 1
      BY SupportParts, ConfigAssumption DEF IInv, TypeOK, Control
    <2>2. BufferedRows + F =< 2 * MaxBatch - 1
      BY DEF IInv, FewUnfinished, Unfinished
    <2>3. BufferedRows \in Nat /\ F \in Nat
      <3>1. \A t \in Tables : Len(buffers[t]) \in Nat
        BY BufferTypes DEF IInv
      <3>2. PICK t \in Tables : TRUE
        BY DEF Tables
      <3>3. PICK u \in Tables : u # t
        BY <3>1, RowsInSum
      <3>4. BufferedRows = Len(buffers[t]) + Len(buffers[u])
        BY <3>1, <3>3, RowsInSum DEF BufferedRows
      <3>5. InFlight => Len(posts) \in 1..Len(posts)
        BY DEF InFlight, IInv, TypeOK
      <3>6. F \in Nat
        BY <3>5, BufferTypes DEF IInv
      <3> QED
        BY <3>1, <3>4, <3>6, Arithmetic, Zenon
    <2> HIDE DEF F, L
    <2>4. \A l \in Int, x, y \in Nat, c, m \in Nat \ {0} :
             l =< c + 1 /\ x + y =< 2 * m - 1 => l + x + y =< c + 2 * m
      OBVIOUS
    <2>5. L + BufferedRows + F =< ChanCap + 2 * MaxBatch
      BY <2>1, <2>2, <2>3, <2>4, MaxBatchType, ConfigAssumption, Zenon
    <2> QED
      BY <2>5, Zenon DEF BoundedLoss, F, L
  <1> QED
    BY <1>1, Inductive, PTL

-----------------------------------------------------------------------------
(* The sink implements Delivery.                                           *)

Bounded == Len(input) =< MaxLines

RInv == IInv /\ Bounded

\* Where a line can be, and what its fate is there: unread, skipped, in one
\* buffer, or in one request.
Where ==
    /\ \A p \in 1..Len(posts), r \in Lines :
          Holds(p, r) => ~Held(r) /\ r =< received /\ IsRow(input[r]) /\ Fate(r) = Outcome(p)
    /\ \A p, q \in 1..Len(posts), r \in Lines : Holds(p, r) /\ Holds(q, r) => p = q
    /\ \A r \in Lines : Held(r) => r =< received /\ IsRow(input[r]) /\ Fate(r) = "held"
    /\ \A r \in Lines : r > received => Fate(r) = "unread"
    /\ \A r \in Lines : r =< received /\ ~IsRow(input[r]) => Fate(r) = "skipped"
    /\ \A r \in Lines : \/ r > received
                        \/ r =< received /\ ~IsRow(input[r])
                        \/ Held(r)
                        \/ \E p \in 1..Len(posts) : Holds(p, r)

-----------------------------------------------------------------------------
(* The refinement mapping.                                                 *)

\* The main loop has received no more than stdin delivered.
LEMMA ReceivedBound ==
    ASSUME RInv
    PROVE  /\ received \in Nat /\ sent \in Nat /\ received =< sent /\ sent =< Len(input)
           /\ Len(input) =< MaxLines /\ Len(input) \in Nat /\ MaxLines \in Nat
  <1>1. TypeOK /\ Support /\ Len(input) =< MaxLines
    BY DEF RInv, IInv, Bounded
  <1>2. received \in Nat /\ sent \in received .. received + ChanCap /\ Len(input) \in Nat
    BY <1>1 DEF TypeOK
  <1>3. Len(input) = IF reader = "send" THEN sent + 1 ELSE sent
    BY <1>1 DEF Support
  <1> QED
    BY <1>1, <1>2, <1>3, ConfigAssumption

\* A row of a request or a buffer belongs to its table and has been received.
LEMMA RowsOfStdin ==
    ASSUME RInv
    PROVE  /\ \A r : \A p \in 1..Len(posts) : Holds(p, r) =>
                 /\ r \in 1..received /\ IsRow(input[r]) /\ Route(input[r]) = posts[p].table
                 /\ posts[p].table \in Tables
           /\ \A r : \A t \in Tables : In(r, buffers[t]) =>
                 r \in 1..received /\ IsRow(input[r]) /\ Route(input[r]) = t
  <1>1. TypeOK /\ Provenance
    BY SupportParts DEF RInv, IInv
  <1>2. \A p \in 1..Len(posts) : posts[p].table \in Tables
    <2>1. \A p \in 1..Len(posts) : posts[p] \in Posts
      BY <1>1 DEF TypeOK
    <2> QED
      BY <2>1 DEF Posts
  <1> QED
    BY <1>1, <1>2 DEF Provenance, FromStdin, Holds, In

\* A row is in one request, and then in no buffer.
LEMMA OneRequest ==
    ASSUME RInv
    PROVE  /\ \A r : \A p, q \in 1..Len(posts) : Holds(p, r) /\ Holds(q, r) => p = q
           /\ \A r : \A p \in 1..Len(posts) : Holds(p, r) => ~Held(r)
  <1>1. OrderedOnce /\ received \in Nat /\ Len(posts) \in Nat
    BY BufferTypes DEF RInv, IInv, RowsInv, TypeOK
  <1>2. ASSUME NEW p \in 1..Len(posts), NEW q \in p+1..Len(posts), NEW r, Holds(p, r), Holds(q, r)
        PROVE  FALSE
    <2>1. q \in 1..Len(posts) /\ r \in 1..received /\ posts[p].table = posts[q].table
      BY <1>1, <1>2, RowsOfStdin
    <2>2. Below(posts[p].rows, posts[q].rows)
      BY <1>1, <2>1 DEF OrderedOnce
    <2>3. r < r
      BY <1>2, <2>2 DEF Below, Holds, In
    <2> QED
      BY <1>1, <2>1, <2>3
  <1>3. ASSUME NEW p \in 1..Len(posts), NEW r, Holds(p, r), Held(r)
        PROVE  FALSE
    <2>1. PICK t \in Tables : In(r, buffers[t])
      BY <1>3 DEF Held
    <2>2. r \in 1..received /\ posts[p].table = t
      BY <1>3, <2>1, RowsOfStdin
    <2>3. Below(posts[p].rows, buffers[t])
      BY <1>1, <2>2 DEF OrderedOnce
    <2>4. r < r
      BY <1>3, <2>1, <2>3 DEF Below, Holds, In
    <2> QED
      BY <1>1, <2>2, <2>4
  <1>4. \A p, q \in 1..Len(posts) : p = q \/ q \in p+1..Len(posts) \/ p \in q+1..Len(posts)
    BY <1>1
  <1> QED
    BY <1>2, <1>3, <1>4

\* Every line is in one place.
LEMMA WhereHolds == RInv => Where
  <1> SUFFICES ASSUME RInv PROVE Where
    OBVIOUS
  <1>1. received \in Nat /\ Lines \subseteq Nat
    BY ReceivedBound DEF Lines
  <1>2. \A r : \A t \in Tables : In(r, buffers[t]) => r \in 1..received /\ IsRow(input[r])
    BY RowsOfStdin
  <1>3. ASSUME NEW p \in 1..Len(posts), NEW r \in Lines, Holds(p, r)
        PROVE  ~Held(r) /\ r =< received /\ IsRow(input[r]) /\ Fate(r) = Outcome(p)
    <2>1. ~Held(r) /\ r \in 1..received /\ IsRow(input[r])
      BY <1>3, RowsOfStdin, OneRequest
    <2> DEFINE c == CHOOSE q \in 1..Len(posts) : Holds(q, r)
    <2>2. c \in 1..Len(posts) /\ Holds(c, r)
      BY <1>3
    <2>3. c = p
      BY <1>3, <2>2, OneRequest
    <2>4. Fate(r) = Outcome(c)
      BY <1>1, <1>3, <2>1 DEF Fate
    <2>5. r =< received
      BY <1>1, <2>1
    <2> QED
      BY <2>1, <2>3, <2>4, <2>5, Zenon
  <1>4. ASSUME NEW r \in Lines, Held(r)
        PROVE  r =< received /\ IsRow(input[r]) /\ Fate(r) = "held"
    <2>1. r \in 1..received /\ IsRow(input[r])
      BY <1>2, <1>4 DEF Held
    <2> QED
      BY <1>1, <1>4, <2>1 DEF Fate
  <1>5. \A r \in Lines : r > received => Fate(r) = "unread"
    BY <1>1, SMT DEF Fate
  <1>6. \A r \in Lines : r =< received /\ ~IsRow(input[r]) => Fate(r) = "skipped"
    BY <1>1 DEF Fate
  <1>7. ASSUME NEW r \in Lines, r =< received, IsRow(input[r])
        PROVE  Held(r) \/ \E p \in 1..Len(posts) : Holds(p, r)
    <2>1. r \in 1..received /\ NoRowMislaid
      BY <1>1, <1>7 DEF RInv, IInv, RowsInv, Lines
    <2>2. Route(input[r]) \in Tables
      BY DEF Route, Tables
    <2> QED
      BY <1>7, <2>1, <2>2 DEF NoRowMislaid, Held, InPost
  <1>8. \A p, q \in 1..Len(posts), r \in Lines : Holds(p, r) /\ Holds(q, r) => p = q
    BY OneRequest
  <1>9. \A r \in Lines : r > received \/ r =< received
    BY <1>1
  <1> QED
    BY <1>3, <1>4, <1>5, <1>6, <1>7, <1>8, <1>9 DEF Where

\* A line stays where it is.
LEMMA FateKept ==
    ASSUME Where, Where', NEW r \in Lines,
           r > received => r > received',
           r =< received /\ ~IsRow(input[r]) => r =< received' /\ ~IsRow(input'[r]),
           Held(r) => Held(r)',
           \A p \in 1..Len(posts) : Holds(p, r) =>
               p \in 1..Len(posts') /\ Holds(p, r)' /\ Outcome(p)' = Outcome(p)
    PROVE  Fate(r)' = Fate(r)
  <1>0. Lines' = Lines
    BY DEF Lines
  <1>1. CASE r > received
    BY <1>0, <1>1 DEF Where
  <1>2. CASE r =< received /\ ~IsRow(input[r])
    BY <1>0, <1>2 DEF Where
  <1>3. CASE Held(r)
    BY <1>0, <1>3 DEF Where
  <1>4. ASSUME NEW p \in 1..Len(posts), Holds(p, r)
        PROVE  Fate(r)' = Fate(r)
    <2>1. Fate(r) = Outcome(p)
      BY <1>4 DEF Where
    <2>2. Fate(r)' = Outcome(p)'
      BY <1>0, <1>4 DEF Where
    <2> QED
      BY <1>4, <2>1, <2>2
  <1> QED
    BY <1>1, <1>2, <1>3, <1>4 DEF Where

-----------------------------------------------------------------------------
(* Steps of Delivery.                                                      *)

\* Lines that go together from one fate to another make a move of Delivery.
LEMMA Moves ==
    ASSUME NEW R \in SUBSET Lines, NEW from, NEW to, R # {},
           \A r \in R : Fate(r) = from /\ Fate(r)' = to,
           \A r \in Lines \ R : Fate(r)' = Fate(r)
    PROVE  Promise!Move(R, from, to)
  <1>1. Lines' = Lines
    BY DEF Lines
  <1> QED
    BY <1>1 DEF Promise!Move

\* If no line's fate changes, Delivery sees nothing.
LEMMA Keeps ==
    ASSUME \A r \in Lines : Fate(r)' = Fate(r)
    PROVE  [r \in Lines |-> Fate(r)]' = [r \in Lines |-> Fate(r)]
  <1>1. Lines' = Lines
    BY DEF Lines
  <1> QED
    BY <1>1

\* Requests that stay as they are leave the tables as they are.
LEMMA StoredKept ==
    ASSUME posts' = posts
    PROVE  Stored' = Stored
  BY DEF Stored, Holds, In, Lines

-----------------------------------------------------------------------------
(* What each step of the sink is.                                          *)

\* What the scanner, the ticker and the ends do moves no row.
LEMMA QuietStep ==
    ASSUME RInv, Where, Where',
           \/ Scan \/ ScanEnds \/ SendLine \/ TickFires \/ ReceiveTick
           \/ ReceiveClosed \/ Exit \/ Kill \/ UNCHANGED vars
    PROVE  UNCHANGED Promise!vars
  <1>1. /\ UNCHANGED <<buffers, received, posts>>
        /\ \A i \in 1..received : input'[i] = input[i]
    BY QuietControl DEF RInv
  <1>2. received \in Nat /\ Lines \subseteq Nat
    BY ReceivedBound DEF Lines
  <1>3. ASSUME NEW r \in Lines PROVE Fate(r)' = Fate(r)
    <2>1. r =< received => IsRow(input'[r]) = IsRow(input[r])
      <3>1. r =< received => r \in 1..received
        BY <1>2 DEF Lines
      <3> QED
        BY <1>1, <3>1 DEF IsRow
    <2>2. Held(r) => Held(r)'
      BY <1>1 DEF Held, In, Tables
    <2>3. \A p \in 1..Len(posts) : Holds(p, r) =>
             p \in 1..Len(posts') /\ Holds(p, r)' /\ Outcome(p)' = Outcome(p)
      BY <1>1 DEF Holds, In, Outcome
    <2> QED
      BY <1>1, <2>1, <2>2, <2>3, FateKept
  <1> QED
    BY <1>1, <1>3, Keeps, StoredKept DEF Promise!vars

\* A received line is taken up or skipped.
LEMMA ReceiveStep ==
    ASSUME RInv, Where, Where', ReceiveLine
    PROVE  \E r \in Lines : Promise!Take(r)
  <1>1. TypeOK /\ received \in Nat
    BY ReceivedBound DEF RInv, IInv
  <1> SUFFICES ASSUME NEW n \in Nat, n = received + 1
               PROVE  \E r \in Lines : Promise!Take(r)
    BY <1>1
  <1>2. /\ received < sent /\ received' = n
        /\ UNCHANGED <<input, posts>>
        /\ \/ ~IsRow(input[n]) /\ UNCHANGED buffers
           \/ \E t \in Tables : /\ IsRow(input[n])
                                /\ buffers' = [buffers EXCEPT ![t] = Append(buffers[t], n)]
    BY <1>1, ReceiveFacts
  <1>3. received \in Nat /\ n \in Lines /\ n > received /\ Lines \subseteq Nat
    BY <1>2, ReceivedBound DEF Lines
  <1>4. Fate(n) = "unread" /\ n =< received' /\ Lines' = Lines
    BY <1>2, <1>3 DEF Where, Lines
  <1>5. /\ \A t \in Tables : buffers[t] \in Seq(Nat) /\ Len(buffers[t]) \in Nat
        /\ DOMAIN buffers = Tables
    BY <1>1, BufferTypes DEF TypeOK
  <1>6. ASSUME NEW r, Held(r) PROVE Held(r)'
    <2>1. CASE UNCHANGED buffers
      BY <1>6, <2>1 DEF Held, In, Tables
    <2>2. ASSUME NEW t \in Tables,
                 buffers' = [buffers EXCEPT ![t] = Append(buffers[t], n)]
          PROVE  Held(r)'
      <3>1. /\ buffers'[t] = Append(buffers[t], n)
            /\ \A u \in Tables : u # t => buffers'[u] = buffers[u]
        BY <1>5, <2>2
      <3>2. /\ Len(buffers'[t]) = Len(buffers[t]) + 1
            /\ \A i \in 1..Len(buffers[t]) : buffers'[t][i] = buffers[t][i]
        BY <1>5, <3>1, AppendFacts
      <3>3. PICK u \in Tables : In(r, buffers[u])
        BY <1>6 DEF Held
      <3>4. CASE u # t
        BY <3>1, <3>3, <3>4 DEF Held, In
      <3>5. CASE u = t
        <4>1. \A i \in 1..Len(buffers[t]) : i \in 1..Len(buffers'[t])
          BY <1>5, <3>2
        <4> QED
          BY <3>2, <3>3, <3>5, <4>1 DEF Held, In
      <3> QED
        BY <3>4, <3>5
    <2> QED
      BY <1>2, <2>1, <2>2
  <1>7. \A r : \A p \in 1..Len(posts) : Holds(p, r) =>
           p \in 1..Len(posts') /\ Holds(p, r)' /\ Outcome(p)' = Outcome(p)
    BY <1>2 DEF Holds, In, Outcome
  <1>8. ASSUME NEW r \in Lines \ {n} PROVE Fate(r)' = Fate(r)
    <2>1. r > received => r > received'
      BY <1>2, <1>3
    <2>2. r =< received => r =< received'
      BY <1>2, <1>3
    <2> QED
      BY <1>2, <1>6, <1>7, <2>1, <2>2, FateKept
  <1>9. Stored' = Stored
    BY <1>2, StoredKept
  <1>10. CASE ~IsRow(input[n])
    <2>1. Fate(n)' = "skipped"
      BY <1>2, <1>3, <1>4, <1>10 DEF Where
    <2>2. Promise!Move({n}, "unread", "skipped")
      BY <1>3, <1>4, <1>8, <2>1, Moves
    <2> QED
      BY <1>3, <1>9, <2>2 DEF Promise!Take
  <1>11. ASSUME NEW t \in Tables, IsRow(input[n]),
                buffers' = [buffers EXCEPT ![t] = Append(buffers[t], n)]
         PROVE  \E r \in Lines : Promise!Take(r)
    <2>1. buffers'[t] = Append(buffers[t], n)
      BY <1>5, <1>11
    <2>2. /\ Len(buffers[t]) + 1 \in 1..Len(buffers'[t])
          /\ buffers'[t][Len(buffers[t]) + 1] = n
      BY <1>5, <2>1, AppendFacts
    <2>3. Held(n)'
      BY <2>2 DEF Held, In
    <2>4. Fate(n)' = "held"
      BY <1>3, <1>4, <2>3 DEF Where
    <2>5. Promise!Move({n}, "unread", "held")
      BY <1>3, <1>4, <1>8, <2>4, Moves
    <2> QED
      BY <1>3, <1>9, <2>5 DEF Promise!Take
  <1> QED
    BY <1>2, <1>10, <1>11

\* A flush posts the rows of a buffer.
LEMMA FlushStep ==
    ASSUME RInv, Where, Where', NEW t \in Tables, Flush(t)
    PROVE  (\E R \in SUBSET Lines : Promise!Post(R)) \/ UNCHANGED Promise!vars
  <1>1. TypeOK /\ received \in Nat /\ Lines' = Lines
    BY ReceivedBound DEF RInv, IInv, Lines
  <1> SUFFICES ASSUME NEW n \in Nat, n = Len(posts) + 1,
                      NEW R \in SUBSET Lines,
                      \A r \in Lines : r \in R <=> In(r, buffers[t])
               PROVE  (\E S \in SUBSET Lines : Promise!Post(S)) \/ UNCHANGED Promise!vars
    <2>1. Len(posts) + 1 \in Nat
      BY <1>1, BufferTypes
    <2> DEFINE Q == {r \in Lines : In(r, buffers[t])}
    <2>2. Q \in SUBSET Lines /\ \A r \in Lines : r \in Q <=> In(r, buffers[t])
      OBVIOUS
    <2> QED
      BY <2>1, <2>2
  <1>2. /\ UNCHANGED <<input, received>>
        /\ \A u \in Tables \ {t} : buffers'[u] = buffers[u]
        /\ Len(posts) \in Nat /\ Len(posts') = n
        /\ \A p \in 1..Len(posts) : posts'[p] = posts[p]
        /\ posts'[n] = Batch(t)
    BY <1>1, FlushFacts
  <1>3. posts'[n].rows = buffers[t] /\ posts'[n].reply = "none"
    BY <1>1, <1>2, BatchFacts
  <1>4. ~posts'[n].applied
    BY <1>2 DEF Batch
  <1>5. n \in 1..Len(posts') /\ \A p \in 1..Len(posts) : p \in 1..Len(posts')
    BY <1>2
  <1>6. \A r : \A p \in 1..Len(posts) : Holds(p, r) =>
           p \in 1..Len(posts') /\ Holds(p, r)' /\ Outcome(p)' = Outcome(p)
    BY <1>2, <1>5 DEF Holds, In, Outcome
  <1>7. ASSUME NEW r \in R PROVE Fate(r) = "held" /\ Fate(r)' = "posted"
    <2>1. r \in Lines /\ In(r, buffers[t]) /\ Held(r)
      BY DEF Held
    <2>2. Holds(n, r)'
      BY <1>3, <2>1 DEF Holds, In
    <2>3. Fate(r)' = Outcome(n)'
      BY <1>1, <1>5, <2>1, <2>2 DEF Where
    <2>4. Outcome(n)' = "posted"
      BY <1>3 DEF Outcome
    <2> QED
      BY <2>1, <2>3, <2>4 DEF Where
  <1>8. ASSUME NEW r \in Lines \ R PROVE Fate(r)' = Fate(r)
    <2>1. Held(r) => Held(r)'
      BY <1>2 DEF Held, In
    <2> QED
      BY <1>2, <1>6, <2>1, FateKept
  <1>9. Stored' = Stored
    <2>1. \A p \in 1..Len(posts') : p \in 1..Len(posts) \/ p = n
      BY <1>2
    <2> QED
      BY <1>1, <1>2, <1>4, <1>5, <2>1 DEF Stored, Holds, In
  <1>10. CASE R = {}
    BY <1>8, <1>9, <1>10, Keeps DEF Promise!vars
  <1>11. CASE R # {}
    <2>1. Promise!Move(R, "held", "posted")
      BY <1>7, <1>8, <1>11, Moves
    <2> QED
      BY <1>9, <2>1 DEF Promise!Post
  <1> QED
    BY <1>10, <1>11

\* The server applying a request changes nothing else of any request.
LEMMA ServerFacts ==
    ASSUME TypeOK, NEW p \in 1..Len(posts), ServerInserts(p)
    PROVE  /\ UNCHANGED <<input, received, buffers>>
           /\ ~posts[p].applied /\ posts[p].reply \in {"none", "lost"}
           /\ Len(posts') = Len(posts) /\ posts'[p].applied
           /\ \A q \in 1..Len(posts) : /\ posts'[q].rows = posts[q].rows
                                       /\ posts'[q].reply = posts[q].reply
                                       /\ q # p => posts'[q].applied = posts[q].applied
  <1> DEFINE e == [posts[p] EXCEPT !.applied = TRUE]
  <1>1. posts \in Seq(Posts) /\ posts[p] \in Posts
    BY DEF TypeOK
  <1>2. e \in Posts /\ e.rows = posts[p].rows /\ e.reply = posts[p].reply /\ e.applied
    BY <1>1 DEF Posts
  <1>3. posts' = [posts EXCEPT ![p] = e]
    BY DEF ServerInserts
  <1> HIDE DEF e
  <1>4. /\ Len(posts') = Len(posts) /\ posts'[p] = e
        /\ \A q \in 1..Len(posts) : q # p => posts'[q] = posts[q]
    BY ONLY <1>1, <1>2, <1>3, ReplaceFacts, p \in 1..Len(posts)
  <1> QED
    BY <1>2, <1>4 DEF ServerInserts

\* The server applying a request lands its rows.
LEMMA ServerStep ==
    ASSUME RInv, Where, Where', NEW p \in 1..Len(posts), ServerInserts(p)
    PROVE  (\E R \in SUBSET Lines : Promise!Land(R)) \/ UNCHANGED Promise!vars
  <1> SUFFICES ASSUME NEW R \in SUBSET Lines, \A r \in Lines : r \in R <=> Holds(p, r)
               PROVE  (\E S \in SUBSET Lines : Promise!Land(S)) \/ UNCHANGED Promise!vars
    <2> DEFINE Q == {r \in Lines : Holds(p, r)}
    <2>1. Q \in SUBSET Lines /\ \A r \in Lines : r \in Q <=> Holds(p, r)
      OBVIOUS
    <2> QED
      BY <2>1
  <1>1. /\ UNCHANGED <<input, received, buffers>>
        /\ ~posts[p].applied /\ posts[p].reply \in {"none", "lost"}
        /\ Len(posts') = Len(posts) /\ posts'[p].applied
        /\ \A q \in 1..Len(posts) : /\ posts'[q].rows = posts[q].rows
                                    /\ posts'[q].reply = posts[q].reply
                                    /\ q # p => posts'[q].applied = posts[q].applied
    BY ServerFacts DEF RInv, IInv
  <1>2. Lines' = Lines
    BY DEF Lines
  <1>3. \A r : \A q \in 1..Len(posts) : Holds(q, r)' <=> Holds(q, r)
    BY <1>1 DEF Holds, In
  <1>4. \A q \in 1..Len(posts) : Outcome(q)' = Outcome(q)
    BY <1>1 DEF Outcome
  <1>5. ASSUME NEW r \in Lines PROVE Fate(r)' = Fate(r)
    <2>1. Held(r) => Held(r)'
      BY <1>1 DEF Held, In, Tables
    <2> QED
      BY <1>1, <1>3, <1>4, <2>1, FateKept
  <1>6. \A r \in R : Fate(r) \in {"posted", "unknown"}
    <2>1. \A r \in R : Fate(r) = Outcome(p)
      BY DEF Where
    <2>2. Outcome(p) \in {"posted", "unknown"}
      BY <1>1 DEF Outcome
    <2> QED
      BY <2>1, <2>2
  <1>7. \A r \in R : r \notin Stored
    BY <1>1 DEF Where, Stored
  <1>8. \A r \in Lines : r \in Stored' <=> r \in Stored \/ r \in R
    BY <1>1, <1>2, <1>3 DEF Stored
  <1>9. Stored' = Stored \cup R
    BY <1>2, <1>8 DEF Stored
  <1>10. [r \in Lines |-> Fate(r)]' = [r \in Lines |-> Fate(r)]
    BY <1>5, Keeps
  <1>11. CASE R = {}
    BY <1>9, <1>10, <1>11 DEF Promise!vars
  <1>12. CASE R # {}
    BY <1>6, <1>7, <1>9, <1>10, <1>12 DEF Promise!Land
  <1> QED
    BY <1>11, <1>12

\* The answer to a request changes nothing else of any request.
LEMMA AnswerFacts ==
    ASSUME TypeOK, InFlight, NEW n, n = Len(posts), NEW o \in Replies, Answer(o)
    PROVE  /\ UNCHANGED <<input, received, buffers>>
           /\ n \in 1..Len(posts) /\ posts[n].reply = "none"
           /\ Len(posts') = Len(posts) /\ posts'[n].reply = o
           /\ \A q \in 1..Len(posts) : /\ posts'[q].rows = posts[q].rows
                                       /\ posts'[q].applied = posts[q].applied
                                       /\ q # n => posts'[q].reply = posts[q].reply
  <1> DEFINE e == [posts[n] EXCEPT !.reply = o]
  <1>1. posts \in Seq(Posts) /\ n \in 1..Len(posts) /\ posts[n].reply = "none"
    BY DEF TypeOK, InFlight
  <1>2. posts[n] \in Posts
    BY <1>1
  <1>3. e \in Posts /\ e.rows = posts[n].rows /\ e.applied = posts[n].applied /\ e.reply = o
    BY <1>2 DEF Posts
  <1>4. posts' = [posts EXCEPT ![n] = e] /\ UNCHANGED <<input, received, buffers>>
    BY DEF Answer
  <1> HIDE DEF e
  <1>5. /\ Len(posts') = Len(posts) /\ posts'[n] = e
        /\ \A q \in 1..Len(posts) : q # n => posts'[q] = posts[q]
    BY ONLY <1>1, <1>3, <1>4, ReplaceFacts
  <1> QED
    BY <1>1, <1>3, <1>4, <1>5

\* An answer settles the rows of the request the sink was waiting for.
LEMMA AnswerStep ==
    ASSUME RInv, Where, Where', ReplyOK \/ ReplyError \/ PostFails
    PROVE  \/ \E R \in SUBSET Lines :
                 Promise!Confirm(R) \/ Promise!Refuse(R) \/ Promise!GiveUp(R)
           \/ UNCHANGED Promise!vars
  <1>1. TypeOK /\ InFlight /\ Lines' = Lines
    BY DEF RInv, IInv, Lines, ReplyOK, ReplyError, PostFails
  <1> SUFFICES ASSUME NEW n, n = Len(posts),
                      NEW R \in SUBSET Lines, \A r \in Lines : r \in R <=> Holds(n, r)
               PROVE  \/ \E S \in SUBSET Lines :
                            Promise!Confirm(S) \/ Promise!Refuse(S) \/ Promise!GiveUp(S)
                      \/ UNCHANGED Promise!vars
    <2> DEFINE Q == {r \in Lines : Holds(Len(posts), r)}
    <2>1. Q \in SUBSET Lines /\ \A r \in Lines : r \in Q <=> Holds(Len(posts), r)
      OBVIOUS
    <2> HIDE DEF Q
    <2> QED
      BY <2>1
  <1>2. ASSUME NEW o \in Replies \ {"none"}, Answer(o),
               NEW to, to = CASE o = "ok" -> "flushed" [] o = "error" -> "refused"
                              [] o = "lost" -> "unknown"
        PROVE  /\ R # {} => Promise!Move(R, "posted", to)
               /\ R = {} => [r \in Lines |-> Fate(r)]' = [r \in Lines |-> Fate(r)]
               /\ Stored' = Stored
               /\ posts[n].applied => R \subseteq Stored
               /\ ~posts[n].applied => R \cap Stored = {}
    <2>1. /\ UNCHANGED <<input, received, buffers>>
          /\ n \in 1..Len(posts) /\ posts[n].reply = "none"
          /\ Len(posts') = Len(posts) /\ posts'[n].reply = o
          /\ \A q \in 1..Len(posts) : /\ posts'[q].rows = posts[q].rows
                                      /\ posts'[q].applied = posts[q].applied
                                      /\ q # n => posts'[q].reply = posts[q].reply
      BY <1>1, <1>2, AnswerFacts
    <2>2. \A r : \A q \in 1..Len(posts) : Holds(q, r)' <=> Holds(q, r)
      BY <2>1 DEF Holds, In
    <2>3. /\ Outcome(n) = "posted" /\ Outcome(n)' = to
          /\ \A q \in 1..Len(posts) : q # n => Outcome(q)' = Outcome(q)
      BY <1>2, <2>1 DEF Outcome, Replies
    <2>4. \A r \in R : Fate(r) = "posted" /\ Fate(r)' = to
      BY <1>1, <2>1, <2>2, <2>3 DEF Where
    <2>5. ASSUME NEW r \in Lines \ R PROVE Fate(r)' = Fate(r)
      <3>1. Held(r) => Held(r)'
        BY <2>1 DEF Held, In, Tables
      <3>2. \A q \in 1..Len(posts) : Holds(q, r) => q # n
        OBVIOUS
      <3> QED
        BY <2>1, <2>2, <2>3, <3>1, <3>2, FateKept
    <2>6. Stored' = Stored
      BY <1>1, <2>1, <2>2 DEF Stored
    <2>7. posts[n].applied => R \subseteq Stored
      BY <2>1 DEF Stored
    <2>8. ~posts[n].applied => R \cap Stored = {}
      BY <2>1 DEF Where, Stored
    <2>9. R # {} => Promise!Move(R, "posted", to)
      BY <2>4, <2>5, Moves
    <2>10. R = {} => [r \in Lines |-> Fate(r)]' = [r \in Lines |-> Fate(r)]
      BY <2>5, Keeps
    <2> QED
      BY <2>6, <2>7, <2>8, <2>9, <2>10
  <1>3. CASE R = {}
    <2>1. PICK o \in Replies \ {"none"} : Answer(o)
      BY DEF ReplyOK, ReplyError, PostFails, Replies
    <2> QED
      BY <1>2, <1>3, <2>1 DEF Promise!vars
  <1>4. ASSUME R # {}, ReplyOK PROVE Promise!Confirm(R)
    BY <1>2, <1>4 DEF ReplyOK, Replies, Promise!Confirm
  <1>5. ASSUME R # {}, ReplyError PROVE Promise!Refuse(R)
    BY <1>2, <1>5 DEF ReplyError, Replies, Promise!Refuse
  <1>6. ASSUME R # {}, PostFails PROVE Promise!GiveUp(R)
    BY <1>2, <1>6 DEF PostFails, Replies, Promise!GiveUp
  <1> QED
    BY <1>3, <1>4, <1>5, <1>6

-----------------------------------------------------------------------------
(* The refinement.                                                         *)

\* Nothing is posted or read at the start.
LEMMA InitMaps == Init => RInv /\ Promise!Init
  <1> SUFFICES ASSUME Init PROVE RInv /\ Promise!Init
    OBVIOUS
  <1>1. IInv /\ Bounded
    BY InitIInv, ConfigAssumption DEF Init, Bounded
  <1>2. received = 0 /\ posts = <<>> /\ Lines \subseteq Nat \ {0}
    BY ConfigAssumption DEF Init, Lines
  <1>3. \A r \in Lines : Fate(r) = "unread"
    BY <1>2, SMT DEF Fate
  <1>4. Stored = {}
    BY <1>2 DEF Stored
  <1> QED
    BY <1>1, <1>3, <1>4 DEF RInv, Promise!Init

\* Stdin delivers at most MaxLines lines.
LEMMA NextRInv == RInv /\ [Next]_vars => RInv'
  <1> SUFFICES ASSUME RInv, [Next]_vars PROVE RInv'
    OBVIOUS
  <1>1. TypeOK /\ IInv'
    BY NextIInv DEF RInv, IInv
  <1>2. CASE Scan
    <2>1. PICK k \in Kinds : input' = Append(input, k)
      BY <1>2 DEF Scan
    <2>2. Len(input') = Len(input) + 1
      BY <1>1, <2>1, AppendFacts DEF TypeOK
    <2>3. Len(input) < MaxLines
      BY <1>2 DEF Scan
    <2> QED
      BY <1>1, <2>2, <2>3, ReceivedBound DEF RInv, Bounded
  <1>3. ASSUME ~Scan PROVE UNCHANGED input
    <2>1. CASE ReceiveLine
      BY <1>1, <2>1, ReceiveFacts
    <2>2. CASE \E t \in Tables : Flush(t)
      BY <1>1, <2>2, FlushFacts
    <2>3. CASE \E p \in 1..Len(posts) : ServerInserts(p)
      BY <1>1, <2>3, ServerFacts
    <2>4. CASE ReplyOK \/ ReplyError \/ PostFails
      BY <2>4, AnswerIsReply
    <2>5. CASE \/ ScanEnds \/ SendLine \/ TickFires \/ ReceiveTick
               \/ ReceiveClosed \/ Exit \/ Kill \/ UNCHANGED vars
      BY <2>5 DEF ScanEnds, SendLine, TickFires, ReceiveTick, ReceiveClosed, Exit, Kill, vars
    <2> QED
      BY <1>3, <2>1, <2>2, <2>3, <2>4, <2>5 DEF Next
  <1> QED
    BY <1>1, <1>2, <1>3 DEF RInv, Bounded

\* Only rows that are open move together or are stored.
LEMMA OnlyOpen ==
    ASSUME NEW R \in SUBSET Lines,
           \/ Promise!Post(R) \/ Promise!Land(R)
           \/ Promise!Confirm(R) \/ Promise!Refuse(R) \/ Promise!GiveUp(R)
    PROVE  R \in SUBSET Promise!Open
  BY DEF Promise!Post, Promise!Land, Promise!Confirm, Promise!Refuse, Promise!GiveUp,
         Promise!Move, Promise!Open

\* Every step of the sink is a step of Delivery or changes nothing it sees.
LEMMA NextMaps == RInv /\ RInv' /\ [Next]_vars => [Promise!Next]_(Promise!vars)
  <1> SUFFICES ASSUME RInv, RInv', [Next]_vars
               PROVE  Promise!Next \/ UNCHANGED Promise!vars
    OBVIOUS
  <1>1. Where
    BY WhereHolds
  <1>2. Where'
    BY WhereHolds, PTL
  <1>3. CASE \/ Scan \/ ScanEnds \/ SendLine \/ TickFires \/ ReceiveTick
             \/ ReceiveClosed \/ Exit \/ Kill \/ UNCHANGED vars
    BY <1>1, <1>2, <1>3, QuietStep
  <1>4. CASE ReceiveLine
    BY <1>1, <1>2, <1>4, ReceiveStep DEF Promise!Next
  <1>5. ASSUME NEW t \in Tables, Flush(t)
        PROVE  Promise!Next \/ UNCHANGED Promise!vars
    BY <1>1, <1>2, <1>5, FlushStep, OnlyOpen DEF Promise!Next
  <1>6. ASSUME NEW p \in 1..Len(posts), ServerInserts(p)
        PROVE  Promise!Next \/ UNCHANGED Promise!vars
    BY <1>1, <1>2, <1>6, ServerStep, OnlyOpen DEF Promise!Next
  <1>7. CASE ReplyOK \/ ReplyError \/ PostFails
    BY <1>1, <1>2, <1>7, AnswerStep, OnlyOpen DEF Promise!Next
  <1> QED
    BY <1>3, <1>4, <1>5, <1>6, <1>7 DEF Next

\* Every behaviour of the sink, kills and lost answers included, delivers what
\* Delivery promises: a row is taken up, posted and stored at most once, what
\* InsertBatch reports as done is in its table and what it reports as refused
\* never is.
THEOREM SinkDelivers == Spec => ImplementsDelivery
  BY InitMaps, NextRInv, NextMaps, PTL DEF Spec, ImplementsDelivery, Promise!Spec
============================================================================
