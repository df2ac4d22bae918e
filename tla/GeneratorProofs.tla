-------------------------- MODULE GeneratorProofs --------------------------
(***************************************************************************)
(* Proofs about Generator for every rate, duration, number of scenarios    *)
(* and events, and for posts and sleeps of any length.                     *)
(***************************************************************************)
EXTENDS Generator, FiniteSetTheorems, WellFoundedInduction, TLAPS

Tries == [event : (Scenarios \X Nat) \cup {Random}, at : Nat, outcome : Outcomes]

Final == Outcomes \ {"none"}

-----------------------------------------------------------------------------
(* Sequences of tries.                                                     *)

\* Learning what came of the last try changes nothing else of what was tried.
LEMMA SettleKeeps ==
    ASSUME tries \in Seq(Tries), tries # <<>>, NEW o \in Outcomes, Settle(o)
    PROVE  /\ tries' \in Seq(Tries) /\ Len(tries') = Len(tries)
           /\ Len(tries) \in Nat \ {0}
           /\ \A k \in 1..Len(tries) :
                 /\ tries'[k].event = tries[k].event /\ tries'[k].at = tries[k].at
                 /\ tries'[k].outcome = IF k = Len(tries) THEN o ELSE tries[k].outcome
  <1> DEFINE n == Len(tries)
  <1>1. /\ n \in 1..Len(tries) /\ tries[n] \in Tries
        /\ tries' = [tries EXCEPT ![n] = [tries[n] EXCEPT !.outcome = o]]
    BY DEF Settle
  <1>2. /\ [tries[n] EXCEPT !.outcome = o] \in Tries
        /\ [tries[n] EXCEPT !.outcome = o].event = tries[n].event
        /\ [tries[n] EXCEPT !.outcome = o].at = tries[n].at
        /\ [tries[n] EXCEPT !.outcome = o].outcome = o
    BY <1>1 DEF Tries
  <1> DEFINE e == [tries[n] EXCEPT !.outcome = o]
  <1> HIDE DEF e
  <1>3. /\ tries' = [tries EXCEPT ![n] = e] /\ e \in Tries
        /\ e.event = tries[n].event /\ e.at = tries[n].at /\ e.outcome = o
    BY <1>1, <1>2 DEF e
  <1> QED
    BY <1>1, <1>3

\* A new try comes last and is undecided.
LEMMA TakeAppends ==
    ASSUME TypeOK, Take
    PROVE  /\ tries' \in Seq(Tries) /\ Len(tries') = Len(tries) + 1 /\ Len(tries) \in Nat
           /\ \A k \in 1..Len(tries) : tries'[k] = tries[k]
           /\ tries'[Len(tries) + 1].event = IF queue = <<>> THEN Random ELSE Head(queue)
           /\ tries'[Len(tries) + 1].at = now
           /\ tries'[Len(tries) + 1].outcome = "none"
           /\ queue' \in Seq(Scenarios \X Nat)
  <1> DEFINE ev == IF queue = <<>> THEN Random ELSE Head(queue)
             e == [event |-> ev, at |-> now, outcome |-> "none"]
  <1>0. tries \in Seq(Tries) /\ queue \in Seq(Scenarios \X Nat) /\ now \in Nat
    BY DEF TypeOK, Tries
  <1>1. /\ tries' = Append(tries, e)
        /\ queue' = IF queue = <<>> THEN queue ELSE Tail(queue)
    BY DEF Take
  <1>2. ev \in (Scenarios \X Nat) \cup {Random} /\ queue' \in Seq(Scenarios \X Nat)
    <2>1. CASE queue = <<>>
      BY <1>0, <1>1, <2>1
    <2>2. CASE queue # <<>>
      <3> DEFINE E == Scenarios \X Nat
      <3>1. queue \in Seq(E)
        BY <1>0
      <3> HIDE DEF E
      <3>2. Head(queue) \in E /\ Tail(queue) \in Seq(E)
        BY <2>2, <3>1
      <3> QED
        BY <1>1, <2>2, <3>2 DEF E
    <2> QED
      BY <2>1, <2>2
  <1> HIDE DEF ev
  <1>3. e \in Tries /\ e.event = ev /\ e.at = now /\ e.outcome = "none"
    BY <1>0, <1>2 DEF Tries, Outcomes
  <1> HIDE DEF e
  <1>4. /\ tries' \in Seq(Tries) /\ Len(tries') = Len(tries) + 1 /\ Len(tries) \in Nat
        /\ \A k \in 1..Len(tries) : tries'[k] = tries[k]
        /\ tries'[Len(tries) + 1] = e
    BY <1>0, <1>1, <1>3
  <1> QED
    BY <1>2, <1>3, <1>4 DEF ev

-----------------------------------------------------------------------------
(* Type correctness.                                                       *)

\* The parts of TypeOK that steps change, apart from the rest.
LEMMA TypeParts ==
    ASSUME TypeOK
    PROVE  /\ interval \in Nat /\ now \in Nat /\ sent \in Nat /\ failed \in Nat
           /\ tries \in Seq(Tries) /\ queue \in Seq(Scenarios \X Nat)
           /\ drained \in 0..Len(inject) /\ Len(inject) \in Nat
           /\ seen \subseteq Nat /\ IsFiniteSet(seen)
  <1>1. inject \in Injections /\ interval \in Intervals
    BY DEF TypeOK
  <1>2. Injections \subseteq Seq(Scenarios) /\ Intervals \subseteq Nat
    BY GeneratorAssumption
  <1>3. Len(inject) \in Nat /\ interval \in Nat
    BY <1>1, <1>2
  <1> QED
    BY <1>3 DEF TypeOK, Tries

\* Neither a try nor a sleep turns back the clock.
LEMMA TimeTypes ==
    ASSUME TypeOK, TimePasses
    PROVE  now' \in Nat /\ now' >= now
  <1>1. PICK d \in 0..PostTime : now' = now + d
    BY DEF TimePasses
  <1>2. PostTime \in Nat /\ now \in Nat
    BY GeneratorAssumption, TypeParts
  <1> QED
    BY <1>1, <1>2

\* The port of a probe is a number.
LEMMA PortTypes == \A n \in Nat : (n + 1) * 17 % 65535 \in Nat
  BY SMT

\* Each answer, what it settles and what it counts.
LEMMA Answered ==
    ASSUME PostAccepted \/ PostRejected \/ PostError \/ WriteOut
    PROVE  /\ pc = "try" /\ pc' = "sleep" /\ TimePasses
           /\ UNCHANGED <<config, code, fillVars, queue, reader>>
           /\ \/ ~dry /\ Settle("accepted") /\ sent' = sent + 1 /\ failed' = failed
              \/ /\ ~dry /\ sent' = sent /\ failed' = failed + 1
                 /\ \E o \in {"rejected", "error"} : Settle(o)
              \/ dry /\ Settle("printed") /\ sent' = sent /\ failed' = failed
  BY DEF PostAccepted, PostRejected, PostError, PostFailed, WriteOut

\* The steps of filling the queue.
Fills == FillBruteForce \/ FillPort \/ FillPortsDone

\* Filling the queue keeps the types of all that it touches.
LEMMA FillTypes ==
    ASSUME TypeOK, Fills
    PROVE  /\ drained' \in 0..Len(inject) /\ seen' \subseteq Nat /\ IsFiniteSet(seen')
           /\ queue' \in Seq(Scenarios \X Nat)
           /\ UNCHANGED <<config, pc, code, now, tries, sent, failed, reader>>
  <1> DEFINE E == Scenarios \X Nat
  <1>0. /\ drained \in 0..Len(inject) /\ Len(inject) \in Nat
        /\ seen \subseteq Nat /\ IsFiniteSet(seen) /\ queue \in Seq(E)
    BY TypeParts
  <1>1. CASE FillBruteForce
    <2> DEFINE burst == [k \in 1..Attempts + 1 |-> <<"brute_force_ssh", k>>]
    <2>1. burst \in Seq(E)
      <3>1. Attempts + 1 \in Nat
        BY GeneratorAssumption
      <3>2. \A k \in 1..Attempts + 1 : <<"brute_force_ssh", k>> \in E
        BY <3>1 DEF Scenarios
      <3> HIDE DEF E
      <3> QED
        BY <3>1, <3>2
    <2>2. /\ drained' = drained + 1 /\ drained < Len(inject)
          /\ queue' = queue \o burst
          /\ UNCHANGED <<config, pc, code, seen, now, tries, sent, failed, reader>>
      BY <1>1 DEF FillBruteForce, Filling
    <2> HIDE DEF burst, E
    <2>3. queue' \in Seq(E)
      BY <1>0, <2>1, <2>2
    <2>4. seen' = seen
      BY <2>2
    <2> QED
      BY <1>0, <2>2, <2>3, <2>4 DEF E
  <1>2. CASE FillPort
    <2> DEFINE e == <<"port_scan", NextPort(seen)>>
    <2>1. NextPort(seen) \in Nat
      <3>1. Cardinality(seen) \in Nat
        BY <1>0, FS_CardinalityType
      <3> QED
        BY <3>1, SMT DEF NextPort
    <2>2. /\ seen' = seen \cup {NextPort(seen)} /\ queue' = Append(queue, e)
          /\ UNCHANGED <<config, pc, code, drained, now, tries, sent, failed, reader>>
      BY <1>2 DEF FillPort
    <2>3. e \in E
      BY <2>1 DEF Scenarios
    <2> HIDE DEF E, e
    <2>4. queue' \in Seq(E)
      BY <1>0, <2>2, <2>3
    <2>5. seen' \subseteq Nat /\ IsFiniteSet(seen')
      BY <1>0, <2>1, <2>2, FS_AddElement
    <2> QED
      BY <1>0, <2>2, <2>4, <2>5 DEF E
  <1>3. CASE FillPortsDone
    <2>1. /\ drained' = drained + 1 /\ drained < Len(inject)
          /\ seen' = {} /\ queue' = queue
          /\ UNCHANGED <<config, pc, code, now, tries, sent, failed, reader>>
      BY <1>3 DEF FillPortsDone, Filling
    <2>2. IsFiniteSet({})
      BY FS_EmptySet
    <2>3. drained' \in 0..Len(inject)
      BY <1>0, <2>1
    <2> QED
      BY <1>0, <2>1, <2>2, <2>3
  <1> QED
    BY <1>1, <1>2, <1>3 DEF Fills

\* The remaining types after a step that leaves the command line alone.
LEMMA OtherTypes ==
    ASSUME TypeOK, UNCHANGED <<config, fillVars, reader>>,
           queue' \in Seq(Scenarios \X Nat), tries' \in Seq(Tries),
           now' \in Nat, sent' \in Nat, failed' \in Nat,
           pc' \in {"fill", "loop", "try", "sleep", "ended", "killed"}, code' \in {0, 1}
    PROVE  TypeOK'
  BY DEF TypeOK, Tries, config, fillVars

\* Something has been tried as soon as the loop has left its test.
Begun == pc \in {"try", "sleep"} => tries # <<>>

\* Every step keeps the types.
LEMMA NextTypes == TypeOK /\ Begun /\ [Next]_vars => TypeOK' /\ Begun'
  <1> SUFFICES ASSUME TypeOK, Begun, [Next]_vars
               PROVE  TypeOK' /\ Begun'
    OBVIOUS
  <1>0. /\ now \in Nat /\ sent \in Nat /\ failed \in Nat /\ interval \in Nat
        /\ tries \in Seq(Tries) /\ queue \in Seq(Scenarios \X Nat)
        /\ pc \in {"fill", "loop", "try", "sleep", "ended", "killed"} /\ code \in {0, 1}
    BY TypeParts DEF TypeOK
  <1>1. CASE Fills
    BY <1>1, FillTypes DEF TypeOK, Begun, config
  <1>2. CASE StartLoop \/ Done \/ Kill
    <2>1. /\ UNCHANGED <<config, fillVars, queue, now, tries, sent, failed, reader>>
          /\ pc' \in {"loop", "ended", "killed"} /\ code' \in {0, 1}
      BY <1>0, <1>2 DEF StartLoop, Done, Kill
    <2> QED
      BY <1>0, <2>1, OtherTypes DEF Begun
  <1>3. CASE Take
    <2>1. /\ UNCHANGED <<config, code, fillVars, now, sent, failed, reader>> /\ pc' = "try"
      BY <1>3 DEF Take
    <2>2. /\ tries' \in Seq(Tries) /\ Len(tries') = Len(tries) + 1 /\ Len(tries) \in Nat
          /\ queue' \in Seq(Scenarios \X Nat)
      BY <1>3, TakeAppends
    <2>3. tries' # <<>>
      BY <2>2
    <2> QED
      BY <1>0, <2>1, <2>2, <2>3, OtherTypes DEF Begun
  <1>4. CASE PostAccepted \/ PostRejected \/ PostError \/ WriteOut
    <2>1. /\ pc = "try" /\ pc' = "sleep" /\ TimePasses
          /\ UNCHANGED <<config, code, fillVars, queue, reader>>
          /\ \E o \in {"accepted", "rejected", "error", "printed"} : Settle(o)
          /\ sent' \in Nat /\ failed' \in Nat
      BY <1>0, <1>4, Answered
    <2>2. tries' \in Seq(Tries) /\ Len(tries') = Len(tries) /\ Len(tries) \in Nat \ {0}
      BY <1>0, <2>1, SettleKeeps DEF Begun, Outcomes
    <2>3. tries' # <<>>
      BY <2>2
    <2>4. now' \in Nat
      BY <2>1, TimeTypes
    <2> QED
      BY <1>0, <2>1, <2>2, <2>3, <2>4, OtherTypes DEF Begun
  <1>5. CASE Raises
    <2>1. /\ pc = "try" /\ pc' = "ended" /\ code' = 1 /\ Settle("raised")
          /\ UNCHANGED <<config, fillVars, queue, now, sent, failed, reader>>
      BY <1>5 DEF Raises
    <2>2. tries' \in Seq(Tries)
      BY <1>0, <2>1, SettleKeeps DEF Begun, Outcomes
    <2> QED
      BY <1>0, <2>1, <2>2, OtherTypes DEF Begun
  <1>6. CASE Sleep
    <2>1. /\ pc' = "loop"
          /\ UNCHANGED <<config, code, fillVars, queue, tries, sent, failed, reader>>
      BY <1>6 DEF Sleep
    <2>2. now' \in Nat
      BY <1>0, <1>6, GeneratorAssumption DEF Sleep
    <2> QED
      BY <1>0, <2>1, <2>2, OtherTypes DEF Begun
  <1>7. CASE ReaderDies \/ UNCHANGED vars
    BY <1>7 DEF ReaderDies, TypeOK, Begun, vars, config, fillVars
  <1> QED
    BY <1>1, <1>2, <1>3, <1>4, <1>5, <1>6, <1>7 DEF Next, Steps, Fills

-----------------------------------------------------------------------------
(* The pace.                                                               *)

\* The clock has not fallen behind the last try, and once the loop is back at
\* its test the interval is over.
Waited ==
    /\ pc = "fill" => tries = <<>>
    /\ (pc \in {"try", "sleep"}) => now >= tries[Len(tries)].at
    /\ (pc = "loop" /\ tries # <<>>) => now >= tries[Len(tries)].at + interval

\* Every step keeps the pace, and what the clock owes to the last try.
LEMMA NextPace ==
    TypeOK /\ Begun /\ Waited /\ PacedByRate /\ [Next]_vars => Waited' /\ PacedByRate'
  <1> SUFFICES ASSUME TypeOK, Begun, Waited, PacedByRate, [Next]_vars
               PROVE  Waited' /\ PacedByRate'
    OBVIOUS
  <1>0. now \in Nat /\ interval \in Nat /\ tries \in Seq(Tries) /\ Len(tries) \in Nat
    <2>1. now \in Nat /\ interval \in Nat /\ tries \in Seq(Tries)
      BY TypeParts
    <2> QED
      BY <2>1
  <1>1. \A k \in 1..Len(tries) : tries[k].at \in Nat
    <2>1. \A k \in 1..Len(tries) : tries[k] \in Tries
      BY <1>0
    <2> QED
      BY <2>1 DEF Tries
  <1>2. tries # <<>> => Len(tries) \in 1..Len(tries)
    BY <1>0
  \* Nothing is tried and no try changes its time.
  <1>3. ASSUME UNCHANGED interval, Len(tries') = Len(tries),
               \A k \in 1..Len(tries) : tries'[k].at = tries[k].at
        PROVE  PacedByRate'
    BY <1>0, <1>3 DEF PacedByRate
  <1>4. CASE Fills \/ ReaderDies \/ UNCHANGED vars
    <2>1. UNCHANGED <<pc, tries, now, interval>>
      BY <1>4, FillTypes DEF ReaderDies, vars, config
    <2> QED
      BY <2>1, <1>3 DEF Waited
  <1>5. CASE StartLoop \/ Done \/ Kill
    <2>1. /\ UNCHANGED <<tries, now, interval>>
          /\ (pc = "fill" /\ pc' = "loop") \/ pc' \in {"ended", "killed"}
      BY <1>5 DEF StartLoop, Done, Kill, config
    <2> QED
      BY <2>1, <1>3 DEF Waited
  <1>6. CASE Take
    <2>1. /\ UNCHANGED <<now, interval>> /\ pc = "loop" /\ pc' = "try"
      BY <1>6 DEF Take, config
    <2>2. /\ Len(tries') = Len(tries) + 1
          /\ \A k \in 1..Len(tries) : tries'[k] = tries[k]
          /\ tries'[Len(tries) + 1].at = now
      BY <1>6, TakeAppends
    <2>3. Waited'
      BY <1>0, <2>1, <2>2 DEF Waited
    <2>4. ASSUME NEW k \in 1..Len(tries') - 1
          PROVE  tries'[k + 1].at >= tries'[k].at + interval'
      <3>1. k \in 1..Len(tries) /\ tries'[k] = tries[k] /\ tries # <<>>
        BY <1>0, <2>2
      <3>2. CASE k = Len(tries)
        BY <2>1, <2>2, <3>1, <3>2 DEF Waited
      <3>3. CASE k # Len(tries)
        <4>1. k \in 1..Len(tries) - 1 /\ k + 1 \in 1..Len(tries)
          BY <1>0, <3>1, <3>3
        <4> QED
          BY <2>1, <2>2, <3>1, <4>1 DEF PacedByRate
      <3> QED
        BY <3>2, <3>3
    <2> QED
      BY <2>3, <2>4 DEF PacedByRate
  <1>7. CASE PostAccepted \/ PostRejected \/ PostError \/ WriteOut \/ Raises
    <2>1. /\ pc = "try" /\ pc' \in {"sleep", "ended"} /\ (TimePasses \/ UNCHANGED now)
          /\ UNCHANGED interval
          /\ \E o \in {"accepted", "rejected", "error", "printed", "raised"} : Settle(o)
      BY <1>7, Answered DEF Raises, config
    <2>2. /\ Len(tries') = Len(tries) /\ Len(tries) \in Nat \ {0}
          /\ \A k \in 1..Len(tries) : tries'[k].at = tries[k].at
      BY <1>0, <2>1, SettleKeeps DEF Begun, Outcomes
    <2>3. now' \in Nat /\ now' >= now
      BY <1>0, <2>1, TimeTypes
    <2>4. now >= tries[Len(tries)].at /\ tries[Len(tries)].at \in Nat
      BY <2>1, <2>2, <1>1 DEF Waited
    <2>5. Waited'
      BY <1>0, <2>1, <2>2, <2>3, <2>4 DEF Waited
    <2> QED
      BY <2>1, <2>2, <2>5, <1>3
  <1>8. CASE Sleep
    <2>1. /\ pc = "sleep" /\ pc' = "loop" /\ UNCHANGED <<tries, interval>>
      BY <1>8 DEF Sleep, config
    <2>2. PICK s \in 0..Slack : now' = IF interval = 0 THEN now ELSE now + interval + s
      BY <1>8 DEF Sleep
    <2>3. now' >= now + interval /\ now' \in Nat
      BY <1>0, <2>2, GeneratorAssumption
    <2>4. tries[Len(tries)].at \in Nat /\ now >= tries[Len(tries)].at
      BY <1>1, <1>2, <2>1 DEF Waited, Begun
    <2>5. Waited'
      BY <1>0, <2>1, <2>3, <2>4 DEF Waited
    <2> QED
      BY <2>1, <2>5, <1>3
  <1> QED
    BY <1>4, <1>5, <1>6, <1>7, <1>8 DEF Next, Steps, Fills

\* Nothing has been tried when the process starts.
LEMMA InitHolds == Init => TypeOK /\ Begun /\ Waited /\ PacedByRate
  <1> SUFFICES ASSUME Init PROVE TypeOK /\ Begun /\ Waited /\ PacedByRate
    OBVIOUS
  <1>1. tries = <<>> /\ queue = <<>> /\ pc = "fill"
    BY DEF Init
  <1>2. TypeOK
    <2>1. Len(inject) \in Nat
      BY GeneratorAssumption DEF Init
    <2>2. seen \subseteq Nat /\ IsFiniteSet(seen)
      BY FS_EmptySet DEF Init
    <2>3. /\ tries \in Seq([event : (Scenarios \X Nat) \cup {Random}, at : Nat,
                            outcome : Outcomes])
          /\ queue \in Seq(Scenarios \X Nat)
      BY <1>1
    <2>4. inject \in Injections /\ interval \in Intervals /\ dry \in BOOLEAN
          /\ code = 0 /\ drained = 0 /\ now = 0 /\ sent = 0 /\ failed = 0 /\ reader = TRUE
      BY DEF Init
    <2> QED
      BY <1>1, <2>1, <2>2, <2>3, <2>4 DEF TypeOK
  <1>3. Begun /\ Waited
    BY <1>1 DEF Begun, Waited
  <1>4. PacedByRate
    <2>1. Len(tries) = 0
      BY <1>1
    <2> QED
      BY <2>1 DEF PacedByRate
  <1> QED
    BY <1>2, <1>3, <1>4

\* The generator's variables keep their types, whatever --inject and --rate ask
\* for and however long the posts and the sleeps take.
THEOREM TypeCorrect == Spec => []TypeOK
  <1>1. Init => TypeOK /\ Begun
    BY InitHolds
  <1>2. TypeOK /\ Begun /\ [Next]_vars => (TypeOK /\ Begun)'
    BY NextTypes
  <1> QED
    BY <1>1, <1>2, PTL DEF Spec

\* The loop keeps its pace: whatever came of a try, an error of the target
\* included, the next one starts no sooner than the interval after it.
THEOREM PaceKept == Spec => []PacedByRate
  <1>1. Init => TypeOK /\ Begun /\ Waited /\ PacedByRate
    BY InitHolds
  <1>2. TypeOK /\ Begun /\ Waited /\ PacedByRate /\ [Next]_vars
          => (TypeOK /\ Begun /\ Waited /\ PacedByRate)'
    BY NextTypes, NextPace
  <1> QED
    BY <1>1, <1>2, PTL DEF Spec

-----------------------------------------------------------------------------
(* The exit status.                                                        *)

\* The tries of s that ended one of the ways in W.
Hits(s, W) == {k \in 1..Len(s) : s[k].outcome \in W}

\* The tries with some outcome are finitely many.
LEMMA HitsFinite ==
    ASSUME NEW s \in Seq(Tries), NEW W
    PROVE  /\ Hits(s, W) \subseteq 1..Len(s) /\ IsFiniteSet(1..Len(s))
           /\ Cardinality(1..Len(s)) = Len(s) /\ Len(s) \in Nat
           /\ IsFiniteSet(Hits(s, W)) /\ Cardinality(Hits(s, W)) \in Nat
  <1>1. Len(s) \in Nat
    OBVIOUS
  <1>2. IsFiniteSet(1..Len(s)) /\ Cardinality(1..Len(s)) = Len(s)
    BY <1>1, FS_Interval
  <1>3. Hits(s, W) \subseteq 1..Len(s)
    BY DEF Hits
  <1>4. IsFiniteSet(Hits(s, W))
    BY <1>2, <1>3, FS_Subset
  <1> QED
    BY <1>1, <1>2, <1>3, <1>4, FS_CardinalityType

\* Settling the last try adds at most that one.
LEMMA HitsSettled ==
    ASSUME NEW s \in Seq(Tries), NEW t \in Seq(Tries), NEW W,
           s # <<>>, Len(t) = Len(s),
           \A k \in 1..Len(s) : k # Len(s) => t[k].outcome = s[k].outcome,
           s[Len(s)].outcome \notin W
    PROVE  Cardinality(Hits(t, W)) =
             Cardinality(Hits(s, W)) + (IF t[Len(s)].outcome \in W THEN 1 ELSE 0)
  <1> DEFINE n == Len(s)
  <1>1. n \in 1..n /\ n \notin Hits(s, W)
    BY DEF Hits
  <1>2. IsFiniteSet(Hits(s, W)) /\ Cardinality(Hits(s, W)) \in Nat
    BY HitsFinite
  <1>3. CASE t[n].outcome \in W
    <2>1. Hits(t, W) = Hits(s, W) \cup {n}
      BY <1>1, <1>3 DEF Hits
    <2> QED
      BY <1>1, <1>2, <1>3, <2>1, FS_AddElement
  <1>4. CASE t[n].outcome \notin W
    <2>1. Hits(t, W) = Hits(s, W)
      BY <1>1, <1>4 DEF Hits
    <2> QED
      BY <1>2, <1>4, <2>1
  <1> QED
    BY <1>3, <1>4

\* A try that is still undecided counts nowhere.
LEMMA HitsTaken ==
    ASSUME NEW s \in Seq(Tries), NEW t \in Seq(Tries), NEW W,
           Len(t) = Len(s) + 1, \A k \in 1..Len(s) : t[k] = s[k],
           t[Len(s) + 1].outcome \notin W
    PROVE  Hits(t, W) = Hits(s, W)
  <1>1. Len(s) \in Nat /\ 1..Len(t) = 1..Len(s) \cup {Len(s) + 1}
    BY SMT
  <1> QED
    BY <1>1 DEF Hits

\* How a try can end.
Ends == IF dry THEN {"printed"} ELSE {"accepted", "rejected", "error"}

\* Only the last try can be undecided or have raised.  What raised has ended
\* the process with a status of 1.
Settled ==
    /\ \A k \in 1..Len(tries) :
          tries[k].outcome \in Ends \/ (k = Len(tries) /\ tries[k].outcome \in {"none", "raised"})
    /\ pc = "try" => tries[Len(tries)].outcome = "none"
    /\ pc \in {"fill", "loop", "sleep"} => \A k \in 1..Len(tries) : tries[k].outcome \in Ends
    /\ sent = Cardinality(Hits(tries, {"accepted"}))
    /\ failed = Cardinality(Hits(tries, {"rejected", "error"}))
    /\ pc = "ended" => (code = 0 <=> Hits(tries, {"accepted", "printed"}) = 1..Len(tries))

\* Nothing is counted before the first try.
LEMMA InitSettled == Init => Settled
  <1> SUFFICES ASSUME Init PROVE Settled
    OBVIOUS
  <1>1. tries = <<>> /\ Len(tries) = 0 /\ pc = "fill" /\ sent = 0 /\ failed = 0
    BY DEF Init
  <1>2. Hits(tries, {"accepted"}) = {} /\ Hits(tries, {"rejected", "error"}) = {}
    BY <1>1 DEF Hits
  <1>3. Cardinality({}) = 0
    BY FS_EmptySet
  <1>4. 1..Len(tries) = {}
    BY <1>1
  <1> QED
    BY <1>1, <1>2, <1>3, <1>4 DEF Settled

\* Every step keeps the counters those of the tries.
LEMMA NextSettled == TypeOK /\ Begun /\ Waited /\ Settled /\ [Next]_vars => Settled'
  <1> SUFFICES ASSUME TypeOK, Begun, Waited, Settled, [Next]_vars
               PROVE  Settled'
    OBVIOUS
  <1>0. tries \in Seq(Tries) /\ Len(tries) \in Nat /\ sent \in Nat /\ failed \in Nat
    <2>1. tries \in Seq(Tries) /\ sent \in Nat /\ failed \in Nat
      BY TypeParts
    <2> QED
      BY <2>1
  <1>1. CASE Fills \/ ReaderDies \/ UNCHANGED vars
    <2>1. UNCHANGED <<pc, code, tries, sent, failed, dry>>
      BY <1>1, FillTypes DEF ReaderDies, vars, config
    <2> QED
      BY <2>1 DEF Settled, Ends
  <1>2. CASE StartLoop \/ Kill
    <2>1. /\ UNCHANGED <<tries, sent, failed, dry>>
          /\ (pc = "fill" /\ pc' = "loop") \/ pc' = "killed"
      BY <1>2 DEF StartLoop, Kill, config
    <2> QED
      BY <2>1 DEF Settled, Ends
  <1>3. CASE Take
    <2>1. UNCHANGED <<sent, failed, dry>> /\ pc = "loop" /\ pc' = "try"
      BY <1>3 DEF Take, config
    <2>2. /\ tries' \in Seq(Tries) /\ Len(tries') = Len(tries) + 1
          /\ \A k \in 1..Len(tries) : tries'[k] = tries[k]
          /\ tries'[Len(tries) + 1].outcome = "none"
      BY <1>3, TakeAppends
    <2>3. \A k \in 1..Len(tries) : tries[k].outcome \in Ends
      BY <2>1 DEF Settled
    <2>4. \A k \in 1..Len(tries') : k \in 1..Len(tries) \/ k = Len(tries')
      BY <1>0, <2>2
    <2>5. Ends' = Ends
      BY <2>1 DEF Ends
    <2>6. /\ \A k \in 1..Len(tries') :
                tries'[k].outcome \in Ends' \/ (k = Len(tries') /\ tries'[k].outcome = "none")
          /\ tries'[Len(tries')].outcome = "none"
      BY <2>2, <2>3, <2>4, <2>5
    <2>7. /\ Hits(tries', {"accepted"}) = Hits(tries, {"accepted"})
          /\ Hits(tries', {"rejected", "error"}) = Hits(tries, {"rejected", "error"})
      BY <1>0, <2>2, HitsTaken
    <2> QED
      BY <2>1, <2>6, <2>7 DEF Settled
  <1>4. ASSUME NEW o \in Outcomes, Settle(o), pc = "try"
        PROVE  /\ tries' \in Seq(Tries) /\ Len(tries') = Len(tries) /\ Len(tries) \in 1..Len(tries)
               /\ tries'[Len(tries)].outcome = o
               /\ \A k \in 1..Len(tries) : k # Len(tries) => tries'[k].outcome \in Ends
               /\ \A W : "none" \notin W =>
                     Cardinality(Hits(tries', W)) =
                       Cardinality(Hits(tries, W)) + (IF o \in W THEN 1 ELSE 0)
    <2>1. tries # <<>> /\ tries[Len(tries)].outcome = "none"
      BY <1>4 DEF Begun, Settled
    <2>2. /\ tries' \in Seq(Tries) /\ Len(tries') = Len(tries)
          /\ \A k \in 1..Len(tries) :
                tries'[k].outcome = IF k = Len(tries) THEN o ELSE tries[k].outcome
      BY <1>0, <1>4, <2>1, SettleKeeps
    <2>3. Len(tries) \in 1..Len(tries) /\ tries'[Len(tries)].outcome = o
      BY <1>0, <2>1, <2>2
    <2>4. \A k \in 1..Len(tries) : k # Len(tries) => tries'[k].outcome \in Ends
      BY <2>2 DEF Settled
    <2>5. ASSUME NEW W, "none" \notin W
          PROVE  Cardinality(Hits(tries', W)) =
                   Cardinality(Hits(tries, W)) + (IF o \in W THEN 1 ELSE 0)
      BY <1>0, <2>1, <2>2, <2>3, <2>5, HitsSettled
    <2> QED
      BY <2>2, <2>3, <2>4, <2>5
  <1>5. CASE PostAccepted \/ PostRejected \/ PostError \/ WriteOut
    <2>1. pc = "try" /\ pc' = "sleep" /\ UNCHANGED dry
      BY <1>5, Answered DEF config
    <2>2. PICK o \in Ends :
            /\ Settle(o)
            /\ sent' = sent + (IF o \in {"accepted"} THEN 1 ELSE 0)
            /\ failed' = failed + (IF o \in {"rejected", "error"} THEN 1 ELSE 0)
      BY <1>0, <1>5, Answered DEF Ends
    <2>3. o \in Outcomes
      BY DEF Ends, Outcomes
    <2>4. \A k \in 1..Len(tries') : tries'[k].outcome \in Ends'
      BY <1>4, <2>1, <2>2, <2>3 DEF Ends
    <2>5. /\ sent' = Cardinality(Hits(tries', {"accepted"}))
          /\ failed' = Cardinality(Hits(tries', {"rejected", "error"}))
      BY <1>4, <2>1, <2>2, <2>3 DEF Settled
    <2> QED
      BY <2>1, <2>4, <2>5 DEF Settled
  <1>6. CASE Raises
    <2>1. /\ pc = "try" /\ pc' = "ended" /\ code' = 1 /\ Settle("raised")
          /\ UNCHANGED <<dry, sent, failed>> /\ "raised" \in Outcomes
      BY <1>6 DEF Raises, config, Outcomes
    <2>2. /\ \A k \in 1..Len(tries') : tries'[k].outcome \in Ends'
                 \/ (k = Len(tries') /\ tries'[k].outcome = "raised")
          /\ Len(tries) \in 1..Len(tries') /\ tries'[Len(tries)].outcome = "raised"
      BY <1>4, <2>1 DEF Ends
    <2>3. /\ sent' = Cardinality(Hits(tries', {"accepted"}))
          /\ failed' = Cardinality(Hits(tries', {"rejected", "error"}))
      <3>1. /\ Cardinality(Hits(tries', {"accepted"}))
                 = Cardinality(Hits(tries, {"accepted"})) + 0
            /\ Cardinality(Hits(tries', {"rejected", "error"}))
                 = Cardinality(Hits(tries, {"rejected", "error"})) + 0
        BY <1>4, <2>1
      <3> QED
        BY <1>0, <2>1, <3>1 DEF Settled
    <2>4. Hits(tries', {"accepted", "printed"}) # 1..Len(tries')
      BY <2>2 DEF Hits
    <2> QED
      BY <2>1, <2>2, <2>3, <2>4 DEF Settled
  <1>7. CASE Sleep
    <2>1. pc = "sleep" /\ pc' = "loop" /\ UNCHANGED <<tries, sent, failed, dry>>
      BY <1>7 DEF Sleep, config
    <2> QED
      BY <2>1 DEF Settled, Ends
  <1>8. CASE Done
    <2>1. /\ pc = "loop" /\ pc' = "ended" /\ UNCHANGED <<tries, sent, failed, dry>>
          /\ code' = IF dry \/ failed = 0 THEN 0 ELSE 1
      BY <1>8 DEF Done, config
    <2>2. \A k \in 1..Len(tries) : tries[k].outcome \in Ends
      BY <2>1 DEF Settled
    <2> DEFINE bad == Hits(tries, {"rejected", "error"})
    <2>3. IsFiniteSet(bad) /\ failed = Cardinality(bad)
      BY <1>0, HitsFinite DEF Settled
    <2>4. failed = 0 <=> bad = {}
      BY <2>3, FS_EmptySet
    <2>5. Hits(tries, {"accepted", "printed"}) = 1..Len(tries) <=> (dry \/ bad = {})
      BY <2>2 DEF Hits, Ends
    <2> QED
      BY <2>1, <2>2, <2>4, <2>5 DEF Settled, Ends
  <1> QED
    BY <1>1, <1>2, <1>3, <1>5, <1>6, <1>7, <1>8 DEF Next, Steps, Fills

\* A set of tries is all of them when it has as many members.
LEMMA SettledTells == TypeOK /\ Settled => ExitTellsFailures
  <1> SUFFICES ASSUME TypeOK, Settled PROVE ExitTellsFailures
    OBVIOUS
  <1> DEFINE good == Hits(tries, {"accepted", "printed"})
  <1>1. tries \in Seq(Tries)
    BY TypeParts
  <1>2. /\ good \subseteq 1..Len(tries) /\ IsFiniteSet(1..Len(tries))
        /\ Cardinality(1..Len(tries)) = Len(tries)
    BY <1>1, HitsFinite
  <1>3. Cardinality(good) = Len(tries) <=> good = 1..Len(tries)
    BY <1>2, FS_Subset
  <1>4. \A W : Count(W) = Cardinality(Hits(tries, W))
    BY DEF Count, Hits
  <1> QED
    BY <1>3, <1>4 DEF Settled, ExitTellsFailures

\* The exit status tells whether everything came off: it is 0 exactly if no
\* try was refused, failed or raised, and the two counters of the log are right.
THEOREM FailuresTold == Spec => []ExitTellsFailures
  <1>1. Init => TypeOK /\ Begun /\ Waited /\ PacedByRate /\ Settled
    BY InitHolds, InitSettled
  <1>2. TypeOK /\ Begun /\ Waited /\ PacedByRate /\ Settled /\ [Next]_vars
          => (TypeOK /\ Begun /\ Waited /\ PacedByRate /\ Settled)'
    BY NextTypes, NextPace, NextSettled
  <1>3. TypeOK /\ Settled => ExitTellsFailures
    BY SettledTells
  <1> QED
    BY <1>1, <1>2, <1>3, PTL DEF Spec

-----------------------------------------------------------------------------
(* The order.                                                              *)

\* A set of natural numbers that is not empty has a least element.
LEMMA Least ==
    ASSUME NEW T \in SUBSET Nat, T # {}
    PROVE  \E x \in T : \A y \in T : x =< y
  <1> DEFINE R == OpToRel(<, Nat)
  <1>1. IsWellFoundedOn(R, Nat)
    BY NatLessThanWellFounded
  <1> SUFFICES ASSUME NEW less, less = R PROVE \E x \in T : \A y \in T : x =< y
    OBVIOUS
  <1>2. \A x, y \in Nat : <<x, y>> \in less <=> x < y
    BY DEF OpToRel
  <1> HIDE DEF R
  <1>3. PICK x \in T : \A y \in T : ~ (<<y, x>> \in less)
    BY <1>1, WFMin
  <1>4. ASSUME NEW y \in T PROVE x =< y
    <2>1. x \in Nat /\ y \in Nat /\ ~ (y < x)
      BY <1>2, <1>3
    <2> QED
      BY <2>1
  <1> QED
    BY <1>4

\* A set that holds a number whenever it holds all smaller ones holds all.
LEMMA SetInduction ==
    ASSUME NEW S, \A n \in Nat : (\A m \in 0..n-1 : m \in S) => n \in S
    PROVE  \A n \in Nat : n \in S
  <1> SUFFICES ASSUME Nat \ S # {} PROVE FALSE
    OBVIOUS
  <1>1. PICK x \in Nat \ S : \A y \in Nat \ S : x =< y
    BY Least
  <1>2. \A m \in 0..x-1 : m \in S
    BY <1>1
  <1> QED
    BY <1>1, <1>2

\* Extending a sequence of sequences by one.
Step(f, s, i) == IF i = 1 THEN s[i] ELSE f[i-1] \o s[i]

\* FlattenSeq joins one sequence after the other: h[i] is what the first i of
\* them give.
Joins(h, s, E) ==
    /\ h[0] = <<>>
    /\ \A i \in 1..Len(s) : h[i] = h[i-1] \o s[i]
    /\ \A i \in 0..Len(s) : h[i] \in Seq(E)
    /\ FlattenSeq(s) = h[Len(s)]

\* There is a function as FlattenSeq defines it.
LEMMA StepsExist ==
    ASSUME NEW n \in Nat, NEW s
    PROVE  \E f : f = [i \in 1..n |-> Step(f, s, i)]
  <1> DEFINE Ok(m) == \E f : f = [i \in 1..m |-> Step(f, s, i)]
             S == {m \in Nat : Ok(m)}
  <1>1. Ok(0)
    <2> DEFINE f == [i \in 1..0 |-> <<>>]
    <2>1. f = [i \in 1..0 |-> Step(f, s, i)]
      OBVIOUS
    <2> HIDE DEF f
    <2> QED
      BY <2>1
  <1>2. ASSUME NEW m \in Nat, Ok(m)
        PROVE  Ok(m + 1)
    <2>1. PICK f : f = [i \in 1..m |-> Step(f, s, i)]
      BY <1>2
    <2> DEFINE g == [i \in 1..m+1 |-> IF i = m + 1 THEN Step(f, s, i) ELSE f[i]]
    <2>2. ASSUME NEW i \in 1..m+1
          PROVE  g[i] = Step(g, s, i)
      <3>1. g[i] = Step(f, s, i)
        BY <2>1
      <3>2. i # 1 => i - 1 \in 1..m+1 /\ i - 1 # m + 1
        OBVIOUS
      <3>3. i # 1 => g[i-1] = f[i-1]
        BY <3>2
      <3> HIDE DEF g
      <3> QED
        BY <3>1, <3>3 DEF Step
    <2>3. g = [i \in 1..m+1 |-> Step(g, s, i)]
      BY <2>2
    <2> HIDE DEF g
    <2> QED
      BY <2>3
  <1> HIDE DEF Ok
  <1>3. ASSUME NEW m \in Nat, \A i \in 0..m-1 : i \in S
        PROVE  m \in S
    <2>1. CASE m = 0
      BY <1>1, <2>1
    <2>2. CASE m # 0
      <3>1. m - 1 \in Nat /\ m - 1 \in S /\ m - 1 + 1 = m
        BY <1>3, <2>2
      <3> QED
        BY <1>2, <3>1
    <2> QED
      BY <2>1, <2>2
  <1>4. n \in S
    <2> HIDE DEF S
    <2> QED
      BY <1>3, SetInduction
  <1> QED
    BY <1>4 DEF Ok

\* Joining a sequence of sequences has the partial results that FlattenSeq
\* asks for.
LEMMA FlattenJoins ==
    ASSUME NEW E, NEW s \in Seq(Seq(E))
    PROVE  \E h : Joins(h, s, E)
  <1> SUFFICES ASSUME NEW n \in Nat, n = Len(s)
               PROVE  \E h : Joins(h, s, E)
    OBVIOUS
  <1>1. CASE n = 0
    <2> DEFINE h == [i \in 0..0 |-> <<>>]
    <2>1. FlattenSeq(s) = <<>>
      <3>1. Len(s) = 0
        BY <1>1
      <3>2. s = <<>>
        <4>1. ASSUME NEW S, NEW u \in Seq(S), Len(u) = 0 PROVE u = <<>>
          BY ONLY <4>1
        <4> QED
          BY <3>1, <4>1
      <3>3. FlattenSeq(s) = s
        BY ONLY <3>1 DEF FlattenSeq
      <3> QED
        BY <3>2, <3>3
    <2>2. Joins(h, s, E)
      BY <1>1, <2>1 DEF Joins
    <2> HIDE DEF h
    <2> QED
      BY <2>2
  <1>2. CASE n # 0
    <2> DEFINE P(f) == f = [i \in 1..n |-> Step(f, s, i)]
               flat == CHOOSE f : P(f)
    <2>1. FlattenSeq(s) = flat[n]
      BY <1>2 DEF FlattenSeq, Step
    <2>2. \E f : P(f)
      BY StepsExist
    <2> HIDE DEF P
    <2>3. P(flat)
      BY <2>2
    <2> HIDE DEF flat
    <2> USE DEF P
    <2> DEFINE h == [i \in 0..n |-> IF i = 0 THEN <<>> ELSE flat[i]]
               T == {i \in Nat : i =< n => h[i] \in Seq(E)}
    <2>4. \A i \in 1..n : s[i] \in Seq(E)
      OBVIOUS
    <2>5. ASSUME NEW i \in 1..n PROVE h[i] = h[i-1] \o s[i]
      <3>1. h[i] = Step(flat, s, i)
        <4>1. h[i] = flat[i]
          OBVIOUS
        <4>2. \A j \in 1..n : flat[j] = Step(flat, s, j)
          BY <2>3, Zenon
        <4> QED
          BY <4>1, <4>2
      <3>2. CASE i = 1
        <4>1. h[i] = s[i] /\ h[i-1] = <<>>
          BY <3>1, <3>2 DEF Step
        <4> HIDE DEF h
        <4> QED
          BY <2>4, <4>1
      <3>3. CASE i # 1
        <4>1. h[i-1] = flat[i-1]
          BY <3>3
        <4> QED
          BY <3>1, <3>3, <4>1 DEF Step
      <3> QED
        BY <3>2, <3>3
    <2>6. h[0] = <<>> /\ h[n] = flat[n]
      BY <1>2
    <2> HIDE DEF h
    <2>7. ASSUME NEW m \in Nat, \A i \in 0..m-1 : i \in T
          PROVE  m \in T
      <3>1. CASE m = 0
        <4>1. <<>> \in Seq(E)
          OBVIOUS
        <4>2. h[m] \in Seq(E)
          BY <2>6, <3>1, <4>1
        <4> QED
          BY <4>2
      <3>2. CASE m # 0 /\ m =< n
        <4>1. m - 1 \in T /\ m - 1 =< n /\ m \in 1..n
          BY <2>7, <3>2
        <4>2. h[m-1] \in Seq(E) /\ h[m] = h[m-1] \o s[m] /\ s[m] \in Seq(E)
          BY <2>4, <2>5, <4>1
        <4>3. h[m] \in Seq(E)
          BY <4>2
        <4> QED
          BY <4>3
      <3> QED
        BY <3>1, <3>2
    <2>8. \A i \in 0..n : h[i] \in Seq(E)
      <3>1. \A i \in Nat : i \in T
        <4> HIDE DEF T
        <4> QED
          BY <2>7, SetInduction
      <3> QED
        BY <3>1
    <2>9. Joins(h, s, E)
      BY <2>1, <2>5, <2>6, <2>8 DEF Joins
    <2> QED
      BY <2>9
  <1> QED
    BY <1>1, <1>2

\* Joining nothing.
LEMMA ConcatEmpty ==
    ASSUME NEW S, NEW s \in Seq(S)
    PROVE  s \o <<>> = s
  OBVIOUS

\* A queue from which the first element is taken.
LEMMA TailFacts ==
    ASSUME NEW S, NEW q \in Seq(S), q # <<>>
    PROVE  /\ Len(q) \in Nat \ {0} /\ Len(Tail(q)) = Len(q) - 1 /\ Head(q) = q[1]
           /\ \A j \in 1..Len(q) - 1 : Tail(q)[j] = q[j+1]
  OBVIOUS

Events == Scenarios \X Nat

Burst == [k \in 1..Attempts + 1 |-> <<"brute_force_ssh", k>>]

\* The first n probes of the scan.
Probe(k) == <<"port_scan", 17 * k>>

Probes(n) == [k \in 1..n |-> Probe(k)]

\* One more probe of a scan comes behind the others.
LEMMA ProbesGrow ==
    ASSUME NEW n \in Nat
    PROVE  /\ Probes(n) \in Seq(Events) /\ Probes(0) = <<>>
           /\ Probe(n + 1) \in Events
           /\ Probes(n + 1) = Append(Probes(n), Probe(n + 1))
  <1>1. \A k \in Nat : Probe(k) \in Events
    BY DEF Events, Scenarios, Probe
  <1>2. Probes(n) \in Seq(Events) /\ Len(Probes(n)) = n
    <2> HIDE DEF Events, Probe
    <2> QED
      BY <1>1 DEF Probes
  <1>3. Probes(0) = <<>>
    BY DEF Probes
  <1>4. n + 1 \in Nat /\ Probe(n + 1) \in Events
    BY <1>1
  <1>5. Probes(n + 1) = Append(Probes(n), Probe(n + 1))
    <2>1. Append(Probes(n), Probe(n + 1))
            = [k \in 1..n+1 |-> IF k = n + 1 THEN Probe(n + 1) ELSE Probes(n)[k]]
      BY <1>2, <1>4
    <2>2. \A k \in 1..n+1 : (IF k = n + 1 THEN Probe(n + 1) ELSE Probes(n)[k]) = Probe(k)
      BY DEF Probes
    <2> QED
      BY <2>1, <2>2 DEF Probes
  <1> QED
    BY <1>2, <1>3, <1>4, <1>5

Expansions == [i \in 1..Len(inject) |-> Expansion(inject[i])]

\* Ahead[i]: the events of the first i scenarios.
Ahead == CHOOSE h : Joins(h, Expansions, Events)

\* The plan grows by one scenario after the other.
LEMMA AheadFacts ==
    ASSUME TypeOK
    PROVE  /\ Len(inject) \in Nat /\ Ahead[0] = <<>> /\ Plan = Ahead[Len(inject)]
           /\ \A i \in 0..Len(inject) : Ahead[i] \in Seq(Events)
           /\ \A i \in 0..Len(inject) - 1 :
                 /\ inject[i+1] = "brute_force_ssh" => Ahead[i+1] = Ahead[i] \o Burst
                 /\ inject[i+1] = "port_scan" => Ahead[i+1] = Ahead[i] \o Probes(Ports)
                 /\ inject[i+1] \in Scenarios
           /\ Burst \in Seq(Events)
  <1>1. inject \in Seq(Scenarios) /\ Len(inject) \in Nat
    <2>1. inject \in Seq(Scenarios)
      BY GeneratorAssumption DEF TypeOK
    <2> QED
      BY <2>1
  <1>2. Attempts + 1 \in Nat /\ Ports \in Nat
    BY GeneratorAssumption
  <1>3. Burst \in Seq(Events)
    <2>1. \A k \in Nat : <<"brute_force_ssh", k>> \in Events
      BY DEF Events, Scenarios
    <2> HIDE DEF Events
    <2> QED
      BY <1>2, <2>1 DEF Burst
  <1>4. /\ Expansion("brute_force_ssh") = Burst
        /\ Expansion("port_scan") = Probes(Ports)
    BY DEF Expansion, Burst, Probes, Probe
  <1>5. \A i \in 1..Len(inject) : inject[i] \in Scenarios
    BY <1>1
  <1>6. \A i \in 1..Len(inject) : Expansion(inject[i]) \in Seq(Events)
    BY <1>2, <1>3, <1>4, <1>5, ProbesGrow DEF Scenarios
  <1>7. Expansions \in Seq(Seq(Events)) /\ Len(Expansions) = Len(inject)
    <2> DEFINE E == Seq(Events)
    <2> HIDE DEF E
    <2>1. Expansions \in Seq(E) /\ Len(Expansions) = Len(inject)
      BY <1>1, <1>6 DEF Expansions, E
    <2> QED
      BY <2>1 DEF E
  <1>8. Joins(Ahead, Expansions, Events)
    <2>1. \E h : Joins(h, Expansions, Events)
      BY <1>7, FlattenJoins
    <2> QED
      BY <2>1, Zenon DEF Ahead
  <1>9. Plan = FlattenSeq(Expansions)
    BY DEF Plan, Expansions
  <1>10. \A i \in 0..Len(inject) - 1 : Ahead[i+1] = Ahead[i] \o Expansion(inject[i+1])
    <2>1. ASSUME NEW i \in 0..Len(inject) - 1
          PROVE  Ahead[i+1] = Ahead[i] \o Expansion(inject[i+1])
      <3>1. i + 1 \in 1..Len(inject) /\ (i + 1) - 1 = i
        BY <1>1
      <3>2. Ahead[i+1] = Ahead[(i+1)-1] \o Expansions[i+1]
        BY <1>7, <1>8, <3>1 DEF Joins
      <3>3. Expansions[i+1] = Expansion(inject[i+1])
        BY <3>1 DEF Expansions
      <3> QED
        BY <3>1, <3>2, <3>3
    <2> QED
      BY <2>1
  <1>11. \A i \in 0..Len(inject) - 1 : inject[i+1] \in Scenarios
    BY <1>1, <1>5
  <1>12. /\ Ahead[0] = <<>> /\ Plan = Ahead[Len(inject)]
         /\ \A i \in 0..Len(inject) : Ahead[i] \in Seq(Events)
    BY <1>7, <1>8, <1>9 DEF Joins
  <1> QED
    BY <1>1, <1>3, <1>4, <1>10, <1>11, <1>12

\* While the queue is being filled it holds the scenarios that are drained and,
\* of the scan that is not, a probe for each port it has seen.  A scan of more
\* than 3854 ports never gets any further than that.
FilledTo(c) ==
    /\ c =< Ports /\ c =< 3854 /\ Cardinality(seen) = c
    /\ queue = Ahead[drained] \o Probes(c)
    /\ c > 0 => drained < Len(inject) /\ inject[drained + 1] = "port_scan"

Filled == \E c \in Nat : FilledTo(c)

\* After that it holds what of the plan is still to be tried.
Remaining ==
    /\ Len(queue) = IF Len(tries) < Len(Plan) THEN Len(Plan) - Len(tries) ELSE 0
    /\ \A j \in 1..Len(queue) : queue[j] = Plan[Len(tries) + j]

Order ==
    /\ pc = "fill" => tries = <<>> /\ Filled
    /\ pc \in {"loop", "try", "sleep", "ended"} => Remaining
    /\ ScenariosFirst

\* Each round of the filling adds the next events of the plan.
LEMMA FillOrder ==
    ASSUME TypeOK, Filled, Fills
    PROVE  Filled'
  <1>0. /\ drained \in 0..Len(inject) /\ Len(inject) \in Nat
        /\ IsFiniteSet(seen) /\ Ports \in Nat
    BY TypeParts, GeneratorAssumption
  <1> SUFFICES ASSUME NEW d \in 0..Len(inject), d = drained, NEW a, a = Ahead
               PROVE  Filled'
    BY <1>0
  <1>1. /\ UNCHANGED inject /\ Ahead' = a
    BY FillTypes DEF config, Ahead, Expansions
  <1>2. PICK c \in Nat : FilledTo(c)
    BY DEF Filled
  <1>3. /\ c =< Ports /\ c =< 3854 /\ Cardinality(seen) = c
        /\ c > 0 => d < Len(inject) /\ inject[d + 1] = "port_scan"
    BY <1>2 DEF FilledTo
  <1>4. queue = a[d] \o Probes(c) /\ a[d] \in Seq(Events) /\ Probes(c) \in Seq(Events)
    BY <1>0, <1>2, AheadFacts, ProbesGrow DEF FilledTo
  <1>5. d < Len(inject) =>
           /\ inject[d+1] = "brute_force_ssh" => a[d+1] = a[d] \o Burst
           /\ inject[d+1] = "port_scan" => a[d+1] = a[d] \o Probes(Ports)
           /\ a[d+1] \in Seq(Events)
    <2>1. d < Len(inject) => d \in 0..Len(inject) - 1 /\ d + 1 \in 0..Len(inject)
      BY <1>0
    <2> QED
      BY <2>1, AheadFacts
  <1>6. Probes(0) = <<>>
    BY ProbesGrow
  \* Another scenario is drained.
  <1>7. ASSUME UNCHANGED inject, drained' = d + 1, Cardinality(seen') = 0,
               queue' = a[d+1], a[d+1] \in Seq(Events)
        PROVE  Filled'
    <2>1. queue' = a[d+1] \o <<>>
      BY <1>7, ConcatEmpty
    <2>2. queue' = Ahead'[drained'] \o Probes(0)
      BY <1>1, <1>6, <1>7, <2>1
    <2>3. FilledTo(0)'
      BY <1>0, <1>7, <2>2 DEF FilledTo
    <2> QED
      BY <2>3 DEF Filled
  <1>8. CASE FillBruteForce
    <2>1. /\ d < Len(inject) /\ inject[d + 1] = "brute_force_ssh"
          /\ drained' = d + 1 /\ seen' = seen
      BY <1>8 DEF FillBruteForce, Filling
    <2>2. queue' = queue \o Burst
      BY <1>8 DEF FillBruteForce, Burst
    <2>3. c = 0
      BY <1>3, <2>1
    <2>4. queue = a[d]
      BY <1>4, <1>6, <2>3, ConcatEmpty
    <2>5. queue' = a[d+1] /\ a[d+1] \in Seq(Events)
      BY <1>5, <2>1, <2>2, <2>4
    <2> QED
      BY <1>1, <1>3, <1>7, <2>1, <2>3, <2>5
  <1>9. CASE FillPort
    <2>1. /\ d < Len(inject) /\ inject[d + 1] = "port_scan"
          /\ Cardinality(seen) < Ports /\ NextPort(seen) \notin seen /\ NextPort(seen) # 0
          /\ seen' = seen \cup {NextPort(seen)} /\ drained' = d
      BY <1>9 DEF FillPort, Filling
    <2>2. queue' = Append(queue, <<"port_scan", NextPort(seen)>>)
      BY <1>9 DEF FillPort
    <2>3. NextPort(seen) = (c + 1) * 17 % 65535
      BY <1>3 DEF NextPort
    <2>4. c < 3854 /\ NextPort(seen) = 17 * (c + 1)
      BY <1>3, <2>1, <2>3
    <2>5. Cardinality(seen') = c + 1
      BY <1>0, <1>3, <2>1, FS_AddElement
    <2>6. queue' = Append(a[d] \o Probes(c), Probe(c + 1))
      BY <1>4, <2>2, <2>4 DEF Probe
    <2>7. queue' = a[d] \o Probes(c + 1)
      <3>1. /\ Probe(c + 1) \in Events
            /\ Probes(c + 1) = Append(Probes(c), Probe(c + 1))
        BY ProbesGrow
      <3>2. SUFFICES ASSUME NEW s \in Seq(Events), s = a[d], NEW t \in Seq(Events), t = Probes(c),
                            NEW e \in Events, e = Probe(c + 1)
                     PROVE  queue' = s \o Append(t, e)
        BY <1>4, <3>1
      <3>3. queue' = Append(s \o t, e)
        BY <2>6, <3>2
      <3>4. Append(s \o t, e) = s \o Append(t, e)
        OBVIOUS
      <3> QED
        BY <3>3, <3>4
    <2>8. c + 1 \in Nat /\ c + 1 =< Ports /\ c + 1 =< 3854
      BY <1>0, <1>3, <2>1, <2>4
    <2>9. queue' = Ahead'[drained'] \o Probes(c + 1)
      BY <1>1, <2>1, <2>7
    <2>10. FilledTo(c + 1)'
      BY <1>1, <2>1, <2>5, <2>8, <2>9 DEF FilledTo
    <2> QED
      BY <2>8, <2>10 DEF Filled
  <1>10. CASE FillPortsDone
    <2>1. /\ d < Len(inject) /\ inject[d + 1] = "port_scan"
          /\ Cardinality(seen) >= Ports
          /\ seen' = {} /\ drained' = d + 1 /\ queue' = queue
      BY <1>10 DEF FillPortsDone, Filling
    <2>2. c = Ports
      BY <1>0, <1>3, <2>1
    <2>3. queue' = a[d+1] /\ a[d+1] \in Seq(Events)
      BY <1>4, <1>5, <2>1, <2>2
    <2>4. Cardinality(seen') = 0
      BY <2>1, FS_EmptySet
    <2> QED
      BY <1>1, <1>7, <2>1, <2>3, <2>4
  <1> QED
    BY <1>8, <1>9, <1>10 DEF Fills

\* Each try takes what the plan has next, or a random event when there is
\* nothing left of it.
LEMMA TakeOrder ==
    ASSUME TypeOK, Take, Remaining, ScenariosFirst, Plan \in Seq(Events), Plan' = Plan
    PROVE  Remaining' /\ ScenariosFirst'
  <1> DEFINE n == Len(tries)
             m == Len(Plan)
  <1>0. queue \in Seq(Events) /\ n \in Nat /\ m \in Nat /\ Len(queue) \in Nat
    <2>1. queue \in Seq(Events) /\ tries \in Seq(Tries)
      BY TypeParts DEF Events
    <2> QED
      BY <2>1
  <1>1. /\ Len(tries') = n + 1
        /\ \A k \in 1..n : tries'[k] = tries[k]
        /\ tries'[n+1].event = IF queue = <<>> THEN Random ELSE Head(queue)
    BY TakeAppends
  <1>2. queue' = IF queue = <<>> THEN queue ELSE Tail(queue)
    BY DEF Take
  <1>3. /\ Len(queue) = IF n < m THEN m - n ELSE 0
        /\ \A j \in 1..Len(queue) : queue[j] = Plan[n+j]
    BY DEF Remaining
  <1>4. \A k \in 1..n : tries[k].event = IF k =< m THEN Plan[k] ELSE Random
    BY DEF ScenariosFirst
  <1> SUFFICES /\ Len(queue') = IF n + 1 < m THEN m - (n + 1) ELSE 0
               /\ \A j \in 1..Len(queue') : queue'[j] = Plan[n+1+j]
               /\ tries'[n+1].event = IF n + 1 =< m THEN Plan[n+1] ELSE Random
    <2>1. \A k \in 1..Len(tries') : k \in 1..n \/ k = n + 1
      BY <1>0, <1>1
    <2> HIDE DEF n, m
    <2> QED
      BY <1>1, <1>4, <2>1 DEF n, m, Remaining, ScenariosFirst
  <1>5. CASE queue = <<>>
    <2>1. Len(queue) = 0 /\ queue' = <<>> /\ Len(queue') = 0
      BY <1>2, <1>5
    <2>2. ~(n < m)
      BY <1>0, <1>3, <2>1
    <2> HIDE DEF n, m
    <2> QED
      BY <1>0, <1>1, <1>5, <2>1, <2>2
  <1>6. CASE queue # <<>>
    <2>1. /\ Len(queue) \in Nat \ {0} /\ queue' = Tail(queue) /\ Len(queue') = Len(queue) - 1
          /\ Head(queue) = queue[1] /\ \A j \in 1..Len(queue) - 1 : queue'[j] = queue[j+1]
      BY <1>0, <1>2, <1>6, TailFacts
    <2> HIDE DEF n, m
    <2>2. n < m /\ Len(queue) = m - n /\ Len(queue') = m - (n + 1)
      BY <1>0, <1>3, <2>1
    <2>3. ASSUME NEW j \in 1..Len(queue')
          PROVE  queue'[j] = Plan[n+1+j]
      <3>1. j \in 1..Len(queue) - 1 /\ j + 1 \in 1..Len(queue) /\ n + (j + 1) = n + 1 + j
        BY <1>0, <2>1, <2>2
      <3> QED
        BY <1>3, <2>1, <3>1
    <2>4. Head(queue) = Plan[n+1]
      <3>1. 1 \in 1..Len(queue)
        BY <2>1
      <3> QED
        BY <1>3, <2>1, <3>1
    <2> QED
      BY <1>0, <1>1, <1>6, <2>2, <2>3, <2>4
  <1> QED
    BY <1>5, <1>6

\* Every step keeps the tries a beginning of the plan.
LEMMA NextOrder == TypeOK /\ Begun /\ Order /\ [Next]_vars => Order'
  <1> SUFFICES ASSUME TypeOK, Begun, Order, [Next]_vars
               PROVE  Order'
    OBVIOUS
  <1>0. /\ tries \in Seq(Tries) /\ Len(tries) \in Nat
        /\ Plan \in Seq(Events) /\ drained \in 0..Len(inject)
    <2>1. tries \in Seq(Tries) /\ drained \in 0..Len(inject) /\ Len(inject) \in Nat
      BY TypeParts
    <2>2. Len(inject) \in 0..Len(inject)
      BY <2>1
    <2> QED
      BY <2>1, <2>2, AheadFacts
  <1>1. UNCHANGED inject => Plan' = Plan /\ Ahead' = Ahead
    BY DEF Plan, Ahead, Expansions
  <1>2. CASE Fills
    <2>1. UNCHANGED <<inject, pc, tries>>
      BY <1>2, FillTypes DEF config
    <2>2. pc = "fill"
      BY <1>2 DEF Fills, FillBruteForce, FillPort, FillPortsDone, Filling
    <2>3. Filled'
      BY <1>2, <2>2, FillOrder DEF Order
    <2> QED
      BY <1>1, <2>1, <2>2, <2>3 DEF Order, ScenariosFirst
  <1>3. CASE StartLoop
    <2>1. /\ pc = "fill" /\ drained = Len(inject) /\ pc' = "loop"
          /\ UNCHANGED <<inject, tries, queue>>
      BY <1>3 DEF StartLoop, config
    <2>2. PICK c \in Nat : FilledTo(c)
      BY <2>1 DEF Order, Filled
    <2>3. c = 0
      BY <1>0, <2>1, <2>2 DEF FilledTo
    <2>4. queue = Plan
      <3>1. queue = Ahead[drained] \o Probes(0)
        BY <2>2, <2>3 DEF FilledTo
      <3>2. Probes(0) = <<>> /\ Ahead[drained] = Plan
        BY <2>1, AheadFacts, ProbesGrow
      <3>3. queue = Plan \o <<>>
        BY <3>1, <3>2
      <3> QED
        BY <1>0, <3>3, ConcatEmpty
    <2>5. tries = <<>> /\ Len(tries) = 0 /\ Len(Plan) \in Nat
      BY <1>0, <2>1 DEF Order
    <2>6. Remaining
      BY <2>4, <2>5 DEF Remaining
    <2> QED
      BY <1>1, <2>1, <2>6 DEF Order, Remaining, ScenariosFirst
  <1>4. CASE Take
    <2>1. pc = "loop" /\ pc' = "try" /\ UNCHANGED inject
      BY <1>4 DEF Take, config
    <2>2. Remaining' /\ ScenariosFirst'
      BY <1>0, <1>1, <1>4, <2>1, TakeOrder DEF Order
    <2> QED
      BY <2>1, <2>2 DEF Order
  <1>5. CASE PostAccepted \/ PostRejected \/ PostError \/ WriteOut \/ Raises
    <2>1. /\ pc = "try" /\ pc' \in {"sleep", "ended"} /\ UNCHANGED <<inject, queue>>
          /\ \E o \in {"accepted", "rejected", "error", "printed", "raised"} : Settle(o)
      BY <1>5, Answered DEF Raises, config
    <2>2. /\ Len(tries') = Len(tries)
          /\ \A k \in 1..Len(tries) : tries'[k].event = tries[k].event
      BY <1>0, <2>1, SettleKeeps DEF Begun, Outcomes
    <2>3. Remaining' /\ ScenariosFirst'
      BY <1>1, <2>1, <2>2 DEF Order, Remaining, ScenariosFirst
    <2> QED
      BY <2>1, <2>3 DEF Order
  <1>6. CASE Sleep \/ Done \/ Kill
    <2>1. /\ UNCHANGED <<inject, queue, tries>>
          /\ \/ pc \in {"sleep", "loop"} /\ pc' \in {"loop", "ended"}
             \/ pc' = "killed"
      BY <1>6 DEF Sleep, Done, Kill, config
    <2> QED
      BY <1>1, <2>1 DEF Order, Remaining, ScenariosFirst
  <1>7. CASE ReaderDies \/ UNCHANGED vars
    <2>1. UNCHANGED <<inject, queue, tries, pc, drained, seen>>
      BY <1>7 DEF ReaderDies, vars, config, fillVars
    <2> QED
      BY <1>1, <2>1 DEF Order, Remaining, ScenariosFirst, Filled, FilledTo
  <1> QED
    BY <1>2, <1>3, <1>4, <1>5, <1>6, <1>7 DEF Next, Steps, Fills

\* Nothing has been tried or drained at the start.
LEMMA InitOrder == Init => Order
  <1> SUFFICES ASSUME Init PROVE Order
    OBVIOUS
  <1>1. TypeOK /\ pc = "fill" /\ tries = <<>> /\ queue = <<>> /\ drained = 0 /\ seen = {}
    BY InitHolds DEF Init
  <1>2. Ahead[drained] = <<>> /\ Probes(0) = <<>> /\ <<>> \o <<>> = <<>>
    BY <1>1, AheadFacts, ProbesGrow
  <1>3. Cardinality(seen) = 0 /\ Ports \in Nat
    BY <1>1, FS_EmptySet, GeneratorAssumption
  <1>4. FilledTo(0)
    BY <1>1, <1>2, <1>3 DEF FilledTo
  <1>5. Len(tries) = 0
    BY <1>1
  <1> QED
    BY <1>1, <1>4, <1>5 DEF Order, Filled, ScenariosFirst

\* The events of the scenarios are tried first, as the command line orders them,
\* each once and whatever came of the one before, and random ones after that.
THEOREM OrderKept == Spec => []ScenariosFirst
  <1>1. Init => TypeOK /\ Begun /\ Order
    BY InitHolds, InitOrder
  <1>2. TypeOK /\ Begun /\ Order /\ [Next]_vars => (TypeOK /\ Begun /\ Order)'
    BY NextTypes, NextOrder
  <1>3. Order => ScenariosFirst
    BY DEF Order
  <1> QED
    BY <1>1, <1>2, <1>3, PTL DEF Spec

-----------------------------------------------------------------------------
(* The deadline.                                                           *)

\* Rounds add up.
LEMMA Multiples ==
    /\ \A m, n, r \in Nat : m =< n => m * r =< n * r
    /\ \A n, r \in Nat : (n + 1) * r = n * r + r /\ n * r \in Nat
  BY SMT

\* Nothing takes longer than its share of a round, and the deadline is looked at
\* once a round.
Timely ==
    /\ \A k \in 1..Len(tries) : tries[k].at < Duration
    /\ now < Duration + Round
    /\ pc = "fill" => now = 0 /\ tries = <<>>
    /\ pc = "loop" => now =< Len(tries) * Round
    /\ pc = "try" => now < Duration /\ now + Round =< Len(tries) * Round
    /\ pc = "sleep" => now < Duration + PostTime /\ now + Round =< Len(tries) * Round + PostTime
    /\ pc = "ended" => \/ \E k \in 1..Len(tries) : tries[k].outcome = "raised"
                       \/ Duration =< Len(tries) * Round

\* Every step keeps the clock within what the tries so far can take.
LEMMA NextTimely == TypeOK /\ Begun /\ Timely /\ [Next]_vars => Timely'
  <1> SUFFICES ASSUME TypeOK, Begun, Timely, [Next]_vars
               PROVE  Timely'
    OBVIOUS
  <1>0. tries \in Seq(Tries) /\ Len(tries) \in Nat /\ now \in Nat /\ interval \in Nat
    <2>1. tries \in Seq(Tries) /\ now \in Nat /\ interval \in Nat
      BY TypeParts
    <2> QED
      BY <2>1
  <1> SUFFICES ASSUME NEW r \in Nat, r = Round, NEW n \in Nat, n = Len(tries)
               PROVE  Timely'
    BY <1>0, GeneratorAssumption DEF Round
  <1>1. /\ Duration \in Nat /\ PostTime \in Nat \ {0} /\ Slack \in Nat
        /\ r = PostTime + (IF interval = 0 THEN 0 ELSE interval + Slack)
        /\ UNCHANGED interval => Round' = r
    BY GeneratorAssumption DEF Round
  <1>2. (n + 1) * r = n * r + r /\ n * r \in Nat
    BY Multiples
  <1> DEFINE total == n * r
  <1>3. /\ \A k \in 1..n : tries[k].at < Duration
        /\ now < Duration + r
        /\ pc = "fill" => now = 0 /\ tries = <<>>
        /\ pc = "loop" => now =< total
        /\ pc = "try" => now < Duration /\ now + r =< total
        /\ pc = "sleep" => now < Duration + PostTime /\ now + r =< total + PostTime
        /\ pc = "ended" => (\E k \in 1..n : tries[k].outcome = "raised") \/ Duration =< total
    BY DEF Timely
  <1>4. total \in Nat
    BY <1>2
  <1> HIDE DEF total
  \* The tries stay what they are.
  <1>5. ASSUME UNCHANGED interval, Len(tries') = n,
               \A k \in 1..n : tries'[k].at = tries[k].at,
               /\ now' < Duration + r
               /\ pc' = "fill" => now' = 0 /\ tries' = <<>>
               /\ pc' = "loop" => now' =< total
               /\ pc' = "try" => now' < Duration /\ now' + r =< total
               /\ pc' = "sleep" => now' < Duration + PostTime /\ now' + r =< total + PostTime
               /\ pc' = "ended" => \/ \E k \in 1..n : tries'[k].outcome = "raised"
                                   \/ Duration =< total
        PROVE  Timely'
    BY <1>1, <1>3, <1>5 DEF Timely, total
  <1>6. CASE Fills \/ ReaderDies \/ UNCHANGED vars
    <2>1. UNCHANGED <<interval, tries, now, pc>>
      BY <1>6, FillTypes DEF ReaderDies, vars, config
    <2> QED
      BY <1>3, <1>5, <2>1
  <1>7. CASE StartLoop \/ Kill
    <2>1. /\ UNCHANGED <<interval, tries, now>>
          /\ (pc = "fill" /\ pc' = "loop") \/ pc' = "killed"
      BY <1>7 DEF StartLoop, Kill, config
    <2> QED
      BY <1>3, <1>4, <1>5, <2>1
  <1>8. CASE Done
    <2>1. UNCHANGED <<interval, tries, now>> /\ pc = "loop" /\ pc' = "ended" /\ now >= Duration
      BY <1>8 DEF Done, config
    <2> QED
      BY <1>0, <1>1, <1>3, <1>4, <1>5, <2>1
  <1>9. CASE Take
    <2>1. UNCHANGED <<interval, now>> /\ pc = "loop" /\ pc' = "try" /\ now < Duration
      BY <1>9 DEF Take, config
    <2>2. /\ Len(tries') = n + 1
          /\ \A k \in 1..n : tries'[k] = tries[k]
          /\ tries'[n+1].at = now
      BY <1>9, TakeAppends
    <2>3. \A k \in 1..Len(tries') : tries'[k].at < Duration
      <3>1. \A k \in 1..Len(tries') : k \in 1..n \/ k = n + 1
        BY <2>2
      <3> QED
        BY <1>3, <2>1, <2>2, <3>1
    <2>4. now' + r =< (n + 1) * r
      BY <1>0, <1>2, <1>3, <2>1 DEF total
    <2> QED
      BY <1>1, <1>3, <2>1, <2>2, <2>3, <2>4 DEF Timely
  <1>10. CASE PostAccepted \/ PostRejected \/ PostError \/ WriteOut \/ Raises
    <2>1. /\ pc = "try" /\ UNCHANGED interval
          /\ \E o \in {"accepted", "rejected", "error", "printed", "raised"} : Settle(o)
          /\ \/ pc' = "sleep" /\ TimePasses
             \/ pc' = "ended" /\ UNCHANGED now /\ Settle("raised")
      BY <1>10, Answered DEF Raises, config
    <2>2. /\ Len(tries') = n
          /\ \A k \in 1..n : tries'[k].at = tries[k].at
          /\ Settle("raised") => n \in 1..n /\ tries'[n].outcome = "raised"
      BY <1>0, <2>1, SettleKeeps DEF Begun, Outcomes
    <2>3. CASE pc' = "sleep" /\ TimePasses
      <3>1. PICK t \in 0..PostTime : now' = now + t
        BY <2>3 DEF TimePasses
      <3>2. now' < Duration + PostTime /\ now' + r =< total + PostTime /\ now' < Duration + r
        BY <1>0, <1>1, <1>3, <1>4, <2>1, <3>1
      <3> QED
        BY <1>5, <2>1, <2>2, <2>3, <3>2
    <2>4. CASE pc' = "ended" /\ UNCHANGED now /\ Settle("raised")
      BY <1>3, <1>5, <2>1, <2>2, <2>4
    <2> QED
      BY <2>1, <2>3, <2>4
  <1>11. CASE Sleep
    <2>1. pc = "sleep" /\ pc' = "loop" /\ UNCHANGED <<interval, tries>>
      BY <1>11 DEF Sleep, config
    <2>2. PICK s \in 0..Slack : now' = IF interval = 0 THEN now ELSE now + interval + s
      BY <1>11 DEF Sleep
    <2>3. now' =< now + (r - PostTime)
      BY <1>0, <1>1, <2>2
    <2>4. now' \in Nat
      BY <1>0, <1>1, <2>2
    <2>5. now' =< total /\ now' < Duration + r
      BY <1>0, <1>1, <1>3, <1>4, <2>1, <2>3, <2>4
    <2> QED
      BY <1>5, <2>1, <2>5
  <1> QED
    BY <1>6, <1>7, <1>8, <1>9, <1>10, <1>11 DEF Next, Steps, Fills

\* The clock starts at nought.
LEMMA InitTimely == Init => Timely
  <1> SUFFICES ASSUME Init PROVE Timely
    OBVIOUS
  <1>1. pc = "fill" /\ now = 0 /\ tries = <<>> /\ Len(tries) = 0
    BY DEF Init
  <1>2. Round \in Nat \ {0} /\ Duration \in Nat
    <2>1. interval \in Nat
      BY InitHolds, TypeParts
    <2> QED
      BY <2>1, GeneratorAssumption DEF Round
  <1> QED
    BY <1>1, <1>2 DEF Timely

\* No try starts at or after the deadline and the run is over within a round of
\* it, however long posts and sleeps take; and the scenarios are tried in full
\* if there is time for all but one of their rounds.
THEOREM InTime == Spec => []DeadlineKept
  <1>1. Init => TypeOK /\ Begun /\ Timely
    BY InitHolds, InitTimely
  <1>2. TypeOK /\ Begun /\ Timely /\ [Next]_vars => (TypeOK /\ Begun /\ Timely)'
    BY NextTypes, NextTimely
  <1>3. TypeOK /\ Timely => DeadlineKept
    <2> SUFFICES ASSUME TypeOK, Timely PROVE DeadlineKept
      OBVIOUS
    <2>1. tries \in Seq(Tries) /\ interval \in Nat /\ Len(inject) \in Nat
      BY TypeParts
    <2>2. Len(inject) \in 0..Len(inject)
      BY <2>1
    <2>3. Plan \in Seq(Events)
      BY <2>2, AheadFacts
    <2>4. Len(tries) \in Nat /\ Len(Plan) \in Nat /\ (Plan # <<>> => Len(Plan) > 0)
          /\ (Plan = <<>> => Len(Plan) = 0)
      BY <2>1, <2>3
    <2>5. Round \in Nat /\ Duration \in Nat
      BY <2>1, GeneratorAssumption DEF Round
    <2> SUFFICES ASSUME pc = "ended", \A k \in 1..Len(tries) : tries[k].outcome # "raised",
                        Plan # <<>> => (Len(Plan) - 1) * Round < Duration
                 PROVE  Len(tries) >= Len(Plan)
      BY DEF Timely, DeadlineKept
    <2> SUFFICES ASSUME NEW n \in Nat, n = Len(tries), NEW m \in Nat, m = Len(Plan),
                        NEW r \in Nat, r = Round, NEW u \in Nat, u = Duration, n < m
                 PROVE  FALSE
      BY <2>4, <2>5
    <2>6. u =< n * r
      BY DEF Timely
    <2>7. (m - 1) * r < u
      BY <2>4
    <2>8. m - 1 \in Nat /\ n =< m - 1
      OBVIOUS
    <2>9. n * r =< (m - 1) * r
      BY <2>8, Multiples
    <2>10. n * r \in Nat /\ (m - 1) * r \in Nat
      BY <2>8, Multiples
    <2> DEFINE a == n * r
               b == (m - 1) * r
    <2>11. a \in Nat /\ b \in Nat /\ u =< a /\ b < u /\ a =< b
      BY <2>6, <2>7, <2>9, <2>10
    <2> HIDE DEF a, b
    <2> QED
      BY <2>11
  <1> QED
    BY <1>1, <1>2, <1>3, PTL DEF Spec
============================================================================
