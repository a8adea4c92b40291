------------------------------ MODULE EchoProofs ------------------------------
(***************************************************************************)
(* What the echo queue may swallow, for any keys, queue, bursts and losses.*)
(*                                                                         *)
(* EntriesAreOwed is inductive given the types: a step that takes one of   *)
(* ours off the wire without the queue losing an entry counts it as lost,  *)
(* passed or leaked.  The work is in counting our presses on the wire.     *)
(* EchoesSwallowed needs more than counts: which entry waits for which of  *)
(* our presses (EchoesPaired).                                             *)
(***************************************************************************)
EXTENDS EchoQueue, FiniteSetTheorems, SequenceTheorems, TLAPS

OursIn(w) == {i \in 1..Len(w) : w[i].ours}

One(ours) == IF ours THEN 1 ELSE 0

-----------------------------------------------------------------------------
(* Counting our presses on a wire. *)

LEMMA Countable ==
  ASSUME NEW w \in Seq(Press)
  PROVE  IsFiniteSet(OursIn(w)) /\ Cardinality(OursIn(w)) \in Nat
<1>1. IsFiniteSet(1..Len(w)) /\ OursIn(w) \in SUBSET (1..Len(w))
  BY FS_Interval DEF OursIn
<1>2. QED
  BY <1>1, FS_Subset, FS_CardinalityType

LEMMA Appending ==
  ASSUME NEW w \in Seq(Press), NEW e \in Press
  PROVE  Cardinality(OursIn(Append(w, e))) = Cardinality(OursIn(w)) + One(e.ours)
<1>1. CASE e.ours
  <2>1. OursIn(Append(w, e)) = OursIn(w) \cup {Len(w) + 1}
    BY <1>1 DEF OursIn
  <2>2. Len(w) + 1 \notin OursIn(w)
    BY DEF OursIn
  <2>3. QED
    BY <1>1, <2>1, <2>2, Countable, FS_AddElement DEF One
<1>2. CASE ~e.ours
  <2>1. OursIn(Append(w, e)) = OursIn(w)
    BY <1>2 DEF OursIn
  <2>2. QED
    BY <1>2, <2>1, Countable DEF One
<1>3. QED
  BY <1>1, <1>2

LEMMA WithoutType ==
  ASSUME NEW w \in Seq(Press), NEW i \in 1..Len(w)
  PROVE  /\ Without(w, i) \in Seq(Press)
         /\ Len(Without(w, i)) = Len(w) - 1
BY DEF Without

\* Taking the i-th press off the wire moves those behind it up by one.
LEMMA TakingAway ==
  ASSUME NEW w \in Seq(Press), NEW i \in 1..Len(w)
  PROVE  Cardinality(OursIn(Without(w, i))) = Cardinality(OursIn(w)) - One(w[i].ours)
<1> DEFINE S == OursIn(w) \ {i}
           T == OursIn(Without(w, i))
           f == [j \in S |-> IF j < i THEN j ELSE j - 1]
<1>1. \A j \in 1..Len(w) - 1 : Without(w, i)[j] = IF j < i THEN w[j] ELSE w[j + 1]
  BY DEF Without
<1>2. f \in [S -> T]
  <2> SUFFICES ASSUME NEW j \in S PROVE f[j] \in T
    OBVIOUS
  <2>1. j \in 1..Len(w) /\ j # i /\ w[j].ours
    BY DEF OursIn
  <2>2. CASE j < i
    <3>1. f[j] = j /\ j \in 1..Len(w) - 1 /\ Without(w, i)[j].ours
      BY <2>1, <2>2, <1>1
    <3>2. QED
      BY <3>1, WithoutType DEF OursIn
  <2>3. CASE ~(j < i)
    <3>1. f[j] = j - 1 /\ j - 1 \in 1..Len(w) - 1
      BY <2>1, <2>3
    <3>2. Without(w, i)[j - 1] = w[j]
      BY <2>1, <2>3, <3>1, <1>1
    <3>3. QED
      BY <2>1, <3>1, <3>2, WithoutType DEF OursIn
  <2>4. QED
    BY <2>2, <2>3
<1>3. \A j, k \in S : f[j] = f[k] => j = k
  BY DEF OursIn
<1>4. ASSUME NEW t \in T PROVE \E j \in S : f[j] = t
  <2>1. t \in 1..Len(w) - 1 /\ Without(w, i)[t].ours
    BY WithoutType DEF OursIn
  <2>2. CASE t < i
    <3>1. t \in S
      BY <2>1, <2>2, <1>1 DEF OursIn
    <3>2. QED
      BY <2>2, <3>1
  <2>3. CASE ~(t < i)
    <3>1. t + 1 \in S
      BY <2>1, <2>3, <1>1 DEF OursIn
    <3>2. f[t + 1] = t
      BY <2>1, <2>3, <3>1
    <3>3. QED
      BY <3>1, <3>2
  <2>4. QED
    BY <2>2, <2>3
<1>5. f \in Bijection(S, T)
  BY <1>2, <1>3, <1>4 DEF Bijection, Injection, Surjection, IsInjective
<1>6. ExistsBijection(S, T)
  BY <1>5 DEF ExistsBijection
<1>7. IsFiniteSet(OursIn(w)) /\ Cardinality(OursIn(w)) \in Nat
  BY Countable
<1>8. IsFiniteSet(S) /\ Cardinality(S) = Cardinality(OursIn(w)) - One(w[i].ours)
  <2>1. i \in OursIn(w) <=> w[i].ours
    BY DEF OursIn
  <2>2. QED
    BY <2>1, <1>7, FS_RemoveElement DEF One
<1>9. QED
  BY <1>6, <1>8, FS_Bijection

LEMMA TailIsWithout ==
  ASSUME NEW w \in Seq(Press), w # <<>>
  PROVE  1 \in 1..Len(w) /\ Head(w) = w[1] /\ Tail(w) = Without(w, 1)
<1>1. Len(w) \in Nat \ {0}
  BY EmptySeq
<1>2. Tail(w) \in Seq(Press) /\ Len(Tail(w)) = Len(w) - 1
      /\ \A j \in 1..Len(Tail(w)) : Tail(w)[j] = w[j + 1]
  BY HeadTailProperties
<1>3. Without(w, 1) \in Seq(Press) /\ Len(Without(w, 1)) = Len(w) - 1
      /\ \A j \in 1..Len(w) - 1 : Without(w, 1)[j] = w[j + 1]
  BY <1>1, WithoutType DEF Without
<1>4. Tail(w) = Without(w, 1)
  BY <1>2, <1>3, SeqEqual
<1>5. QED
  BY <1>1, <1>4
-----------------------------------------------------------------------------
(* The queue. *)

LEMMA Dropping ==
  ASSUME NEW q \in Seq(Entry), NEW n \in 0..Len(q)
  PROVE  Drop(q, n) \in Seq(Entry) /\ Len(Drop(q, n)) = Len(q) - n
<1>1. Len(q) \in Nat /\ \A i \in n + 1..Len(q) : q[i] \in Entry
  BY LenProperties
<1>2. QED
  BY <1>1, SubSeqProperties DEF Drop

LEMMA DropElements ==
  ASSUME NEW q \in Seq(Entry), NEW n \in 0..Len(q)
  PROVE  \A j \in 1..Len(q) - n : Drop(q, n)[j] = q[j + n]
<1>1. Len(q) \in Nat /\ \A i \in n + 1..Len(q) : q[i] \in Entry
  BY LenProperties
<1>2. QED
  BY <1>1, SubSeqProperties DEF Drop

LEMMA StaleIsPrefix ==
  ASSUME NEW q \in Seq(Entry)
  PROVE  Stale(q) \in 0..Len(q)
<1> DEFINE P == {n \in 1..Len(q) : \A i \in 1..n : ~q[i].fresh}
<1>1. Len(q) \in Nat /\ IsFiniteSet(1..Len(q)) /\ Cardinality(1..Len(q)) = Len(q)
  <2>1. Len(q) \in Nat /\ Len(q) \in Int /\ 1 \in Int
    BY LenProperties
  <2>2. QED
    BY <2>1, FS_Interval
<1>2. P \in SUBSET (1..Len(q))
  OBVIOUS
<1>3. IsFiniteSet(P) /\ Cardinality(P) <= Len(q)
  BY <1>1, <1>2, FS_Subset
<1>4. Cardinality(P) \in Nat
  BY <1>3, FS_CardinalityType
<1>5. QED
  BY <1>1, <1>3, <1>4 DEF Stale

LEMMA TakesAtMost ==
  ASSUME NEW q \in Seq(Entry), NEW sc
  PROVE  Takes(q, sc) \in 0..Len(q)
BY DEF Takes

LEMMA KeptShrinks ==
  ASSUME NEW q \in Seq(Entry)
  PROVE  Kept(q) \in Seq(Entry) /\ Len(Kept(q)) <= Capacity /\ Len(Kept(q)) <= Len(q)
<1>1. Len(q) \in Nat /\ Capacity \in Nat /\ Capacity > 0
  BY EchoAssumption, LenProperties
<1>2. CASE Len(q) > Capacity
  <2>1. \A i \in Len(q) - Capacity + 1..Len(q) : q[i] \in Entry
    BY <1>1, <1>2
  <2>2. QED
    BY <1>1, <1>2, <2>1, SubSeqProperties DEF Kept
<1>3. QED
  BY <1>1, <1>2 DEF Kept

LEMMA RecordedType ==
  ASSUME NEW keys \in Seq(Key)
  PROVE  Recorded(keys) \in Seq(Entry) /\ Len(Recorded(keys)) = Len(keys)
BY DEF Recorded, Entry

LEMMA Pushing ==
  ASSUME NEW entries \in Seq(Entry), NEW keys \in Seq(Key)
  PROVE  /\ entries \o Recorded(keys) \in Seq(Entry)
         /\ Len(entries \o Recorded(keys)) = Len(entries) + Len(keys)
<1>1. Recorded(keys) \in Seq(Entry) /\ Len(Recorded(keys)) = Len(keys)
  BY RecordedType
<1> HIDE DEF Recorded
<1>2. QED
  BY <1>1, ConcatProperties

-----------------------------------------------------------------------------
(* Types, the debt and what the run loop finds, action by action. *)

Inv == TypeOK /\ EntriesAreOwed

LEMMA InitInv == Init => Inv
<1> SUFFICES ASSUME Init PROVE Inv
  OBVIOUS
<1>1. Ours = {} /\ Flying = 0
  BY FS_EmptySet DEF Init, Ours, Flying
<1>2. QED
  BY <1>1, EchoAssumption DEF Init, Inv, TypeOK, EntriesAreOwed

LEMMA FlyingIsCount ==
  ASSUME TypeOK
  PROVE  Flying = Cardinality(OursIn(wire)) /\ Flying \in Nat
BY Countable DEF TypeOK, Flying, Ours, OursIn

LEMMA Around ==
  ASSUME Inv, \/ \E k \in Key : UserPresses(k)
              \/ \E i \in 1..Len(wire) : RemapperDrops(i)
              \/ RemapperStarts \/ GateRechecks
              \/ \E n \in 1..Len(expected) : DeadlinePasses(n)
  PROVE  Inv'
<1> USE DEF Inv
<1>1. CASE \E k \in Key : UserPresses(k)
  <2>1. PICK k \in Key : UserPresses(k)
    BY <1>1
  <2> DEFINE e == [sc |-> k, ours |-> FALSE, injected |-> FALSE]
  <2>2. e \in Press /\ e.ours = FALSE
    BY DEF Press
  <2>3. wire' = Append(wire, e) /\ wire' \in Seq(Press)
    BY <2>1, <2>2 DEF UserPresses, TypeOK
  <2> HIDE DEF e
  <2>4. TypeOK'
    BY <2>1, <2>3 DEF UserPresses, TypeOK, engine, tallies
  <2>5. Flying' = Flying
    <3>1. Cardinality(OursIn(Append(wire, e))) = Cardinality(OursIn(wire)) + One(e.ours)
      BY <2>2, Appending DEF TypeOK
    <3>2. One(e.ours) = 0
      BY <2>2 DEF One
    <3>3. Flying' = Cardinality(OursIn(wire'))
      BY DEF Flying, Ours, OursIn
    <3>4. Flying = Cardinality(OursIn(wire)) /\ Flying \in Nat
      BY FlyingIsCount
    <3>5. QED
      BY <2>3, <3>1, <3>2, <3>3, <3>4
  <2>6. QED
    BY <2>1, <2>4, <2>5 DEF UserPresses, EntriesAreOwed, engine, tallies
<1>2. CASE \E i \in 1..Len(wire) : RemapperDrops(i)
  <2>1. PICK i \in 1..Len(wire) : RemapperDrops(i)
    BY <1>2
  <2>2. wire' = Without(wire, i) /\ wire' \in Seq(Press) /\ wire[i].ours
    BY <2>1, WithoutType DEF RemapperDrops, TypeOK
  <2>3. TypeOK'
    BY <2>1, <2>2 DEF RemapperDrops, TypeOK, engine, tallies
  <2>4. Flying' = Flying - 1 /\ Flying \in Nat
    BY <2>2, TakingAway, FlyingIsCount DEF TypeOK, One, Flying, Ours, OursIn
  <2>5. QED
    BY <2>1, <2>3, <2>4 DEF RemapperDrops, TypeOK, EntriesAreOwed, engine, tallies
<1>3. CASE RemapperStarts
  BY <1>3 DEF RemapperStarts, TypeOK, EntriesAreOwed, Flying, Ours, engine, tallies
<1>4. CASE GateRechecks
  BY <1>4 DEF GateRechecks, TypeOK, EntriesAreOwed, Flying, Ours, engine, tallies
<1>5. CASE \E n \in 1..Len(expected) : DeadlinePasses(n)
  <2>1. PICK n \in 1..Len(expected) : DeadlinePasses(n)
    BY <1>5
  <2>2. expected' \in Seq(Entry) /\ Len(expected') = Len(expected)
    <3>1. Len(expected) \in Nat /\ \A i \in 1..Len(expected) : expected[i] \in Entry
      BY LenProperties DEF TypeOK
    <3>2. \A e \in Entry : [e EXCEPT !.fresh = FALSE] \in Entry
      BY DEF Entry
    <3>3. \A i \in 1..Len(expected) :
            (IF i <= n THEN [expected[i] EXCEPT !.fresh = FALSE] ELSE expected[i]) \in Entry
      BY <3>1, <3>2
    <3>4. QED
      BY <2>1, <3>1, <3>3 DEF DeadlinePasses
  <2>3. TypeOK'
    BY <2>1, <2>2 DEF DeadlinePasses, TypeOK, tallies
  <2>4. QED
    BY <2>1, <2>2, <2>3 DEF DeadlinePasses, EntriesAreOwed, Flying, Ours, tallies
<1>6. QED
  BY <1>1, <1>2, <1>3, <1>4, <1>5

LEMMA Sending ==
  ASSUME Inv, \/ StartSending \/ ChordFails \/ Settled
              \/ \E k \in Key : emit_one(k)
              \/ \E next \in {"run", "send", "settle"} : push_echoes(next)
  PROVE  Inv'
<1> USE DEF Inv
<1>1. CASE StartSending
  BY <1>1 DEF StartSending, TypeOK, EntriesAreOwed, Flying, Ours, tallies
<1>2. CASE ChordFails
  BY <1>2 DEF ChordFails, TypeOK, EntriesAreOwed, Flying, Ours, tallies
<1>3. CASE Settled
  BY <1>3 DEF Settled, TypeOK, EntriesAreOwed, Flying, Ours, tallies
<1>4. CASE \E k \in Key : emit_one(k)
  <2>1. PICK k \in Key : emit_one(k)
    BY <1>4
  <2> DEFINE e == [sc |-> k, ours |-> TRUE, injected |-> ~proxied]
  <2>2. e \in Press /\ e.ours = TRUE
    BY DEF Press, TypeOK
  <2>3. wire' = Append(wire, e) /\ wire' \in Seq(Press)
    BY <2>1, <2>2 DEF emit_one, TypeOK
  <2>4. log' \in Seq(Key) /\ Len(log') = Len(log) + 1
    BY <2>1 DEF emit_one, TypeOK
  <2>5. TypeOK'
    BY <2>1, <2>3, <2>4 DEF emit_one, TypeOK, tallies
  <2>6. Flying' = Flying + 1 /\ Flying \in Nat
    <3>1. Cardinality(OursIn(Append(wire, e))) = Cardinality(OursIn(wire)) + One(e.ours)
      BY <2>2, Appending DEF TypeOK
    <3>2. One(e.ours) = 1
      BY <2>2 DEF One
    <3>3. Flying' = Cardinality(OursIn(wire'))
      BY DEF Flying, Ours, OursIn
    <3>4. Flying = Cardinality(OursIn(wire)) /\ Flying \in Nat
      BY FlyingIsCount
    <3>5. QED
      BY <2>3, <3>1, <3>2, <3>3, <3>4
  <2>7. QED
    BY <2>1, <2>4, <2>5, <2>6 DEF emit_one, TypeOK, EntriesAreOwed, tallies
<1>5. CASE \E next \in {"run", "send", "settle"} : push_echoes(next)
  <2>1. PICK next \in {"run", "send", "settle"} : push_echoes(next)
    BY <1>5
  <2> DEFINE q == expected \o Recorded(log)
  <2>2. q \in Seq(Entry) /\ Len(q) = Len(expected) + Len(log)
    BY Pushing DEF TypeOK
  <2>3. expected' \in Seq(Entry) /\ Len(expected') <= Capacity
        /\ Len(expected') <= Len(expected) + Len(log)
    BY <2>1, <2>2, KeptShrinks DEF push_echoes
  <2>4. log' = <<>> /\ log' \in Seq(Key) /\ Len(log') = 0
    BY <2>1 DEF push_echoes
  <2>5. TypeOK'
    BY <2>1, <2>3, <2>4 DEF push_echoes, TypeOK, tallies
  <2>6. UNCHANGED <<wire, tallies, lost>> /\ Flying' = Flying /\ Flying \in Nat
    BY <2>1, FlyingIsCount DEF push_echoes, Flying, Ours
  <2>7. QED
    BY <2>3, <2>4, <2>5, <2>6 DEF TypeOK, EntriesAreOwed, tallies
<1>6. QED
  BY <1>1, <1>2, <1>3, <1>4, <1>5

\* The balance of EntriesAreOwed over a press that is read, n entries going.
LEMMA Balance ==
  ASSUME NEW E \in Nat, NEW L \in Nat, NEW a \in Nat, NEW F \in Nat,
         NEW o \in Nat, NEW p \in Nat, NEW k \in Nat, NEW n \in 0..E,
         E + L + a <= F + o + p + k
  PROVE  /\ n >= 1 => (E - n) + L + a <= (F - 1) + o + p + k
         /\ (E - n) + L + a <= (F - 1) + o + (p + 1) + k
         /\ (E - n) + L + a <= (F - 1) + o + p + (k + 1)
         /\ (E - n) + L + a <= F + o + p + k
         /\ n >= 1 => (E - n) + L + (a + 1) <= F + o + p + k
OBVIOUS

LEMMA Reading ==
  ASSUME Inv, Reads
  PROVE  Inv'
<1> USE DEF Inv
<1> DEFINE ev == Head(wire)
           n == IF Exempt(ev) THEN 0 ELSE Stale(expected) + Takes(Live, ev.sc)
<1>1. wire \in Seq(Press) /\ wire # <<>> /\ ev \in Press
  BY HeadTailProperties DEF TypeOK, Reads
<1>2. Live \in Seq(Entry) /\ Len(Live) = Len(expected) - Stale(expected)
      /\ Stale(expected) \in 0..Len(expected)
  BY StaleIsPrefix, Dropping DEF TypeOK, Live
<1>3. Takes(Live, ev.sc) \in 0..Len(Live)
  BY <1>2, TakesAtMost
<1>4. expected' \in Seq(Entry) /\ Len(expected') = Len(expected) - n /\ n \in 0..Len(expected)
  <2>1. Len(expected) \in Nat /\ expected \in Seq(Entry)
    BY LenProperties DEF TypeOK
  <2>2. CASE Exempt(ev)
    BY <2>1, <2>2 DEF Reads
  <2>3. CASE ~Exempt(ev)
    <3>1. expected' = Drop(Live, Takes(Live, ev.sc))
      BY <2>3 DEF Reads
    <3>2. expected' \in Seq(Entry) /\ Len(expected') = Len(Live) - Takes(Live, ev.sc)
      BY <1>2, <1>3, <3>1, Dropping
    <3>3. QED
      BY <1>2, <1>3, <2>1, <2>3, <3>2
  <2>4. QED
    BY <2>2, <2>3
<1>5. consume_echo(ev) => n >= 1
  BY <1>2, <1>3, LenProperties DEF consume_echo, TypeOK
<1>6. Flying' = Flying - One(ev.ours) /\ Flying \in Nat /\ wire' \in Seq(Press)
  <2>1. wire' = Without(wire, 1) /\ 1 \in 1..Len(wire) /\ ev = wire[1]
    BY <1>1, TailIsWithout DEF Reads
  <2>2. QED
    BY <1>1, <2>1, TakingAway, WithoutType, FlyingIsCount DEF Flying, Ours, OursIn
<1> HIDE DEF n
<1>7. UNCHANGED <<proxied, available, log, pc, sent, presses, lost>>
  BY DEF Reads
<1>8. matched' \in Nat /\ eaten' \in Nat /\ passed' \in Nat /\ leaked' \in Nat
  BY DEF Reads, TypeOK
<1>9. slips' = slips \/ slips' = slips \cup {"grabbed"}
  BY DEF Reads
<1>10. TypeOK'
  <2>1. Len(expected') <= Capacity
    BY <1>4, EchoAssumption, LenProperties DEF TypeOK
  <2>2. QED
    BY <1>4, <1>6, <1>7, <1>8, <1>9, <2>1 DEF TypeOK
<1>11. EntriesAreOwed'
  <2> SUFFICES Len(expected') + Len(log') + eaten' <= Flying' + lost' + passed' + leaked'
    BY DEF EntriesAreOwed
  <2>1. /\ Len(expected) \in Nat /\ Len(log) \in Nat
        /\ lost \in Nat /\ passed \in Nat /\ leaked \in Nat /\ eaten \in Nat
        /\ Len(expected) + Len(log) + eaten <= Flying + lost + passed + leaked
    BY LenProperties DEF TypeOK, EntriesAreOwed
  <2>2. Len(log') = Len(log) /\ lost' = lost
    BY <1>7
  <2>3. /\ Len(expected') = Len(expected) - n /\ n \in 0..Len(expected)
        /\ Flying \in Nat /\ Flying' = Flying - One(ev.ours)
    BY <1>4, <1>6
  <2>4. /\ n >= 1 => (Len(expected) - n) + Len(log) + eaten
                         <= (Flying - 1) + lost + passed + leaked
        /\ (Len(expected) - n) + Len(log) + eaten
              <= (Flying - 1) + lost + (passed + 1) + leaked
        /\ (Len(expected) - n) + Len(log) + eaten
              <= (Flying - 1) + lost + passed + (leaked + 1)
        /\ (Len(expected) - n) + Len(log) + eaten <= Flying + lost + passed + leaked
        /\ n >= 1 => (Len(expected) - n) + Len(log) + (eaten + 1)
                         <= Flying + lost + passed + leaked
    BY <2>1, <2>3, Balance
  <2>5. CASE ev.ours
    <3>1. eaten' = eaten /\ Flying' = Flying - 1
      BY <2>1, <2>3, <2>5 DEF Reads, One
    <3>2. CASE consume_echo(ev)
      <4>1. passed' = passed /\ leaked' = leaked /\ n >= 1
        BY <3>2, <2>1, <1>5 DEF Reads
      <4>2. QED
        BY ONLY <2>2, <2>3, <2>4, <3>1, <4>1
    <3>3. CASE ~consume_echo(ev)
      <4>1. \/ passed' = passed + 1 /\ leaked' = leaked
            \/ passed' = passed /\ leaked' = leaked + 1
        BY <2>1, <2>5, <3>3, <1>1 DEF Reads, Press
      <4>2. QED
        BY ONLY <2>2, <2>3, <2>4, <3>1, <4>1
    <3>4. QED
      BY <3>2, <3>3
  <2>6. CASE ~ev.ours
    <3>1. passed' = passed /\ leaked' = leaked /\ Flying' = Flying
      BY <2>1, <2>3, <2>6 DEF Reads, One
    <3>2. eaten' = eaten \/ (eaten' = eaten + 1 /\ n >= 1)
      BY <1>5, <2>1 DEF Reads
    <3>3. QED
      BY ONLY <2>2, <2>3, <2>4, <3>1, <3>2
  <2>7. QED
    BY <2>5, <2>6
<1>12. QED
  BY <1>10, <1>11

THEOREM InvHolds == Spec => []Inv
<1>1. Inv /\ [Next]_vars => Inv'
  <2> SUFFICES ASSUME Inv, [Next]_vars PROVE Inv'
    OBVIOUS
  <2>1. CASE UNCHANGED vars
    BY <2>1 DEF Inv, TypeOK, EntriesAreOwed, Flying, Ours, vars, engine, tallies
  <2>2. CASE Next
    BY <2>2, Around, Sending, Reading DEF Next
  <2>3. QED
    BY <2>1, <2>2
<1>2. QED
  BY <1>1, InitInv, PTL DEF Spec

\* Every index of the queue and the wire is in bounds, for any capacity.
THEOREM EchoTypes == Spec => []TypeOK
BY InvHolds, PTL DEF Inv

\* The queue never swallows more of the user's typing than went astray of
\* ours, whatever is lost, delayed or broken off.
THEOREM OwedEntries == Spec => []EntriesAreOwed
BY InvHolds, PTL DEF Inv

-----------------------------------------------------------------------------
(* What the run loop finds in the queue. *)

Unclean == slips \cap {"hurried", "unsettled", "chord"} # {}

RunLoopClean == pc = "run" /\ ~Unclean => expected = <<>>

\* Reading with an empty queue matches nothing and leaves it empty.
LEMMA ReadsNothing ==
  ASSUME TypeOK, Reads, expected = <<>>
  PROVE  eaten' = eaten /\ expected' = <<>>
<1> DEFINE ev == Head(wire)
<1>0. <<>> \in Seq(Entry) /\ Len(<<>>) = 0 /\ \A q \in Seq(Entry) : Len(q) = 0 => q = <<>>
  BY EmptySeq
<1>1. Stale(expected) = 0
  <2>1. Stale(<<>>) \in 0..Len(<<>>)
    BY <1>0, StaleIsPrefix
  <2>2. QED
    BY <1>0, <2>1
<1>2. Drop(<<>>, 0) = <<>>
  <2>1. SubSeq(<<>>, 1, 0) = <<>>
    BY SubSeqEmpty
  <2>2. QED
    BY <1>0, <2>1 DEF Drop
<1>3. Live = <<>>
  BY <1>1, <1>2 DEF Live
<1>4. Takes(Live, ev.sc) = 0
  BY <1>0, <1>3 DEF Takes
<1>5. expected' = <<>>
  BY <1>2, <1>3, <1>4 DEF Reads
<1>6. eaten' = eaten
  BY <1>4 DEF Reads, consume_echo, TypeOK
<1>7. QED
  BY <1>5, <1>6

LEMMA StaysClean ==
  ASSUME TypeOK, RunLoopClean, [Next]_vars
  PROVE  RunLoopClean'
<1> SUFFICES ASSUME pc' = "run", ~Unclean' PROVE expected' = <<>>
  BY DEF RunLoopClean
<1> USE DEF Unclean, RunLoopClean
<1>1. CASE UNCHANGED vars
  BY <1>1 DEF vars, engine
<1>2. CASE \E k \in Key : UserPresses(k) \/ emit_one(k)
  BY <1>2 DEF UserPresses, emit_one, engine
<1>3. CASE (\E i \in 1..Len(wire) : RemapperDrops(i)) \/ RemapperStarts \/ GateRechecks
  BY <1>3 DEF RemapperDrops, RemapperStarts, GateRechecks, engine
<1>4. CASE \E n \in 1..Len(expected) : DeadlinePasses(n)
  <2>1. PICK n \in 1..Len(expected) : DeadlinePasses(n)
    BY <1>4
  <2>2. pc = "run" /\ slips \subseteq slips'
    BY <2>1 DEF DeadlinePasses
  <2>3. expected = <<>> /\ Len(expected) = 0
    BY <2>2, EmptySeq
  <2>4. QED
    BY <2>1, <2>3
<1>5. CASE StartSending \/ ChordFails \/ \E next \in {"run", "send", "settle"} : push_echoes(next)
  BY <1>5 DEF StartSending, ChordFails, push_echoes
<1>6. CASE Settled
  BY <1>6 DEF Settled
<1>7. CASE Reads
  <2>1. pc = "run" /\ slips \subseteq slips'
    BY <1>7 DEF Reads
  <2>2. QED
    BY <1>7, <2>1, ReadsNothing
<1>8. QED
  BY <1>1, <1>2, <1>3, <1>4, <1>5, <1>6, <1>7 DEF Next

LEMMA EatsNothing ==
  ASSUME TypeOK, RunLoopClean, [Next]_vars, pc = "run", ~Unclean
  PROVE  eaten' = eaten
<1>1. CASE Reads
  BY <1>1, ReadsNothing DEF RunLoopClean
<1>2. CASE ~Reads
  BY <1>2 DEF Next, vars, tallies, UserPresses, emit_one, RemapperDrops, RemapperStarts,
     GateRechecks, DeadlinePasses, StartSending, push_echoes, ChordFails, Settled
<1>3. QED
  BY <1>1, <1>2

\* No press after a settled correction is taken for an echo, for any number
\* of losses, presses and corrections before it.
THEOREM NextWordRead == Spec => NextWordIsRead
<1>1. Init => RunLoopClean
  BY DEF Init, RunLoopClean
<1>2. TypeOK /\ RunLoopClean /\ [Next]_vars => RunLoopClean'
  BY StaysClean
<1>3. TypeOK /\ RunLoopClean /\ [Next]_vars
      => [pc = "run" /\ slips \cap {"hurried", "unsettled", "chord"} = {} => eaten' = eaten]_vars
  BY EatsNothing DEF Unclean
<1>4. QED
  BY <1>1, <1>2, <1>3, EchoTypes, PTL DEF Spec, NextWordIsRead
-----------------------------------------------------------------------------
(* Whether every echo finds its entry. *)

Waiting == expected \o Recorded(log)

\* m takes the entries of q, but for the g-th if g is not 0, to our presses on
\* the wire they wait for: in order, all of them, and none of them twice.  The
\* entry left out is that of the press the remapper dropped; only it may be
\* stale, and only in front.
Answered(w, q, g, m) ==
  /\ m \in [1..Len(q) -> Nat]
  /\ \A i, j \in 1..Len(q) : i < j /\ i # g /\ j # g => m[i] < m[j]
  /\ \A i \in 1..Len(q) : i # g => /\ m[i] \in 1..Len(w) /\ w[m[i]].ours
                                   /\ w[m[i]].sc = q[i].sc /\ q[i].fresh
  /\ \A p \in 1..Len(w) : w[p].ours => \E i \in 1..Len(q) : i # g /\ m[i] = p
  /\ g # 0 => g = 1 \/ q[g].fresh

Sound == lost <= 1 /\ eaten = 0 /\ slips \subseteq {"hurried", "unsettled"}

Paired ==
  /\ leaked = 0
  /\ log # <<>> => pc = "send"
  /\ \E g \in 0..Len(Waiting) : /\ g # 0 => lost = 1
                                /\ \E m \in [1..Len(Waiting) -> Nat] :
                                     Answered(wire, Waiting, g, m)

EchoesPaired == Sound => Paired

\* A press of the user's behind the wire.
LEMMA AnsweredUser ==
  ASSUME NEW w \in Seq(Press), NEW q \in Seq(Entry), NEW g, NEW m, Answered(w, q, g, m),
         NEW e \in Press, ~e.ours
  PROVE  Answered(Append(w, e), q, g, m)
<1>1. /\ Len(w) \in Nat /\ Len(Append(w, e)) = Len(w) + 1
      /\ \A p \in 1..Len(w) : Append(w, e)[p] = w[p]
      /\ Append(w, e)[Len(w) + 1] = e
  BY AppendProperties, LenProperties
<1>2. \A p \in 1..Len(w) + 1 : p \in 1..Len(w) \/ p = Len(w) + 1
  BY <1>1
<1>3. QED
  BY <1>1, <1>2 DEF Answered

\* One of ours behind the wire, and its entry behind the queue.
LEMMA AnsweredSent ==
  ASSUME NEW w \in Seq(Press), NEW q \in Seq(Entry), NEW g \in 0..Len(q), NEW m,
         Answered(w, q, g, m), NEW e \in Press, e.ours, NEW x \in Entry, x.fresh, x.sc = e.sc
  PROVE  \E n \in [1..Len(q) + 1 -> Nat] : Answered(Append(w, e), Append(q, x), g, n)
<1>1. /\ Len(w) \in Nat /\ Len(Append(w, e)) = Len(w) + 1
      /\ \A p \in 1..Len(w) : Append(w, e)[p] = w[p]
      /\ Append(w, e)[Len(w) + 1] = e
  BY AppendProperties, LenProperties
<1>2. /\ Len(q) \in Nat /\ Len(Append(q, x)) = Len(q) + 1
      /\ \A p \in 1..Len(q) : Append(q, x)[p] = q[p]
      /\ Append(q, x)[Len(q) + 1] = x
  BY AppendProperties, LenProperties
<1> DEFINE n == [i \in 1..Len(q) + 1 |-> IF i <= Len(q) THEN m[i] ELSE Len(w) + 1]
           u == Append(w, e)
           v == Append(q, x)
<1>3. n \in [1..Len(q) + 1 -> Nat] /\ n \in [1..Len(v) -> Nat]
  BY <1>1, <1>2 DEF Answered
<1>4. \A i \in 1..Len(q) : n[i] = m[i]
  BY <1>2
<1>5. n[Len(q) + 1] = Len(w) + 1 /\ g # Len(q) + 1
  BY <1>2
<1>6. \A i \in 1..Len(v) : i \in 1..Len(q) \/ i = Len(q) + 1
  BY <1>2
<1>7. \A p \in 1..Len(u) : p \in 1..Len(w) \/ p = Len(w) + 1
  BY <1>1
<1> HIDE DEF n, u, v
<1>8. ASSUME NEW i \in 1..Len(v), NEW j \in 1..Len(v), i < j, i # g, j # g
      PROVE  n[i] < n[j]
  <2>1. i \in 1..Len(q)
    BY <1>2, <1>6, <1>8 DEF v
  <2>2. m[i] \in 1..Len(w)
    BY <2>1, <1>8 DEF Answered
  <2>3. CASE j \in 1..Len(q)
    BY <2>1, <2>3, <1>4, <1>8 DEF Answered
  <2>4. CASE j = Len(q) + 1
    BY <1>1, <2>1, <2>2, <2>4, <1>4, <1>5
  <2>5. QED
    BY <2>3, <2>4, <1>6
<1>9. ASSUME NEW i \in 1..Len(v), i # g
      PROVE  n[i] \in 1..Len(u) /\ u[n[i]].ours /\ u[n[i]].sc = v[i].sc /\ v[i].fresh
  <2>1. CASE i \in 1..Len(q)
    <3>1. m[i] \in 1..Len(w) /\ w[m[i]].ours /\ w[m[i]].sc = q[i].sc /\ q[i].fresh
      BY <1>9, <2>1 DEF Answered
    <3>2. QED
      BY <3>1, <2>1, <1>1, <1>2, <1>4 DEF u, v
  <2>2. CASE i = Len(q) + 1
    BY <2>2, <1>1, <1>2, <1>5 DEF u, v
  <2>3. QED
    BY <2>1, <2>2, <1>6
<1>10. ASSUME NEW p \in 1..Len(u), u[p].ours
       PROVE  \E i \in 1..Len(v) : i # g /\ n[i] = p
  <2>1. CASE p \in 1..Len(w)
    <3>1. w[p].ours
      BY <1>1, <1>10, <2>1 DEF u
    <3>2. PICK i \in 1..Len(q) : i # g /\ m[i] = p
      BY <2>1, <3>1 DEF Answered
    <3>3. i \in 1..Len(v) /\ n[i] = p
      BY <1>2, <1>4, <3>2 DEF v
    <3>4. QED
      BY <3>2, <3>3
  <2>2. CASE p = Len(w) + 1
    <3>1. Len(q) + 1 \in 1..Len(v)
      BY <1>2 DEF v
    <3>2. QED
      BY <2>2, <3>1, <1>5
  <2>3. QED
    BY <2>1, <2>2, <1>7
<1>11. g # 0 => g = 1 \/ v[g].fresh
  BY <1>2 DEF v, Answered
<1>12. Answered(u, v, g, n)
  BY <1>3, <1>8, <1>9, <1>10, <1>11 DEF Answered
<1>13. QED
  BY <1>3, <1>12 DEF u, v

\* The remapper drops one of ours: its entry is the one left out.
LEMMA AnsweredDrop ==
  ASSUME NEW w \in Seq(Press), NEW q \in Seq(Entry), NEW m,
         Answered(w, q, 0, m), NEW d \in 1..Len(w), w[d].ours
  PROVE  \E g \in 1..Len(q) : \E n \in [1..Len(q) -> Nat] : Answered(Without(w, d), q, g, n)
<1>1. Len(w) \in Nat /\ Len(q) \in Nat
  BY LenProperties
<1> DEFINE u == Without(w, d)
<1>2. Len(u) = Len(w) - 1 /\ \A p \in 1..Len(w) - 1 : u[p] = IF p < d THEN w[p] ELSE w[p + 1]
  BY WithoutType DEF Without
<1> HIDE DEF u
<1>3. PICK g \in 1..Len(q) : m[g] = d
  BY DEF Answered
<1> DEFINE n == [i \in 1..Len(q) |-> IF i < g THEN m[i] ELSE IF i = g THEN 0 ELSE m[i] - 1]
<1>4. \A i \in 1..Len(q) : /\ i < g => m[i] < d
                           /\ i > g => m[i] > d
                           /\ m[i] \in 1..Len(w) /\ w[m[i]].ours
                           /\ w[m[i]].sc = q[i].sc /\ q[i].fresh
  BY <1>3 DEF Answered
<1>5. \A i \in 1..Len(q) : /\ i < g => n[i] = m[i]
                           /\ i > g => n[i] = m[i] - 1
  BY <1>1
<1>6. n \in [1..Len(q) -> Nat]
  <2>1. \A i \in 1..Len(q) : (IF i < g THEN m[i] ELSE IF i = g THEN 0 ELSE m[i] - 1) \in Nat
    BY <1>1, <1>4
  <2>2. QED
    BY <2>1
<1> HIDE DEF n
<1>7. ASSUME NEW i \in 1..Len(q), NEW j \in 1..Len(q), i < j, i # g, j # g
      PROVE  n[i] < n[j]
  <2>1. m[i] < m[j] /\ m[i] \in Nat /\ m[j] \in Nat /\ d \in Nat
    BY <1>1, <1>4, <1>7 DEF Answered
  <2>2. i \in Int /\ j \in Int /\ g \in Int
    BY <1>1
  <2>3. (i < g \/ i > g) /\ (j < g \/ j > g)
    BY <1>7, <2>2
  <2>4. /\ i < g => n[i] = m[i] /\ m[i] < d
        /\ i > g => n[i] = m[i] - 1 /\ m[i] > d
        /\ j < g => n[j] = m[j] /\ m[j] < d
        /\ j > g => n[j] = m[j] - 1 /\ m[j] > d
    BY <1>4, <1>5
  <2>5. QED
    BY <1>7, <2>1, <2>2, <2>3, <2>4
<1>8. ASSUME NEW i \in 1..Len(q), i # g
      PROVE  n[i] \in 1..Len(u) /\ u[n[i]].ours /\ u[n[i]].sc = q[i].sc /\ q[i].fresh
  <2>1. CASE i < g
    <3>1. n[i] = m[i] /\ m[i] < d /\ m[i] \in 1..Len(w) - 1
      BY <1>1, <1>4, <1>5, <2>1
    <3>2. u[n[i]] = w[m[i]]
      BY <1>2, <3>1
    <3>3. QED
      BY <1>2, <1>4, <3>1, <3>2
  <2>2. CASE i > g
    <3>1. n[i] = m[i] - 1 /\ m[i] > d /\ m[i] - 1 \in 1..Len(w) - 1
      BY <1>1, <1>4, <1>5, <2>2
    <3>2. u[n[i]] = w[m[i]]
      BY <1>1, <1>2, <1>4, <3>1
    <3>3. QED
      BY <1>2, <1>4, <3>1, <3>2
  <2>3. QED
    BY <1>1, <1>8, <2>1, <2>2
<1>9. ASSUME NEW p \in 1..Len(u), u[p].ours
      PROVE  \E i \in 1..Len(q) : i # g /\ n[i] = p
  <2>1. CASE p < d
    <3>1. p \in 1..Len(w) /\ w[p].ours
      BY <1>1, <1>2, <1>9, <2>1
    <3>2. PICK i \in 1..Len(q) : m[i] = p
      BY <3>1 DEF Answered
    <3>3. i < g
      BY <1>1, <1>3, <1>4, <2>1, <3>2
    <3>4. QED
      BY <1>5, <3>2, <3>3
  <2>2. CASE ~(p < d)
    <3>1. p + 1 \in 1..Len(w) /\ w[p + 1].ours
      BY <1>1, <1>2, <1>9, <2>2
    <3>2. PICK i \in 1..Len(q) : m[i] = p + 1
      BY <3>1 DEF Answered
    <3>3. i > g
      BY <1>1, <1>3, <1>4, <2>2, <3>2
    <3>4. n[i] = p
      BY <1>5, <3>2, <3>3
    <3>5. QED
      BY <3>2, <3>3, <3>4
  <2>3. QED
    BY <2>1, <2>2
<1>10. Answered(u, q, g, n)
  BY <1>4, <1>6, <1>7, <1>8, <1>9 DEF Answered
<1>11. QED
  BY <1>6, <1>10 DEF u

\* With nothing of ours under way, only the entry left out can be waiting.
LEMMA NothingFlies ==
  ASSUME NEW w \in Seq(Press), NEW q \in Seq(Entry), NEW g \in 0..Len(q), NEW m,
         Answered(w, q, g, m), \A p \in 1..Len(w) : ~w[p].ours, q # <<>>
  PROVE  g = 1 /\ Len(q) = 1
<1>1. Len(q) \in Nat \ {0}
  BY EmptySeq, LenProperties
<1>2. \A i \in 1..Len(q) : i = g
  BY DEF Answered
<1>3. 1 \in 1..Len(q) /\ Len(q) \in 1..Len(q)
  BY <1>1
<1>4. 1 = g /\ Len(q) = g
  BY <1>2, <1>3
<1>5. QED
  BY <1>4

\* A dropped press whose key is that of the next one: either entry may be
\* taken for the one left out.
LEMMA EitherLeftOut ==
  ASSUME NEW w \in Seq(Press), NEW q \in Seq(Entry), NEW m, Answered(w, q, 1, m),
         Len(q) >= 2, q[1].fresh, q[1].sc = q[2].sc
  PROVE  \E n \in [1..Len(q) -> Nat] : Answered(w, q, 2, n)
<1> DEFINE n == [m EXCEPT ![1] = m[2]]
<1>1. Len(q) \in Nat /\ 2 \in 1..Len(q) /\ 1 \in 1..Len(q)
  BY LenProperties
<1>2. n \in [1..Len(q) -> Nat] /\ n[1] = m[2] /\ \A i \in 1..Len(q) : i # 1 => n[i] = m[i]
  BY <1>1 DEF Answered
<1> HIDE DEF n
<1>3. ASSUME NEW i \in 1..Len(q), NEW j \in 1..Len(q), i < j, i # 2, j # 2
      PROVE  n[i] < n[j]
  <2>1. CASE i = 1
    <3>1. n[i] = m[2] /\ n[j] = m[j] /\ 2 < j
      BY <1>1, <1>2, <1>3, <2>1
    <3>2. QED
      BY <1>1, <3>1 DEF Answered
  <2>2. CASE i # 1
    BY <1>1, <1>2, <1>3, <2>2 DEF Answered
  <2>3. QED
    BY <2>1, <2>2
<1>4. ASSUME NEW i \in 1..Len(q), i # 2
      PROVE  n[i] \in 1..Len(w) /\ w[n[i]].ours /\ w[n[i]].sc = q[i].sc /\ q[i].fresh
  BY <1>1, <1>2, <1>4 DEF Answered
<1>5. ASSUME NEW p \in 1..Len(w), w[p].ours
      PROVE  \E i \in 1..Len(q) : i # 2 /\ n[i] = p
  <2>1. PICK i \in 1..Len(q) : i # 1 /\ m[i] = p
    BY <1>5 DEF Answered
  <2>2. CASE i = 2
    BY <1>1, <1>2, <2>1, <2>2
  <2>3. CASE i # 2
    BY <1>2, <2>1, <2>3
  <2>4. QED
    BY <2>2, <2>3
<1>6. q[2].fresh
  BY <1>1 DEF Answered
<1>7. Answered(w, q, 2, n)
  BY <1>2, <1>3, <1>4, <1>5, <1>6 DEF Answered
<1>8. QED
  BY <1>2, <1>7

\* The first press of the wire is read and takes the first k entries: itself
\* if it is ours, and the entry left out if that is in front.
LEMMA AnsweredRead ==
  ASSUME NEW w \in Seq(Press), w # <<>>, NEW q \in Seq(Entry), NEW g \in 0..Len(q), NEW m,
         Answered(w, q, g, m), NEW k \in 0..Len(q), NEW h \in 0..Len(q) - k,
         IF g > k THEN h = g - k ELSE h = 0,
         \A i \in 1..k : i # g => m[i] = 1,
         w[1].ours => \E i \in 1..k : i # g
  PROVE  \E n \in [1..Len(q) - k -> Nat] : Answered(Tail(w), Drop(q, k), h, n)
<1>1. Len(w) \in Nat \ {0} /\ Len(q) \in Nat /\ k \in Nat /\ h \in Nat /\ g \in Nat
  BY EmptySeq, LenProperties
<1> DEFINE u == Tail(w)
           v == Drop(q, k)
           n == [j \in 1..Len(q) - k |-> IF j = h THEN 0 ELSE m[j + k] - 1]
<1>2. Len(u) = Len(w) - 1 /\ \A p \in 1..Len(u) : u[p] = w[p + 1]
  BY HeadTailProperties
<1>3. Len(v) = Len(q) - k /\ \A j \in 1..Len(q) - k : v[j] = q[j + k]
  BY <1>1, Dropping, DropElements
<1> HIDE DEF u, v
<1>4. \A j \in 1..Len(q) - k : j # h => /\ j + k \in 1..Len(q) /\ j + k # g
                                         /\ m[j + k] \in 2..Len(w)
  <2> SUFFICES ASSUME NEW j \in 1..Len(q) - k, j # h
               PROVE  j + k \in 1..Len(q) /\ j + k # g /\ m[j + k] \in 2..Len(w)
    OBVIOUS
  <2>1. j + k \in 1..Len(q) /\ j + k # g
    BY <1>1
  <2>2. m[j + k] \in 1..Len(w) /\ w[m[j + k]].ours
    BY <2>1 DEF Answered
  <2>3. m[j + k] # 1
    <3> SUFFICES ASSUME m[j + k] = 1 PROVE FALSE
      OBVIOUS
    <3>1. PICK i \in 1..k : i # g
      BY <2>2
    <3>2. i \in 1..Len(q) /\ i < j + k /\ m[i] = 1
      BY <1>1, <3>1
    <3>3. m[i] < m[j + k]
      BY <2>1, <3>1, <3>2 DEF Answered
    <3>4. QED
      BY <3>2, <3>3
  <2>4. QED
    BY <1>1, <2>1, <2>2, <2>3
<1>5. n \in [1..Len(q) - k -> Nat]
  <2>1. \A j \in 1..Len(q) - k : (IF j = h THEN 0 ELSE m[j + k] - 1) \in Nat
    BY <1>1, <1>4
  <2>2. QED
    BY <2>1
<1>6. \A j \in 1..Len(q) - k : j # h => n[j] = m[j + k] - 1
  OBVIOUS
<1> HIDE DEF n
<1>7. ASSUME NEW i \in 1..Len(v), NEW j \in 1..Len(v), i < j, i # h, j # h
      PROVE  n[i] < n[j]
  <2>1. i + k \in 1..Len(q) /\ j + k \in 1..Len(q) /\ i + k # g /\ j + k # g /\ i + k < j + k
        /\ m[i + k] \in 2..Len(w) /\ m[j + k] \in 2..Len(w)
        /\ n[i] = m[i + k] - 1 /\ n[j] = m[j + k] - 1
    <3>1. i \in 1..Len(q) - k /\ j \in 1..Len(q) - k /\ i \in Int /\ j \in Int
      BY <1>1, <1>3
    <3>2. i + k < j + k
      BY <1>1, <1>7, <3>1
    <3>3. QED
      BY <1>4, <1>6, <1>7, <3>1, <3>2
  <2>2. m[i + k] < m[j + k]
    BY <2>1 DEF Answered
  <2>3. QED
    BY <1>1, <2>1, <2>2
<1>8. ASSUME NEW i \in 1..Len(v), i # h
      PROVE  n[i] \in 1..Len(u) /\ u[n[i]].ours /\ u[n[i]].sc = v[i].sc /\ v[i].fresh
  <2>1. i + k \in 1..Len(q) /\ i + k # g /\ m[i + k] \in 2..Len(w) /\ n[i] = m[i + k] - 1
        /\ v[i] = q[i + k]
    <3>1. i \in 1..Len(q) - k
      BY <1>3
    <3>2. QED
      BY <1>3, <1>4, <1>6, <1>8, <3>1
  <2>2. n[i] \in 1..Len(u) /\ n[i] + 1 = m[i + k]
    <3> DEFINE x == m[i + k]
    <3>1. x \in 2..Len(w) /\ n[i] = x - 1
      BY <2>1
    <3> HIDE DEF x
    <3>2. n[i] \in 1..Len(u) /\ n[i] + 1 = x
      BY <1>1, <1>2, <3>1
    <3>3. QED
      BY <3>2 DEF x
  <2>3. u[n[i]] = w[m[i + k]]
    BY <1>2, <2>2
  <2>4. QED
    BY <2>1, <2>2, <2>3 DEF Answered
<1>9. ASSUME NEW p \in 1..Len(u), u[p].ours
      PROVE  \E i \in 1..Len(v) : i # h /\ n[i] = p
  <2>1. p + 1 \in 1..Len(w) /\ w[p + 1].ours /\ p \in Nat /\ p >= 1
    BY <1>1, <1>2, <1>9
  <2>2. PICK i \in 1..Len(q) : i # g /\ m[i] = p + 1
    BY <2>1 DEF Answered
  <2>3. ~(i <= k)
    BY <1>1, <2>1, <2>2
  <2>4. i - k \in 1..Len(v) /\ (i - k) + k = i
    BY <1>1, <1>3, <2>2, <2>3
  <2>5. i - k # h
    BY <1>1, <2>2, <2>3
  <2>6. n[i - k] = p
    <3>1. i - k \in 1..Len(q) - k
      BY <1>3, <2>4
    <3>2. n[i - k] = m[i] - 1
      BY <1>6, <2>4, <2>5, <3>1
    <3>3. QED
      BY <2>1, <2>2, <3>2
  <2>7. QED
    BY <2>4, <2>5, <2>6
<1>10. h # 0 => h = 1 \/ v[h].fresh
  <2> SUFFICES ASSUME h # 0 PROVE h = 1 \/ v[h].fresh
    OBVIOUS
  <2>1. g = h + k /\ h \in 1..Len(q) - k
    BY <1>1
  <2>2. v[h] = q[g]
    BY <1>3, <2>1
  <2>3. CASE g = 1
    BY <1>1, <2>1, <2>3
  <2>4. CASE g # 1
    BY <1>1, <2>1, <2>2, <2>4 DEF Answered
  <2>5. QED
    BY <2>3, <2>4
<1>11. Answered(u, v, h, n)
  BY <1>3, <1>5, <1>7, <1>8, <1>9, <1>10 DEF Answered
<1>12. QED
  BY <1>5, <1>11 DEF u, v

\* Only the entry in front may be stale, so a read discards at most that one.
LEMMA StaleCount ==
  ASSUME NEW w \in Seq(Press), NEW q \in Seq(Entry), NEW g \in 0..Len(q), NEW m,
         Answered(w, q, g, m)
  PROVE  /\ q = <<>> \/ q[1].fresh => Stale(q) = 0
         /\ q # <<>> /\ ~q[1].fresh => g = 1 /\ Stale(q) = 1
<1>1. Len(q) \in Nat /\ (q # <<>> => Len(q) # 0 /\ 1 \in 1..Len(q))
  BY EmptySeq, LenProperties
<1> DEFINE S == {n \in 1..Len(q) : \A i \in 1..n : ~q[i].fresh}
<1>2. CASE q = <<>> \/ q[1].fresh
  <2>1. S = {}
    <3>1. CASE q = <<>>
      BY <3>1
    <3>2. CASE q[1].fresh
      <4>1. \A n \in 1..Len(q) : 1 \in 1..n
        BY <1>1
      <4>2. QED
        BY <3>2, <4>1
    <3>3. QED
      BY <1>2, <3>1, <3>2
  <2>2. Stale(q) = 0
    BY <2>1, FS_EmptySet DEF Stale
  <2>3. QED
    BY <1>2, <2>2
<1>3. CASE q # <<>> /\ ~q[1].fresh
  <2>1. g = 1
    BY <1>1, <1>3 DEF Answered
  <2>2. \A i \in 1..Len(q) : i # 1 => q[i].fresh
    BY <2>1 DEF Answered
  <2>3. S = {1}
    <3>1. 1 \in S
      BY <1>1, <1>3
    <3>2. ASSUME NEW n \in S PROVE n = 1
      <4>1. n \in 1..Len(q) /\ n \in 1..n
        BY <1>1
      <4>2. ~q[n].fresh
        BY <4>1
      <4>3. QED
        BY <2>2, <4>1, <4>2
    <3>3. QED
      BY <3>1, <3>2
  <2>4. Cardinality({1}) = 1
    BY FS_Singleton
  <2>5. QED
    BY <1>3, <2>1, <2>3, <2>4 DEF Stale
<1>4. QED
  BY <1>2, <1>3

LEMMA DropNothing ==
  ASSUME NEW q \in Seq(Entry)
  PROVE  Drop(q, 0) = q
<1>1. Len(q) \in Nat /\ 0 \in 0..Len(q)
  BY LenProperties
<1>2. /\ Drop(q, 0) \in Seq(Entry) /\ Len(Drop(q, 0)) = Len(q)
      /\ \A j \in 1..Len(q) : Drop(q, 0)[j] = q[j]
  BY <1>1, Dropping, DropElements
<1>3. QED
  BY <1>2, SeqEqual

LEMMA DropTwice ==
  ASSUME NEW q \in Seq(Entry), NEW a \in 0..Len(q), NEW b \in 0..Len(q) - a
  PROVE  Drop(Drop(q, a), b) = Drop(q, a + b)
<1>1. Len(q) \in Nat /\ a + b \in 0..Len(q) /\ a \in Nat /\ b \in Nat
  BY LenProperties
<1> DEFINE x == Drop(q, a)
           y == Drop(x, b)
           z == Drop(q, a + b)
<1>2. x \in Seq(Entry) /\ Len(x) = Len(q) - a /\ \A j \in 1..Len(q) - a : x[j] = q[j + a]
  BY Dropping, DropElements
<1>3. z \in Seq(Entry) /\ Len(z) = Len(q) - (a + b)
      /\ \A j \in 1..Len(q) - (a + b) : z[j] = q[j + (a + b)]
  BY <1>1, Dropping, DropElements
<1> HIDE DEF x, z
<1>4. y \in Seq(Entry) /\ Len(y) = Len(x) - b /\ \A j \in 1..Len(x) - b : y[j] = x[j + b]
  BY <1>2, Dropping, DropElements
<1> HIDE DEF y
<1>5. Len(y) = Len(z)
  BY <1>1, <1>2, <1>3, <1>4
<1>6. ASSUME NEW j \in 1..Len(y) PROVE y[j] = z[j]
  <2>1. j + b \in 1..Len(q) - a /\ (j + b) + a = j + (a + b) /\ j \in 1..Len(q) - (a + b)
    BY <1>1, <1>2, <1>4
  <2>2. y[j] = x[j + b] /\ x[j + b] = q[(j + b) + a] /\ z[j] = q[j + (a + b)]
    BY <1>2, <1>3, <1>4, <2>1
  <2>3. QED
    BY <2>1, <2>2
<1>7. y = z
  BY <1>3, <1>4, <1>5, <1>6, SeqEqual
<1>8. QED
  BY <1>7 DEF x, y, z

\* Ours is read: it takes its entry, the stale or lost one in front of it too.
LEMMA OwnIsTaken ==
  ASSUME NEW w \in Seq(Press), w # <<>>, w[1].ours, NEW q \in Seq(Entry),
         NEW g \in 0..Len(q), NEW m, Answered(w, q, g, m)
  PROVE  LET live == Drop(q, Stale(q))
             t    == Takes(live, w[1].sc)
         IN  /\ t > 0
             /\ \E h \in 0..Len(Drop(live, t)) :
                  /\ h # 0 => g # 0
                  /\ \E n \in [1..Len(Drop(live, t)) -> Nat] :
                       Answered(Tail(w), Drop(live, t), h, n)
<1> DEFINE live == Drop(q, Stale(q))
           t == Takes(live, w[1].sc)
           Good(k, h) == /\ h \in 0..Len(Drop(q, k))
                         /\ \E n \in [1..Len(Drop(q, k)) -> Nat] :
                              Answered(Tail(w), Drop(q, k), h, n)
<1>1. Len(q) \in Nat /\ 1 \in 1..Len(w)
  BY EmptySeq, LenProperties
<1>2. PICK i \in 1..Len(q) : i # g /\ m[i] = 1
  BY <1>1 DEF Answered
<1>3. \A j \in 1..Len(q) : j # g => m[j] >= 1 /\ j >= i
  <2> SUFFICES ASSUME NEW j \in 1..Len(q), j # g PROVE m[j] >= 1 /\ j >= i
    OBVIOUS
  <2>1. m[j] \in 1..Len(w) /\ m[j] \in Int
    BY DEF Answered
  <2>2. j < i => m[j] < m[i]
    BY <1>2 DEF Answered
  <2>3. QED
    BY <1>1, <1>2, <2>1, <2>2
<1>4. q[i].sc = w[1].sc /\ q[i].fresh
  BY <1>2 DEF Answered
<1>5. i = 1 \/ (i = 2 /\ g = 1)
  <2>1. CASE g = 1 /\ i > 2
    <3>1. 2 \in 1..Len(q) /\ 2 # g
      BY <1>1, <2>1
    <3>2. QED
      BY <1>3, <2>1, <3>1
  <2>2. CASE g # 1
    <3>1. 1 \in 1..Len(q)
      BY <1>1
    <3>2. QED
      BY <1>1, <1>3, <2>2, <3>1
  <2>3. QED
    BY <1>1, <1>2, <2>1, <2>2
\* What is taken with it.
<1>6. ASSUME NEW f \in 0..Len(q), NEW k \in 1..Len(q), NEW c, Answered(w, q, f, c),
             \A j \in 1..k : j # f => c[j] = 1, \E j \in 1..k : j # f
      PROVE  Good(k, IF f > k THEN f - k ELSE 0)
  <2> DEFINE h == IF f > k THEN f - k ELSE 0
  <2>1. k \in 0..Len(q) /\ h \in 0..Len(q) - k /\ IF f > k THEN h = f - k ELSE h = 0
    BY <1>1
  <2>2. Len(Drop(q, k)) = Len(q) - k
    BY <2>1, Dropping
  <2> HIDE DEF h
  <2>3. \E n \in [1..Len(q) - k -> Nat] : Answered(Tail(w), Drop(q, k), h, n)
    BY <1>6, <2>1, AnsweredRead
  <2>4. Good(k, h)
    BY <2>1, <2>2, <2>3
  <2>5. QED
    BY <2>4 DEF h
<1>7. SUFFICES /\ t > 0
               /\ \E k \in 1..Len(q), h \in 0..Len(q) :
                    Drop(live, t) = Drop(q, k) /\ Good(k, h) /\ (h # 0 => g # 0)
  <2>1. PICK k \in 1..Len(q), h \in 0..Len(q) :
           Drop(live, t) = Drop(q, k) /\ Good(k, h) /\ (h # 0 => g # 0)
    BY <1>7
  <2>2. h \in 0..Len(Drop(live, t))
        /\ \E n \in [1..Len(Drop(live, t)) -> Nat] : Answered(Tail(w), Drop(live, t), h, n)
    BY <2>1
  <2>3. QED
    BY <1>7, <2>1, <2>2
<1> HIDE DEF Good
<1>8. CASE i = 1
  <2>1. Stale(q) = 0 /\ live = q /\ q # <<>>
    BY <1>4, <1>8, <1>1, StaleCount, DropNothing, EmptySeq
  <2>2. t = 1
    BY <1>4, <1>8, <2>1 DEF Takes
  <2>3. Good(1, IF g > 1 THEN g - 1 ELSE 0)
    <3>1. 1 \in 1..Len(q) /\ 1 \in 1..1 /\ \A j \in 1..1 : j = 1
      BY <1>1, <1>8
    <3>2. 1 # g /\ m[1] = 1
      BY <1>2, <1>8
    <3>3. (\A j \in 1..1 : j # g => m[j] = 1) /\ \E j \in 1..1 : j # g
      BY <3>1, <3>2
    <3>4. QED
      BY <1>6, <3>1, <3>3
  <2>4. (IF g > 1 THEN g - 1 ELSE 0) \in 0..Len(q)
    BY <1>1
  <2>5. QED
    BY <1>1, <1>8, <2>1, <2>2, <2>3, <2>4
<1>9. CASE i = 2 /\ g = 1
  <2>1. Len(q) >= 2 /\ q # <<>> /\ 1 \in 1..Len(q) /\ 2 \in 1..Len(q)
    BY <1>1, <1>9, EmptySeq
  <2>2. Good(2, 0)
    <3>1. \A j \in 1..2 : j = 1 \/ j = 2
      OBVIOUS
    <3>2. 2 \in 1..2
      OBVIOUS
    <3>3. (IF g > 2 THEN g - 2 ELSE 0) = 0
      BY <1>9
    <3>4. QED
      BY <1>2, <1>6, <1>9, <2>1, <3>1, <3>2, <3>3
  <2>3. CASE ~q[1].fresh
    <3>1. Stale(q) = 1 /\ live = Drop(q, 1)
      BY <2>1, <2>3, StaleCount
    <3>2. Len(live) = Len(q) - 1 /\ live \in Seq(Entry) /\ live[1] = q[2]
      <4>1. 1 \in 0..Len(q) /\ 1 \in 1..Len(q) - 1
        BY <1>1, <2>1
      <4>2. Drop(q, 1)[1] = q[1 + 1]
        BY <4>1, DropElements
      <4>3. QED
        BY <3>1, <4>1, <4>2, Dropping
    <3>3. live # <<>>
      BY <1>1, <2>1, <3>2, EmptySeq
    <3>4. t = 1
      BY <1>4, <1>9, <3>2, <3>3 DEF Takes
    <3>5. Drop(live, t) = Drop(q, 2)
      <4>1. 1 \in 0..Len(q) /\ 1 \in 0..Len(q) - 1 /\ 1 + 1 = 2
        BY <1>1, <2>1
      <4>2. QED
        BY <3>1, <3>4, <4>1, DropTwice
    <3>6. QED
      BY <1>1, <2>1, <2>2, <3>4, <3>5
  <2>4. CASE q[1].fresh
    <3>1. Stale(q) = 0 /\ live = q
      BY <2>1, <2>4, StaleCount, DropNothing
    <3>2. CASE q[1].sc # w[1].sc
      <4>1. t = 2
        BY <1>4, <1>9, <2>1, <3>1, <3>2 DEF Takes
      <4>2. QED
        BY <1>1, <2>1, <2>2, <3>1, <4>1
    <3>3. CASE q[1].sc = w[1].sc
      <4>1. t = 1
        BY <2>1, <3>1, <3>3 DEF Takes
      <4>2. PICK n \in [1..Len(q) -> Nat] : Answered(w, q, 2, n)
        BY <1>4, <1>9, <2>1, <2>4, <3>3, EitherLeftOut
      <4>3. n[1] = 1
        <5>1. PICK j \in 1..Len(q) : j # 2 /\ n[j] = 1
          BY <1>1, <4>2 DEF Answered
        <5>2. n[1] \in 1..Len(w)
          BY <2>1, <4>2 DEF Answered
        <5>3. 1 < j => n[1] < n[j]
          BY <2>1, <4>2, <5>1 DEF Answered
        <5>4. QED
          BY <1>1, <5>1, <5>2, <5>3
      <4>4. Good(1, 1)
        <5>1. 2 \in 0..Len(q) /\ \A j \in 1..1 : j = 1
          BY <1>1, <2>1
        <5>2. (IF 2 > 1 THEN 2 - 1 ELSE 0) = 1 /\ 1 \in 1..1 /\ 1 # 2
          OBVIOUS
        <5>3. QED
          BY <1>6, <2>1, <4>2, <4>3, <5>1, <5>2
      <4>5. QED
        BY <1>1, <1>9, <2>1, <3>1, <4>1, <4>4
    <3>4. QED
      BY <3>2, <3>3
  <2>5. QED
    BY <2>3, <2>4
<1>10. QED
  BY <1>5, <1>8, <1>9

\* A press of the user's is read and takes nothing: at most the stale entry goes.
LEMMA UserTakesNothing ==
  ASSUME NEW w \in Seq(Press), w # <<>>, ~w[1].ours, NEW q \in Seq(Entry),
         NEW g \in 0..Len(q), NEW m, Answered(w, q, g, m),
         NEW k \in {0, Stale(q)}
  PROVE  \E h \in 0..Len(Drop(q, k)) :
           /\ h # 0 => g # 0
           /\ \E n \in [1..Len(Drop(q, k)) -> Nat] : Answered(Tail(w), Drop(q, k), h, n)
<1>1. Len(q) \in Nat /\ Stale(q) \in 0..Len(q)
  BY LenProperties, StaleIsPrefix
<1>2. k \in 0..Len(q) /\ (k = 0 \/ (k = 1 /\ g = 1))
  <2>1. Stale(q) = 0 \/ (g = 1 /\ Stale(q) = 1)
    BY StaleCount
  <2>2. QED
    BY <1>1, <2>1
<1> DEFINE h == IF g > k THEN g - k ELSE 0
<1>3. h \in 0..Len(q) - k /\ (IF g > k THEN h = g - k ELSE h = 0) /\ (h # 0 => g # 0)
  BY <1>1, <1>2
<1> HIDE DEF h
<1>4. \A i \in 1..k : i # g => m[i] = 1
  BY <1>2
<1>5. Len(Drop(q, k)) = Len(q) - k
  BY <1>2, Dropping
<1>6. \E n \in [1..Len(q) - k -> Nat] : Answered(Tail(w), Drop(q, k), h, n)
  BY <1>2, <1>3, <1>4, AnsweredRead
<1>7. QED
  BY <1>3, <1>5, <1>6

LEMMA WaitingType ==
  ASSUME TypeOK
  PROVE  /\ wire \in Seq(Press) /\ expected \in Seq(Entry) /\ log \in Seq(Key)
         /\ Waiting \in Seq(Entry) /\ Len(Waiting) = Len(expected) + Len(log)
         /\ Len(expected) \in Nat /\ Len(log) \in Nat
BY Pushing, LenProperties DEF TypeOK, Waiting

LEMMA RecordedNothing ==
  ASSUME NEW q \in Seq(Entry)
  PROVE  q \o Recorded(<<>>) = q
<1>1. Recorded(<<>>) = <<>>
  BY DEF Recorded
<1>2. QED
  BY <1>1, ConcatEmptySeq

LEMMA RecordedOneMore ==
  ASSUME NEW q \in Seq(Entry), NEW keys \in Seq(Key), NEW k \in Key
  PROVE  q \o Recorded(Append(keys, k)) = Append(q \o Recorded(keys), [sc |-> k, fresh |-> TRUE])
<1> DEFINE x == [sc |-> k, fresh |-> TRUE]
           r == Recorded(keys)
           s == Recorded(Append(keys, k))
<1>1. x \in Entry
  BY DEF Entry
<1>2. /\ Append(keys, k) \in Seq(Key) /\ Len(Append(keys, k)) = Len(keys) + 1
      /\ \A i \in 1..Len(keys) : Append(keys, k)[i] = keys[i]
      /\ Append(keys, k)[Len(keys) + 1] = k
  BY AppendProperties
<1>3. r \in Seq(Entry) /\ Len(r) = Len(keys) /\ s \in Seq(Entry) /\ Len(s) = Len(keys) + 1
  BY <1>2, RecordedType
<1>4. Len(keys) \in Nat
  BY LenProperties
<1>5. \A i \in 1..Len(keys) : r[i] = [sc |-> keys[i], fresh |-> TRUE]
  BY <1>4 DEF Recorded
<1>6. \A i \in 1..Len(keys) + 1 : s[i] = [sc |-> Append(keys, k)[i], fresh |-> TRUE]
  BY <1>2, <1>4 DEF Recorded
<1> HIDE DEF r, s, x
<1>7. Append(r, x) \in Seq(Entry) /\ Len(Append(r, x)) = Len(keys) + 1
      /\ (\A i \in 1..Len(keys) : Append(r, x)[i] = r[i]) /\ Append(r, x)[Len(keys) + 1] = x
  BY <1>1, <1>3, AppendProperties
<1>8. \A i \in 1..Len(s) : s[i] = Append(r, x)[i]
  <2> SUFFICES ASSUME NEW i \in 1..Len(s) PROVE s[i] = Append(r, x)[i]
    OBVIOUS
  <2>1. CASE i \in 1..Len(keys)
    BY <1>2, <1>3, <1>5, <1>6, <1>7, <2>1
  <2>2. CASE i = Len(keys) + 1
    BY <1>2, <1>3, <1>6, <1>7, <2>2 DEF x
  <2>3. QED
    BY <1>3, <1>4, <2>1, <2>2
<1>9. s = Append(r, x)
  BY <1>3, <1>7, <1>8, SeqEqual
<1>10. q \o Append(r, x) = Append(q \o r, x)
  <2>1. q \o r \in Seq(Entry) /\ <<x>> \in Seq(Entry)
    BY <1>1, <1>3, ConcatProperties
  <2>2. Append(r, x) = r \o <<x>> /\ Append(q \o r, x) = (q \o r) \o <<x>>
    BY <1>1, <1>3, <2>1, AppendIsConcat
  <2>3. q \o (r \o <<x>>) = (q \o r) \o <<x>>
    BY <1>3, <2>1, ConcatAssociative
  <2>4. QED
    BY <2>2, <2>3
<1>11. QED
  BY <1>9, <1>10 DEF r, s, x

LEMMA KeptWhole ==
  ASSUME NEW q \in Seq(Entry), Len(q) <= Capacity
  PROVE  Kept(q) = q
<1>1. Len(q) \in Nat /\ Capacity \in Nat
  BY EchoAssumption, LenProperties
<1>2. QED
  BY <1>1 DEF Kept

LEMMA SoundBefore ==
  ASSUME TypeOK, [Next]_vars, Sound'
  PROVE  Sound
<1>1. lost \in Nat /\ eaten \in Nat
  BY DEF TypeOK
<1>2. lost' \in {lost, lost + 1} /\ eaten' \in {eaten, eaten + 1} /\ slips \subseteq slips'
  <2>1. CASE UNCHANGED vars
    BY <2>1 DEF vars, tallies
  <2>2. CASE Reads
    BY <1>1, <2>2 DEF Reads
  <2>3. CASE Next /\ ~Reads
    BY <2>3 DEF Next, tallies, UserPresses, emit_one, RemapperDrops, RemapperStarts,
       GateRechecks, DeadlinePasses, StartSending, push_echoes, ChordFails, Settled
  <2>4. QED
    BY <2>1, <2>2, <2>3
<1>3. QED
  BY <1>1, <1>2 DEF Sound

LEMMA PairedAround ==
  ASSUME TypeOK, Paired, Sound',
         \/ \E k \in Key : UserPresses(k)
         \/ \E i \in 1..Len(wire) : RemapperDrops(i)
         \/ RemapperStarts \/ GateRechecks
         \/ \E n \in 1..Len(expected) : DeadlinePasses(n)
  PROVE  Paired'
<1>1. /\ wire \in Seq(Press) /\ expected \in Seq(Entry) /\ log \in Seq(Key)
      /\ Waiting \in Seq(Entry) /\ Len(Waiting) = Len(expected) + Len(log)
      /\ Len(expected) \in Nat /\ Len(log) \in Nat
  BY WaitingType
<1>2. PICK g \in 0..Len(Waiting) :
             (g # 0 => lost = 1) /\ \E m \in [1..Len(Waiting) -> Nat] : Answered(wire, Waiting, g, m)
  BY DEF Paired
<1>3. PICK m \in [1..Len(Waiting) -> Nat] : Answered(wire, Waiting, g, m)
  BY <1>2
<1>4. leaked = 0 /\ (log # <<>> => pc = "send")
  BY DEF Paired
<1>5. CASE \E k \in Key : UserPresses(k)
  <2>1. PICK k \in Key : UserPresses(k)
    BY <1>5
  <2> DEFINE e == [sc |-> k, ours |-> FALSE, injected |-> FALSE]
  <2>2. e \in Press /\ ~e.ours
    BY DEF Press
  <2>3. wire' = Append(wire, e) /\ Waiting' = Waiting /\ UNCHANGED <<log, pc, leaked, lost>>
    BY <2>1 DEF UserPresses, engine, tallies, Waiting
  <2> HIDE DEF e
  <2>4. Answered(wire', Waiting', g, m)
    BY <1>1, <1>3, <2>2, <2>3, AnsweredUser
  <2>5. QED
    BY <1>2, <1>4, <2>3, <2>4 DEF Paired
<1>6. CASE \E i \in 1..Len(wire) : RemapperDrops(i)
  <2>1. PICK i \in 1..Len(wire) : RemapperDrops(i)
    BY <1>6
  <2>2. /\ wire' = Without(wire, i) /\ wire[i].ours /\ lost' = lost + 1
        /\ Waiting' = Waiting /\ UNCHANGED <<log, pc, leaked>>
    BY <2>1 DEF RemapperDrops, engine, tallies, Waiting
  <2>3. lost = 0 /\ lost' = 1
    BY <2>2 DEF Sound, TypeOK
  <2>4. g = 0
    BY <1>2, <2>3
  <2>5. PICK h \in 1..Len(Waiting) :
               \E n \in [1..Len(Waiting) -> Nat] : Answered(Without(wire, i), Waiting, h, n)
    BY <1>1, <1>3, <2>2, <2>4, AnsweredDrop
  <2>6. h \in 0..Len(Waiting)
    BY <1>1
  <2>7. QED
    BY <1>4, <2>2, <2>3, <2>5, <2>6 DEF Paired
<1>7. CASE RemapperStarts \/ GateRechecks
  <2>1. UNCHANGED <<wire, log, expected, pc, leaked, lost>>
    BY <1>7 DEF RemapperStarts, GateRechecks, engine, tallies
  <2>2. QED
    BY <2>1 DEF Paired, Waiting
<1>8. CASE \E n \in 1..Len(expected) : DeadlinePasses(n)
  <2>1. PICK n \in 1..Len(expected) : DeadlinePasses(n)
    BY <1>8
  <2>2. /\ UNCHANGED <<wire, log, pc, lost, leaked>>
        /\ Len(expected') = Len(expected) /\ expected' \in Seq(Entry)
    <3>1. \A i \in 1..Len(expected) :
            (IF i <= n THEN [expected[i] EXCEPT !.fresh = FALSE] ELSE expected[i]) \in Entry
      <4>1. \A i \in 1..Len(expected) : expected[i] \in Entry
        BY <1>1, LenProperties
      <4>2. \A x \in Entry : [x EXCEPT !.fresh = FALSE] \in Entry
        BY DEF Entry
      <4>3. QED
        BY <4>1, <4>2
    <3>2. QED
      BY <1>1, <2>1, <3>1 DEF DeadlinePasses, tallies
  <2>3. \A p \in 1..Len(wire) : ~wire[p].ours
    BY <2>1 DEF DeadlinePasses, Sound, Ours
  <2>4. Waiting # <<>>
    BY <1>1, <2>1, EmptySeq
  <2>5. g = 1 /\ Len(Waiting) = 1
    BY <1>1, <1>3, <2>3, <2>4, NothingFlies
  <2>6. Len(Waiting') = 1
    <3>1. Waiting' \in Seq(Entry) /\ Len(Waiting') = Len(expected') + Len(log')
      BY <1>1, <2>2, Pushing DEF Waiting
    <3>2. QED
      BY <1>1, <2>2, <2>5, <3>1
  <2>7. Answered(wire', Waiting', 1, m)
    <3>1. \A i \in 1..Len(Waiting') : i = 1
      BY <2>6
    <3>2. QED
      BY <1>3, <2>2, <2>3, <2>5, <2>6, <3>1 DEF Answered
  <2>8. QED
    BY <1>2, <1>4, <2>2, <2>5, <2>6, <2>7 DEF Paired
<1>9. QED
  BY <1>5, <1>6, <1>7, <1>8

LEMMA PairedSending ==
  ASSUME TypeOK, Paired, Sound',
         \/ StartSending \/ ChordFails \/ Settled
         \/ \E k \in Key : emit_one(k)
         \/ \E next \in {"run", "send", "settle"} : push_echoes(next)
  PROVE  Paired'
<1>1. /\ wire \in Seq(Press) /\ expected \in Seq(Entry) /\ log \in Seq(Key)
      /\ Waiting \in Seq(Entry) /\ Len(Waiting) = Len(expected) + Len(log)
      /\ Len(expected) \in Nat /\ Len(log) \in Nat
  BY WaitingType
<1>2. leaked = 0 /\ (log # <<>> => pc = "send")
  BY DEF Paired
<1>3. CASE StartSending
  BY <1>3 DEF StartSending, Paired, Waiting, tallies
<1>4. CASE ChordFails
  BY <1>4 DEF ChordFails, Sound
<1>5. CASE Settled
  <2>1. log = <<>>
    BY <1>2, <1>5 DEF Settled
  <2>2. QED
    BY <1>5, <2>1 DEF Settled, Paired, Waiting, tallies
<1>6. CASE \E k \in Key : emit_one(k)
  <2>1. PICK k \in Key : emit_one(k)
    BY <1>6
  <2> DEFINE e == [sc |-> k, ours |-> TRUE, injected |-> ~proxied]
             x == [sc |-> k, fresh |-> TRUE]
  <2>2. e \in Press /\ e.ours /\ x \in Entry /\ x.fresh /\ x.sc = e.sc
    BY DEF Press, Entry, TypeOK
  <2>3. wire' = Append(wire, e) /\ pc = "send" /\ UNCHANGED <<pc, leaked, lost>>
    BY <2>1 DEF emit_one, tallies
  <2>4. Waiting' = Append(Waiting, x)
    BY <1>1, <2>1, RecordedOneMore DEF emit_one, Waiting
  <2>5. PICK g \in 0..Len(Waiting) :
               (g # 0 => lost = 1) /\ \E m \in [1..Len(Waiting) -> Nat] : Answered(wire, Waiting, g, m)
    BY DEF Paired
  <2>6. PICK m \in [1..Len(Waiting) -> Nat] : Answered(wire, Waiting, g, m)
    BY <2>5
  <2> HIDE DEF e, x
  <2>7. \E n \in [1..Len(Waiting) + 1 -> Nat] : Answered(Append(wire, e), Append(Waiting, x), g, n)
    BY <1>1, <2>2, <2>6, AnsweredSent
  <2>8. Len(Waiting') = Len(Waiting) + 1 /\ g \in 0..Len(Waiting')
    BY <1>1, <2>2, <2>4, AppendProperties
  <2>9. \E n \in [1..Len(Waiting') -> Nat] : Answered(wire', Waiting', g, n)
    BY <2>3, <2>4, <2>7, <2>8
  <2>10. QED
    BY <1>2, <2>3, <2>5, <2>8, <2>9 DEF Paired
<1>7. CASE \E next \in {"run", "send", "settle"} : push_echoes(next)
  <2>1. PICK next \in {"run", "send", "settle"} : push_echoes(next)
    BY <1>7
  <2>2. Len(Waiting) <= Capacity
    <3>1. Capacity \in Nat
      BY EchoAssumption
    <3>2. ~(Len(expected) + Len(log) > Capacity)
      BY <2>1 DEF push_echoes, Sound
    <3>3. QED
      BY <1>1, <3>1, <3>2
  <2>3. expected' = Waiting /\ log' = <<>> /\ UNCHANGED <<wire, leaked, lost>>
    BY <1>1, <2>1, <2>2, KeptWhole DEF push_echoes, Waiting, tallies
  <2>4. Waiting' = Waiting
    BY <1>1, <2>3, RecordedNothing DEF Waiting
  <2>5. QED
    BY <1>2, <2>3, <2>4 DEF Paired
<1>8. QED
  BY <1>3, <1>4, <1>5, <1>6, <1>7

LEMMA PairedReading ==
  ASSUME TypeOK, Paired, Sound', Reads
  PROVE  Paired'
<1>1. /\ wire \in Seq(Press) /\ expected \in Seq(Entry) /\ log \in Seq(Key)
      /\ Waiting \in Seq(Entry) /\ wire # <<>>
  BY WaitingType DEF Reads
<1>2. leaked = 0 /\ log = <<>>
  BY DEF Paired, Reads
<1>3. Waiting = expected
  BY <1>1, <1>2, RecordedNothing DEF Waiting
<1>4. PICK g \in 0..Len(expected) :
             (g # 0 => lost = 1) /\ \E m \in [1..Len(expected) -> Nat] : Answered(wire, expected, g, m)
  BY <1>3 DEF Paired
<1>5. PICK m \in [1..Len(expected) -> Nat] : Answered(wire, expected, g, m)
  BY <1>4
<1> DEFINE ev == Head(wire)
<1>6. ev = wire[1] /\ ev \in Press
  BY <1>1, HeadTailProperties
<1>7. wire' = Tail(wire) /\ UNCHANGED <<log, lost>> /\ pc' = pc
  BY DEF Reads
<1>8. SUFFICES /\ leaked' = 0
               /\ \E h \in 0..Len(expected') :
                    /\ h # 0 => g # 0
                    /\ \E n \in [1..Len(expected') -> Nat] : Answered(wire', expected', h, n)
  <2>1. PICK h \in 0..Len(expected') :
               (h # 0 => g # 0)
                 /\ \E n \in [1..Len(expected') -> Nat] : Answered(wire', expected', h, n)
    BY <1>8
  <2>2. log' = <<>>
    BY <1>2, <1>7
  <2>3. expected' \in Seq(Entry)
    <3>1. Live \in Seq(Entry)
      BY <1>1, StaleIsPrefix, Dropping DEF Live
    <3>2. QED
      BY <1>1, <3>1, TakesAtMost, Dropping DEF Reads
  <2>4. Waiting' = expected'
    BY <2>2, <2>3, RecordedNothing DEF Waiting
  <2>5. QED
    BY <1>4, <1>7, <1>8, <2>1, <2>2, <2>4 DEF Paired
<1>9. CASE ev.ours
  <2>1. ~Exempt(ev)
    BY <1>9 DEF Reads, Sound
  <2>2. Takes(Live, ev.sc) > 0
    BY <1>1, <1>5, <1>6, <1>9, OwnIsTaken DEF Live
  <2>3. consume_echo(ev)
    BY <2>1, <2>2 DEF consume_echo
  <2>4. leaked' = 0
    BY <1>2, <2>3 DEF Reads
  <2>5. expected' = Drop(Drop(expected, Stale(expected)), Takes(Drop(expected, Stale(expected)), wire[1].sc))
    BY <1>6, <2>1 DEF Reads, Live
  <2>6. \E h \in 0..Len(expected') :
          /\ h # 0 => g # 0
          /\ \E n \in [1..Len(expected') -> Nat] : Answered(Tail(wire), expected', h, n)
    BY <1>1, <1>5, <1>6, <1>9, <2>5, OwnIsTaken
  <2>7. QED
    BY <1>7, <2>4, <2>6
<1>10. CASE ~ev.ours
  <2>1. ~consume_echo(ev)
    BY <1>10 DEF Reads, Sound, TypeOK
  <2>2. leaked' = 0
    BY <1>2, <1>10 DEF Reads
  <2>3. \E k \in {0, Stale(expected)} : expected' = Drop(expected, k)
    <3>1. CASE Exempt(ev)
      <4>1. expected' = expected
        BY <3>1 DEF Reads
      <4>2. QED
        BY <1>1, <4>1, DropNothing
    <3>2. CASE ~Exempt(ev)
      <4>1. Live \in Seq(Entry)
        BY <1>1, StaleIsPrefix, Dropping DEF Live
      <4>2. Takes(Live, ev.sc) = 0
        BY <2>1, <3>2 DEF consume_echo, Takes
      <4>3. expected' = Live
        BY <3>2, <4>1, <4>2, DropNothing DEF Reads
      <4>4. QED
        BY <4>3 DEF Live
    <3>3. QED
      BY <3>1, <3>2
  <2>4. PICK k \in {0, Stale(expected)} : expected' = Drop(expected, k)
    BY <2>3
  <2>5. \E h \in 0..Len(expected') :
          /\ h # 0 => g # 0
          /\ \E n \in [1..Len(expected') -> Nat] : Answered(Tail(wire), expected', h, n)
    BY <1>1, <1>5, <1>6, <1>10, <2>4, UserTakesNothing
  <2>6. QED
    BY <1>7, <2>2, <2>5
<1>11. QED
  BY <1>9, <1>10

LEMMA PairedKept ==
  ASSUME TypeOK, EchoesPaired, [Next]_vars
  PROVE  EchoesPaired'
<1> SUFFICES ASSUME Sound' PROVE Paired'
  BY DEF EchoesPaired
<1>1. Paired
  BY SoundBefore DEF EchoesPaired
<1>2. CASE UNCHANGED vars
  BY <1>1, <1>2 DEF vars, engine, tallies, Paired, Waiting
<1>3. CASE Next
  BY <1>1, <1>3, PairedAround, PairedSending, PairedReading DEF Next
<1>4. QED
  BY <1>2, <1>3

LEMMA PairedInit == Init => EchoesPaired
<1> SUFFICES ASSUME Init PROVE Paired
  BY DEF EchoesPaired
<1>1. wire = <<>> /\ expected = <<>> /\ log = <<>> /\ leaked = 0
  BY DEF Init
<1>2. <<>> \in Seq(Entry) /\ Len(<<>>) = 0
  BY EmptySeq
<1>3. Waiting = <<>> /\ Len(Waiting) = 0
  BY <1>1, <1>2, RecordedNothing DEF Waiting
<1> DEFINE m == [i \in 1..Len(Waiting) |-> 0]
<1>4. m \in [1..Len(Waiting) -> Nat] /\ 0 \in 0..Len(Waiting)
  BY <1>3
<1>5. Answered(wire, Waiting, 0, m)
  BY <1>1, <1>2, <1>3, <1>4 DEF Answered
<1>6. QED
  BY <1>1, <1>4, <1>5 DEF Paired

\* One dropped event, wherever it falls in however many bursts, makes none of
\* our own presses pass for the user's.
THEOREM OwnPressesAreKnown == Spec => []EchoesSwallowed
<1>1. Spec => []EchoesPaired
  <2>1. TypeOK /\ EchoesPaired /\ [Next]_vars => EchoesPaired'
    BY PairedKept
  <2>2. QED
    BY <2>1, PairedInit, EchoTypes, PTL DEF Spec
<1>2. EchoesPaired => EchoesSwallowed
  BY DEF EchoesPaired, Sound, Paired, EchoesSwallowed
<1>3. QED
  BY <1>1, <1>2, PTL
=============================================================================
