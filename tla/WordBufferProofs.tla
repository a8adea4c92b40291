--------------------------- MODULE WordBufferProofs ---------------------------
(***************************************************************************)
(* What each operator of WordBuffer does, field by field, and what it does *)
(* to the screen model when the text changes with it.                      *)
(***************************************************************************)
EXTENDS WordBuffer, SequenceTheorems, WellFoundedInduction, TLAPS

\* The part of a buffer the screen model is about.
Holds(b, ks, pw, br) ==
  /\ b \in Buffer
  /\ b.keys = ks /\ b.prevWord = pw /\ b.boundaryRun = br

\* The flags that say how far the tracking is trusted.
SameTrust(b, c) ==
  /\ c.poisoned = b.poisoned /\ c.remainderAtCaret = b.remainderAtCaret
  /\ c.contextClean = b.contextClean /\ c.wordClean = b.wordClean

\* Every recursive definition over the indices of a sequence is reasoned about
\* from the first index at which something fails.
LEMMA LeastIndex ==
  ASSUME NEW T \in SUBSET Nat, T # {}
  PROVE  \E m \in T : \A k \in T : m <= k
<1>1. PICK m \in T : \A k \in T : <<k, m>> \notin OpToRel(<, Nat)
  BY NatLessThanWellFounded, WFMin
<1>2. \A k \in T : ~(k < m)
  BY <1>1 DEF OpToRel
<1>3. \A k \in T : m <= k
  BY <1>2
<1>4. QED
  BY <1>3

\* What holds at 0 and passes from each index to the next holds at all.
LEMMA StepByStep ==
  ASSUME NEW n \in Nat, NEW T, 0 \in T, \A i \in 1..n : i - 1 \in T => i \in T
  PROVE  \A i \in 0..n : i \in T
<1> DEFINE F == {i \in 0..n : i \notin T}
<1>1. CASE F = {}
  BY <1>1
<1>2. CASE F # {}
  <2>1. F \in SUBSET Nat
    OBVIOUS
  <2>2. PICK k \in F : \A l \in F : k <= l
    BY <1>2, <2>1, LeastIndex
  <2>3. k \in 1..n /\ k - 1 \in 0..n /\ ~(k <= k - 1)
    BY <2>2
  <2>4. k - 1 \in T
    BY <2>2, <2>3
  <2>5. QED
    BY <2>2, <2>3, <2>4
<1>3. QED
  BY <1>1, <1>2

\* There is a function that starts with b and goes on step by step.
LEMMA Iterated ==
  ASSUME NEW B, NEW b \in B, NEW n \in Nat, NEW step \in [1..n -> [B -> B]]
  PROVE  \E f \in [0..n -> B] :
           f[0] = b /\ \A i \in 1..n : f[i] = step[i][f[i - 1]]
<1> DEFINE Goes(m, f) == f[0] = b /\ \A i \in 1..m : f[i] = step[i][f[i - 1]]
           T == {m \in 0..n : \E f \in [0..m -> B] : Goes(m, f)}
<1>1. 0 \in T
  <2> DEFINE f == [i \in 0..0 |-> b]
  <2>1. f \in [0..0 -> B] /\ f[0] = b
    OBVIOUS
  <2>2. Goes(0, f) /\ 0 \in 0..n
    BY <2>1
  <2> HIDE DEF f, Goes
  <2>3. \E h \in [0..0 -> B] : Goes(0, h)
    BY <2>1, <2>2
  <2>4. QED
    BY <2>2, <2>3
<1>2. ASSUME NEW m \in 1..n, m - 1 \in T PROVE m \in T
  <2>1. PICK f \in [0..m - 1 -> B] : Goes(m - 1, f)
    BY <1>2
  <2> DEFINE g == [i \in 0..m |-> IF i < m THEN f[i] ELSE step[m][f[m - 1]]]
  <2>2. m - 1 \in 0..m - 1 /\ 0 \in 0..m - 1 /\ m \in 0..n /\ m \in Nat
    OBVIOUS
  <2>3. step[m][f[m - 1]] \in B
    BY <2>1, <2>2
  <2>4. g \in [0..m -> B]
    <3>1. ASSUME NEW i \in 0..m PROVE (IF i < m THEN f[i] ELSE step[m][f[m - 1]]) \in B
      <4>1. CASE i < m
        <5>1. i \in 0..m - 1
          BY <4>1
        <5>2. QED
          BY <2>1, <4>1, <5>1
      <4>2. CASE ~(i < m)
        BY <2>3, <4>2
      <4>3. QED
        BY <4>1, <4>2
    <3>2. QED
      BY <3>1
  <2>5. \A i \in 0..m : g[i] = IF i < m THEN f[i] ELSE step[m][f[m - 1]]
    OBVIOUS
  <2> HIDE DEF g
  <2>6. g[0] = b
    BY <2>1, <2>2, <2>5
  <2>7. ASSUME NEW i \in 1..m PROVE g[i] = step[i][g[i - 1]]
    <3>1. i - 1 \in 0..m /\ i - 1 < m /\ i \in 0..m
      OBVIOUS
    <3>2. g[i - 1] = f[i - 1]
      BY <2>5, <3>1
    <3>3. CASE i < m
      <4>1. i \in 1..m - 1
        BY <3>3
      <4>2. QED
        BY <2>1, <2>5, <3>1, <3>2, <3>3, <4>1
    <3>4. CASE i = m
      <4>1. ~(i < m)
        BY <3>4
      <4>2. QED
        BY <2>5, <3>1, <3>2, <3>4, <4>1
    <3>5. QED
      BY <3>3, <3>4
  <2>8. Goes(m, g)
    BY <2>6, <2>7
  <2>9. QED
    BY <2>2, <2>4, <2>8
<1> HIDE DEF T
<1>3. n \in T
  <2>1. \A m \in 0..n : m \in T
    BY <1>1, <1>2, StepByStep
  <2>2. QED
    BY <2>1
<1>4. QED
  BY <1>3 DEF T

LEMMA EmptySeqs == <<>> \in Seq(Letter) /\ <<>> \in Seq(Separator)
OBVIOUS

LEMMA FreshFields ==
  /\ Holds(FreshBuffer, <<>>, <<>>, <<>>)
  /\ FreshBuffer.prevLead = NoKey
  /\ ~FreshBuffer.poisoned /\ ~FreshBuffer.remainderAtCaret
BY EmptySeqs DEF FreshBuffer, Holds, Buffer

LEMMA PoisonFields ==
  ASSUME NEW b \in Buffer
  PROVE  /\ Holds(Poison(b), b.keys, b.prevWord, b.boundaryRun)
         /\ Poison(b).prevLead = b.prevLead
         /\ Poison(b).poisoned = TRUE /\ Poison(b).remainderAtCaret = TRUE
         /\ Poison(b).contextClean = b.contextClean
         /\ Poison(b).wordClean = b.wordClean
BY DEF Poison, Holds, Buffer

LEMMA SettleFields ==
  ASSUME NEW b \in Buffer
  PROVE  /\ Holds(Settle(b), b.keys, b.prevWord, b.boundaryRun)
         /\ Settle(b).prevLead = b.prevLead
         /\ SameTrust(b, Settle(b))
BY DEF Settle, Holds, Buffer, SameTrust

LEMMA UntaintFields ==
  ASSUME NEW b \in Buffer
  PROVE  /\ Holds(Untaint(b), b.keys, b.prevWord, b.boundaryRun)
         /\ Untaint(b).prevLead = b.prevLead /\ Untaint(b).lead = b.lead
         /\ Untaint(b).poisoned = FALSE /\ Untaint(b).remainderAtCaret = FALSE
         /\ Untaint(b).contextClean = b.contextClean
         /\ Untaint(b).wordClean = b.wordClean
BY DEF Untaint, Holds, Buffer

LEMMA UncleanFields ==
  ASSUME NEW b \in Buffer
  PROVE  /\ Holds(MarkContextUnclean(b), b.keys, b.prevWord, b.boundaryRun)
         /\ MarkContextUnclean(b).prevLead = b.prevLead
         /\ MarkContextUnclean(b).poisoned = b.poisoned
         /\ MarkContextUnclean(b).remainderAtCaret = b.remainderAtCaret
         /\ MarkContextUnclean(b).contextClean = FALSE
         /\ MarkContextUnclean(b).wordClean = b.wordClean
BY DEF MarkContextUnclean, Holds, Buffer

LEMMA ForgetFields ==
  ASSUME NEW b \in Buffer
  PROVE  /\ Holds(ForgetCompleted(b), b.keys, <<>>, <<>>)
         /\ ForgetCompleted(b).prevLead = NoKey
         /\ SameTrust(b, ForgetCompleted(b))
<1>1. ForgetCompleted(b) \in Buffer
  BY EmptySeqs DEF ForgetCompleted, Buffer
<1>2. QED
  BY <1>1 DEF ForgetCompleted, Holds, Buffer, SameTrust

LEMMA ReplaceFields ==
  ASSUME NEW b \in Buffer, NEW w \in Seq(Letter), w # <<>>
  PROVE  /\ Holds(ReplaceCompleted(b, w), b.keys, w, b.boundaryRun)
         /\ ReplaceCompleted(b, w).prevLead = b.prevLead
         /\ SameTrust(b, ReplaceCompleted(b, w))
BY DEF ReplaceCompleted, Holds, Buffer, SameTrust

\* One field overwritten, the others as they were.
LEMMA DropLead ==
  ASSUME NEW b \in Buffer
  PROVE  LET c == [b EXCEPT !.lead = NoKey]
         IN  /\ Holds(c, b.keys, b.prevWord, b.boundaryRun)
             /\ c.prevLead = b.prevLead
             /\ SameTrust(b, c)
BY DEF Holds, Buffer, SameTrust

LEMMA SetRun ==
  ASSUME NEW b \in Buffer, NEW r \in Seq(Separator)
  PROVE  LET c == [b EXCEPT !.boundaryRun = r]
         IN  /\ Holds(c, b.keys, b.prevWord, r)
             /\ c.prevLead = b.prevLead
             /\ SameTrust(b, c)
BY DEF Holds, Buffer, SameTrust

LEMMA LeaveRemainder ==
  ASSUME NEW b \in Buffer
  PROVE  LET c == [b EXCEPT !.remainderAtCaret = FALSE]
         IN  /\ Holds(c, b.keys, b.prevWord, b.boundaryRun)
             /\ c.prevLead = b.prevLead /\ c.contextClean = b.contextClean
             /\ c.poisoned = b.poisoned /\ c.remainderAtCaret = FALSE
BY DEF Holds, Buffer

LEMMA AbandonFields ==
  ASSUME NEW b \in Buffer
  PROVE  /\ Holds(Abandon(b), <<>>, <<>>, <<>>)
         /\ Abandon(b).prevLead = NoKey
         /\ Abandon(b).poisoned = (b.poisoned \/ b.keys # <<>>)
         /\ Abandon(b).remainderAtCaret = (b.remainderAtCaret \/ b.keys # <<>>)
         /\ Abandon(b).contextClean = b.contextClean
         /\ Abandon(b).wordClean = b.wordClean
<1> DEFINE t == IF b.keys # <<>> THEN Poison(b) ELSE b
           c == [t EXCEPT !.settled = FALSE, !.keys = <<>>, !.prevWord = <<>>,
                          !.boundaryRun = <<>>, !.lead = NoKey,
                          !.prevLead = NoKey]
<1>1. /\ t \in Buffer
      /\ t.contextClean = b.contextClean /\ t.wordClean = b.wordClean
      /\ t.poisoned = (b.poisoned \/ b.keys # <<>>)
      /\ t.remainderAtCaret = (b.remainderAtCaret \/ b.keys # <<>>)
  <2>1. CASE b.keys # <<>>
    BY <2>1, PoisonFields DEF Holds
  <2>2. CASE b.keys = <<>>
    BY <2>2 DEF Buffer
  <2>3. QED BY <2>1, <2>2
<1> HIDE DEF t
<1>2. c \in Buffer
  BY <1>1, EmptySeqs DEF Buffer
<1>3. /\ c.keys = <<>> /\ c.prevWord = <<>> /\ c.boundaryRun = <<>>
      /\ c.prevLead = NoKey /\ c.poisoned = t.poisoned
      /\ c.remainderAtCaret = t.remainderAtCaret
      /\ c.contextClean = t.contextClean /\ c.wordClean = t.wordClean
  BY <1>1 DEF Buffer
<1>4. Abandon(b) = c
  BY DEF Abandon, t
<1>5. QED
  BY <1>1, <1>2, <1>3, <1>4 DEF Holds

LEMMA FeedWordFields ==
  ASSUME NEW b \in Buffer, NEW k \in Letter
  PROVE  /\ Holds(FeedWord(b, k), Append(b.keys, k),
                  IF b.keys = <<>> /\ b.boundaryRun = <<>>
                  THEN <<>> ELSE b.prevWord,
                  b.boundaryRun)
         /\ FeedWord(b, k).prevLead = b.prevLead
         /\ FeedWord(b, k).poisoned = b.poisoned
         /\ FeedWord(b, k).remainderAtCaret = b.remainderAtCaret
         /\ FeedWord(b, k).contextClean = b.contextClean
         /\ FeedWord(b, k).wordClean =
              IF b.keys = <<>> THEN b.contextClean ELSE b.wordClean
<1>1. Append(b.keys, k) \in Seq(Letter) /\ b.prevWord \in Seq(Letter)
  BY DEF Buffer
<1>2. FeedWord(b, k) \in Buffer
  BY <1>1, EmptySeqs, ZenonT(30) DEF FeedWord, Buffer
<1>3. QED
  BY <1>2 DEF FeedWord, Holds, Buffer

LEMMA ResyncFields ==
  ASSUME NEW b \in Buffer, NEW s \in Separator
  PROVE  /\ Holds(Resync(b, s), b.keys, b.prevWord, b.boundaryRun)
         /\ Resync(b, s).prevLead = b.prevLead
         /\ Resync(b, s).poisoned = FALSE
         /\ Resync(b, s).remainderAtCaret = FALSE
<1>1. Untaint(b) \in Buffer
  BY UntaintFields DEF Holds
<1>2. QED
  BY <1>1, UntaintFields DEF Resync, Holds, Buffer

\* What a boundary leaves in the buffer: nothing, a longer run, a run that
\* dropped its oldest separator, or the word it completed.
LEMMA FeedBoundaryFields ==
  ASSUME NEW b \in Buffer, NEW s \in Separator
  PROVE  LET f == FeedBoundary(b, s)
         IN  /\ \/ Holds(f, <<>>, <<>>, <<>>)
                \/ b.keys = <<>> /\ Holds(f, <<>>, b.prevWord, Append(b.boundaryRun, s))
                \/ /\ b.keys = <<>> /\ b.boundaryRun # <<>>
                   /\ Holds(f, <<>>, <<>>, Append(Tail(b.boundaryRun), s))
                \/ b.keys # <<>> /\ Holds(f, <<>>, b.keys, <<s>>)
             /\ (b.prevLead # NoKey => b.prevWord # <<>>)
                  => (f.prevLead # NoKey => f.prevWord # <<>>)
             /\ f.poisoned = FALSE /\ f.remainderAtCaret = FALSE
<1> DEFINE r == Resync(b, s)
           x == [r EXCEPT !.boundaryRun = Append(b.boundaryRun, s)]
           y == [r EXCEPT !.boundaryRun = Append(Tail(b.boundaryRun), s)]
<1>1. /\ r \in Buffer /\ r.keys = b.keys /\ r.prevWord = b.prevWord
      /\ r.boundaryRun = b.boundaryRun /\ r.prevLead = b.prevLead
      /\ r.poisoned = FALSE /\ r.remainderAtCaret = FALSE
  BY ResyncFields DEF Holds
<1>2. CASE b.keys = <<>>
  <2>1. \/ FeedBoundary(b, s) = ForgetCompleted(r)
        \/ FeedBoundary(b, s) = x
        \/ /\ FeedBoundary(b, s) = y
           /\ ~(Len(b.boundaryRun) < MaxRun) /\ b.prevWord = <<>>
    BY <1>1, <1>2 DEF FeedBoundary, ExtendRun
  <2>2. b.boundaryRun \in Seq(Separator)
    BY DEF Buffer
  <2> HIDE DEF r
  <2>3. CASE FeedBoundary(b, s) = ForgetCompleted(r)
    <3>1. Holds(ForgetCompleted(r), <<>>, <<>>, <<>>)
          /\ ForgetCompleted(r).prevLead = NoKey
          /\ SameTrust(r, ForgetCompleted(r))
      BY <1>1, <1>2, ForgetFields
    <3>2. QED
      BY <1>1, <2>3, <3>1 DEF SameTrust
  <2>4. CASE FeedBoundary(b, s) = x
    <3>1. Append(b.boundaryRun, s) \in Seq(Separator)
      BY <2>2
    <3>2. Holds(x, <<>>, b.prevWord, Append(b.boundaryRun, s))
          /\ x.prevLead = b.prevLead /\ SameTrust(r, x)
      BY <1>1, <1>2, <3>1, SetRun
    <3> HIDE DEF x
    <3>3. QED
      BY <1>1, <1>2, <2>4, <3>2 DEF SameTrust, Holds
  <2>5. CASE /\ FeedBoundary(b, s) = y
             /\ ~(Len(b.boundaryRun) < MaxRun) /\ b.prevWord = <<>>
    <3>1. b.boundaryRun # <<>>
      BY <2>2, <2>5, BufferAssumption
    <3>2. Append(Tail(b.boundaryRun), s) \in Seq(Separator)
      BY <2>2, <3>1
    <3>3. Holds(y, <<>>, b.prevWord, Append(Tail(b.boundaryRun), s))
          /\ y.prevLead = b.prevLead /\ SameTrust(r, y)
      BY <1>1, <1>2, <3>2, SetRun
    <3> HIDE DEF y
    <3>4. QED
      BY <1>1, <1>2, <2>5, <3>1, <3>3 DEF SameTrust, Holds
  <2>6. QED
    BY <2>1, <2>3, <2>4, <2>5
<1>3. CASE b.keys # <<>>
  <2> DEFINE c == [r EXCEPT !.keys = <<>>, !.prevWord = b.keys,
                            !.prevClean = b.wordClean,
                            !.prevLead = b.lead, !.boundaryRun = <<s>>]
  <2>1. <<s>> \in Seq(Separator) /\ b.keys \in Seq(Letter)
    BY DEF Buffer
  <2>2. c \in Buffer
    BY <1>1, <2>1, EmptySeqs DEF Buffer
  <2>3. /\ c.keys = <<>> /\ c.prevWord = b.keys /\ c.boundaryRun = <<s>>
        /\ c.poisoned = FALSE /\ c.remainderAtCaret = FALSE
    BY <1>1 DEF Buffer
  <2>4. FeedBoundary(b, s) = IF Tainted(b) THEN ForgetCompleted(c) ELSE c
    BY <1>3 DEF FeedBoundary, CompleteWord
  <2> HIDE DEF c
  <2>5. QED
    BY <1>3, <2>2, <2>3, <2>4, ForgetFields DEF Holds, SameTrust
<1>4. QED
  BY <1>2, <1>3

LEMMA PopKeyFields ==
  ASSUME NEW b \in Buffer, b.keys # <<>>
  PROVE  LET f == FeedBackspace(b)
         IN  /\ Holds(f, SubSeq(b.keys, 1, Len(b.keys) - 1), b.prevWord, b.boundaryRun)
             /\ f.prevLead = b.prevLead
             /\ SameTrust(b, f)
<1>1. SubSeq(b.keys, 1, Len(b.keys) - 1) \in Seq(Letter)
  BY DEF Buffer
<1>2. QED
  BY <1>1 DEF FeedBackspace, PopKey, Holds, Buffer, SameTrust

LEMMA PopSeparatorFields ==
  ASSUME NEW b \in Buffer, b.keys = <<>>, b.boundaryRun # <<>>
  PROVE  LET f   == FeedBackspace(b)
             run == SubSeq(b.boundaryRun, 1, Len(b.boundaryRun) - 1)
         IN  /\ \/ /\ run # <<>> /\ Holds(f, <<>>, b.prevWord, run)
                   /\ f.prevLead = b.prevLead
                   /\ f.wordClean = b.wordClean
                \/ /\ run = <<>> /\ Holds(f, b.prevWord, <<>>, <<>>)
                   /\ f.prevLead = NoKey
             /\ f.poisoned = b.poisoned
             /\ f.remainderAtCaret = b.remainderAtCaret
             /\ f.contextClean = b.contextClean
<1> DEFINE run == SubSeq(b.boundaryRun, 1, Len(b.boundaryRun) - 1)
<1>1. run \in Seq(Separator) /\ b.prevWord \in Seq(Letter)
  BY DEF Buffer
<1>2. FeedBackspace(b) = PopSeparator(b)
  BY DEF FeedBackspace
<1>3. CASE run # <<>>
  <2>1. PopSeparator(b) = [b EXCEPT !.boundaryRun = run]
    BY <1>3 DEF PopSeparator
  <2> HIDE DEF run
  <2>2. QED
    BY <1>1, <1>2, <1>3, <2>1, ZenonT(30) DEF Holds, Buffer, run
<1>4. CASE run = <<>>
  <2> DEFINE c == [b EXCEPT !.boundaryRun = run, !.keys = b.prevWord,
                            !.prevWord = <<>>, !.wordClean = b.prevClean,
                            !.lead = b.prevLead, !.prevLead = NoKey]
  <2>1. PopSeparator(b) = c
    BY <1>4 DEF PopSeparator
  <2>2. c \in Buffer
    BY <1>1, EmptySeqs DEF Buffer
  <2>3. QED
    BY <1>2, <1>4, <2>1, <2>2 DEF Holds, Buffer
<1>5. QED
  BY <1>3, <1>4

LEMMA PopUnseenFields ==
  ASSUME NEW b \in Buffer, b.keys = <<>>, b.boundaryRun = <<>>
  PROVE  LET f == FeedBackspace(b)
         IN  /\ Holds(f, <<>>, b.prevWord, <<>>)
             /\ f.prevLead = b.prevLead
             /\ f.poisoned = FALSE /\ f.remainderAtCaret = FALSE
             /\ f.contextClean = FALSE
<1> DEFINE a == Untaint(b)
           u == MarkContextUnclean(a)
<1>1. FeedBackspace(b) = [u EXCEPT !.lead = NoKey]
  BY DEF FeedBackspace, PopUnseen
<1>2. /\ Holds(a, b.keys, b.prevWord, b.boundaryRun)
      /\ a.prevLead = b.prevLead
      /\ a.poisoned = FALSE /\ a.remainderAtCaret = FALSE
  BY UntaintFields
<1> HIDE DEF a
<1>3. /\ Holds(u, a.keys, a.prevWord, a.boundaryRun)
      /\ u.prevLead = a.prevLead /\ u.contextClean = FALSE
      /\ u.poisoned = a.poisoned /\ u.remainderAtCaret = a.remainderAtCaret
  BY <1>2, UncleanFields DEF Holds
<1> HIDE DEF u
<1>4. QED
  BY <1>1, <1>2, <1>3, DropLead DEF Holds, SameTrust

LEMMA HeldBackspaceFields ==
  ASSUME NEW b \in Buffer
  PROVE  LET f == FeedHeldBackspace(b)
         IN  /\ IF b.keys # <<>> \/ b.boundaryRun # <<>>
                THEN /\ Holds(f, <<>>, <<>>, <<>>) /\ f.prevLead = NoKey
                     /\ f.poisoned
                ELSE /\ Holds(f, b.keys, b.prevWord, b.boundaryRun)
                     /\ f.prevLead = b.prevLead
                     /\ f.poisoned = b.poisoned
                     /\ f.remainderAtCaret = b.remainderAtCaret
             /\ f.contextClean = FALSE
<1> DEFINE t == IF b.keys # <<>> \/ b.boundaryRun # <<>>
                THEN Poison(Abandon(b)) ELSE b
           u == MarkContextUnclean(t)
<1>1. /\ t \in Buffer
      /\ IF b.keys # <<>> \/ b.boundaryRun # <<>>
         THEN /\ t.keys = <<>> /\ t.prevWord = <<>> /\ t.boundaryRun = <<>>
              /\ t.prevLead = NoKey /\ t.poisoned
         ELSE t = b
  <2> DEFINE a == Abandon(b)
  <2>1. Holds(a, <<>>, <<>>, <<>>) /\ a.prevLead = NoKey
    BY AbandonFields
  <2>2. CASE b.keys # <<>> \/ b.boundaryRun # <<>>
    <3>1. t = Poison(a)
      BY <2>2
    <3> HIDE DEF a, t
    <3>2. QED
      BY <2>1, <2>2, <3>1, PoisonFields DEF Holds
  <2>3. CASE ~(b.keys # <<>> \/ b.boundaryRun # <<>>)
    BY <2>3
  <2>4. QED
    BY <2>2, <2>3
<1> HIDE DEF t
<1>2. /\ Holds(u, t.keys, t.prevWord, t.boundaryRun)
      /\ u.prevLead = t.prevLead /\ u.poisoned = t.poisoned
      /\ u.remainderAtCaret = t.remainderAtCaret /\ u.contextClean = FALSE
  BY <1>1, UncleanFields
<1>3. FeedHeldBackspace(b) = [u EXCEPT !.lead = NoKey]
  BY DEF FeedHeldBackspace, t
<1> HIDE DEF u
<1>4. /\ Holds(FeedHeldBackspace(b), t.keys, t.prevWord, t.boundaryRun)
      /\ FeedHeldBackspace(b).prevLead = t.prevLead
      /\ FeedHeldBackspace(b).poisoned = t.poisoned
      /\ FeedHeldBackspace(b).remainderAtCaret = t.remainderAtCaret
      /\ FeedHeldBackspace(b).contextClean = FALSE
  BY <1>2, <1>3, DropLead DEF Holds, SameTrust
<1>5. QED
  BY <1>1, <1>4 DEF Holds

LEMMA EndAndDiscardFields ==
  ASSUME NEW b \in Buffer
  PROVE  LET f == FeedEndAndDiscard(b)
         IN  /\ Holds(f, <<>>, <<>>, <<>>) /\ f.prevLead = NoKey
             /\ f.remainderAtCaret = FALSE /\ f.contextClean = FALSE
<1> DEFINE a == Abandon(b)
           u == MarkContextUnclean(a)
<1>1. FeedEndAndDiscard(b) = [u EXCEPT !.remainderAtCaret = FALSE]
  BY DEF FeedEndAndDiscard
<1>2. Holds(a, <<>>, <<>>, <<>>) /\ a.prevLead = NoKey
  BY AbandonFields
<1> HIDE DEF a
<1>3. Holds(u, a.keys, a.prevWord, a.boundaryRun) /\ u.prevLead = a.prevLead
      /\ u.contextClean = FALSE
  BY <1>2, UncleanFields DEF Holds
<1> HIDE DEF u
<1>4. QED
  BY <1>1, <1>2, <1>3, LeaveRemainder DEF Holds

-----------------------------------------------------------------------------
(* Where a sequence stands in a text. *)

LEMMA KeepFields ==
  ASSUME NEW S, NEW t \in Seq(S), NEW n \in 0..Len(t)
  PROVE  /\ Keep(t, n) \in Seq(S) /\ Len(Keep(t, n)) = n
         /\ \A i \in 1..n : Keep(t, n)[i] = t[i]
<1>1. \A i \in 1..n : t[i] \in S
  BY ElementOfSeq
<1>2. n \in Int /\ 1 \in Int /\ n - 1 + 1 = n /\ (1 <= n \/ n = 0)
  OBVIOUS
<1>3. QED
  BY <1>1, <1>2, SubSeqProperties DEF Keep

LEMMA EndsEmpty ==
  ASSUME NEW t, NEW e \in Nat
  PROVE  EndsAt(t, e, <<>>)
BY DEF EndsAt

LEMMA EndsInLonger ==
  ASSUME NEW S, NEW t \in Seq(S), NEW k \in S, NEW R, NEW s \in Seq(R),
         NEW e \in 0..Len(t), EndsAt(t, e, s)
  PROVE  EndsAt(Append(t, k), e, s)
<1>1. Len(s) \in Nat /\ Len(t) \in Nat
  OBVIOUS
<1>2. ASSUME NEW i \in 1..Len(s)
      PROVE  Append(t, k)[e - Len(s) + i] = s[i]
  <2>1. e - Len(s) + i \in 1..Len(t)
    BY <1>1 DEF EndsAt
  <2>2. Append(t, k)[e - Len(s) + i] = t[e - Len(s) + i]
    BY <2>1
  <2>3. QED
    BY <2>2 DEF EndsAt
<1>3. QED
  BY <1>2 DEF EndsAt

LEMMA EndsAppend ==
  ASSUME NEW S, NEW t \in Seq(S), NEW k \in S, NEW R, NEW s \in Seq(R),
         k \in R, EndsAt(t, Len(t), s)
  PROVE  EndsAt(Append(t, k), Len(t) + 1, Append(s, k))
<1> DEFINE u == Append(t, k)
           a == Append(s, k)
           n == Len(t)
           m == Len(s)
<1>1. /\ n \in Nat /\ m \in 0..n /\ Len(a) = m + 1
      /\ \A i \in 1..m : a[i] = s[i] /\ t[n - m + i] = s[i]
      /\ \A j \in 1..n : u[j] = t[j]
      /\ a[m + 1] = k /\ u[n + 1] = k
  BY DEF EndsAt
<1> HIDE DEF u, a, n, m
<1>2. ASSUME NEW i \in 1..(m + 1)
      PROVE  u[n + 1 - (m + 1) + i] = a[i]
  <2>1. CASE i = m + 1
    <3>1. n + 1 - (m + 1) + i = n + 1
      BY <1>1, <2>1
    <3>2. QED
      BY <1>1, <2>1, <3>1
  <2>2. CASE i \in 1..m
    <3>1. n + 1 - (m + 1) + i = n - m + i /\ n - m + i \in 1..n
      BY <1>1, <2>2
    <3>2. QED
      BY <1>1, <2>2, <3>1
  <2>3. i = m + 1 \/ i \in 1..m
    BY <1>1
  <2>4. QED
    BY <2>1, <2>2, <2>3
<1>3. EndsAt(u, n + 1, a)
  BY <1>1, <1>2 DEF EndsAt
<1>4. QED
  BY <1>3 DEF u, a, n

LEMMA EndsInShorter ==
  ASSUME NEW S, NEW t \in Seq(S), NEW n \in 0..Len(t), NEW R, NEW s \in Seq(R),
         NEW e \in 0..n, EndsAt(t, e, s)
  PROVE  EndsAt(Keep(t, n), e, s)
<1>1. Len(s) \in Nat /\ Len(t) \in Nat
  OBVIOUS
<1>2. ASSUME NEW i \in 1..Len(s)
      PROVE  Keep(t, n)[e - Len(s) + i] = s[i]
  <2>1. e - Len(s) + i \in 1..n
    BY <1>1 DEF EndsAt
  <2>2. Keep(t, n)[e - Len(s) + i] = t[e - Len(s) + i]
    BY <2>1 DEF Keep
  <2>3. QED
    BY <2>2 DEF EndsAt
<1>3. QED
  BY <1>2 DEF EndsAt

LEMMA EndsPop ==
  ASSUME NEW t, NEW R, NEW s \in Seq(R), s # <<>>,
         NEW e \in Nat, EndsAt(t, e, s)
  PROVE  EndsAt(t, e - 1, SubSeq(s, 1, Len(s) - 1))
<1> DEFINE m == Len(s)
           p == SubSeq(s, 1, m - 1)
<1>1. m \in Nat /\ m # 0
  OBVIOUS
<1>2. Len(p) = m - 1 /\ \A i \in 1..(m - 1) : p[i] = s[i]
  <2>1. m - 1 \in 0..Len(s) /\ p = Keep(s, m - 1)
    BY <1>1 DEF Keep
  <2> HIDE DEF p, m
  <2>2. QED
    BY <2>1, KeepFields
<1>3. m <= e /\ \A i \in 1..m : t[e - m + i] = s[i]
  BY DEF EndsAt
<1> HIDE DEF m, p
<1>4. ASSUME NEW i \in 1..(m - 1)
      PROVE  t[e - 1 - (m - 1) + i] = p[i]
  <2>1. i \in 1..m /\ e - 1 - (m - 1) + i = e - m + i
    BY <1>1
  <2>2. QED
    BY <1>2, <1>3, <2>1
<1>5. m - 1 <= e - 1
  BY <1>1, <1>3
<1>6. EndsAt(t, e - 1, p)
  BY <1>2, <1>4, <1>5 DEF EndsAt
<1>7. QED
  BY <1>6 DEF m, p

LEMMA EndsTail ==
  ASSUME NEW t, NEW R, NEW s \in Seq(R), s # <<>>,
         NEW e \in Nat, EndsAt(t, e, s)
  PROVE  EndsAt(t, e, Tail(s))
<1> DEFINE m == Len(s)
           p == Tail(s)
<1>1. m \in Nat /\ m # 0 /\ Len(p) = m - 1
  OBVIOUS
<1>2. \A i \in 1..(m - 1) : p[i] = s[i + 1]
  OBVIOUS
<1>3. m <= e /\ \A i \in 1..m : t[e - m + i] = s[i]
  BY DEF EndsAt
<1> HIDE DEF m, p
<1>4. ASSUME NEW i \in 1..(m - 1)
      PROVE  t[e - (m - 1) + i] = p[i]
  <2>1. i + 1 \in 1..m /\ e - (m - 1) + i = e - m + (i + 1)
    BY <1>1
  <2>2. QED
    BY <1>2, <1>3, <2>1
<1>5. m - 1 <= e
  BY <1>1, <1>3
<1>6. EndsAt(t, e, p)
  BY <1>1, <1>4, <1>5 DEF EndsAt
<1>7. QED
  BY <1>6 DEF p

LEMMA EndsConcat ==
  ASSUME NEW S, NEW x \in Seq(S), NEW y \in Seq(S)
  PROVE  /\ EndsAt(x \o y, Len(x \o y), y)
         /\ \A R : \A s \in Seq(R) : \A e \in 0..Len(x) :
              EndsAt(x, e, s) => EndsAt(x \o y, e, s)
<1> DEFINE z == x \o y
           n == Len(x)
           m == Len(y)
<1>1. /\ n \in Nat /\ m \in Nat /\ Len(z) = n + m
      /\ \A i \in 1..(n + m) : z[i] = IF i <= n THEN x[i] ELSE y[i - n]
  BY ConcatProperties
<1> HIDE DEF z, n, m
<1>2. EndsAt(z, Len(z), y)
  <2>1. ASSUME NEW i \in 1..m
        PROVE  z[n + m - m + i] = y[i]
    <3>1. n + m - m + i = n + i /\ n + i \in 1..(n + m) /\ ~(n + i <= n)
          /\ n + i - n = i
      BY <1>1
    <3>2. QED
      BY <1>1, <3>1
  <2>2. QED
    BY <1>1, <2>1 DEF EndsAt, m
<1>3. ASSUME NEW R, NEW s \in Seq(R), NEW e \in 0..n, EndsAt(x, e, s)
      PROVE  EndsAt(z, e, s)
  <2>1. Len(s) \in Nat /\ Len(s) <= e
    BY <1>3 DEF EndsAt
  <2>2. ASSUME NEW i \in 1..Len(s)
        PROVE  z[e - Len(s) + i] = s[i]
    <3>1. e - Len(s) + i \in 1..(n + m) /\ e - Len(s) + i <= n
      BY <1>1, <2>1
    <3>2. z[e - Len(s) + i] = x[e - Len(s) + i]
      BY <1>1, <3>1
    <3>3. QED
      BY <1>3, <3>2 DEF EndsAt
  <2>3. QED
    BY <2>1, <2>2 DEF EndsAt
<1>4. QED
  BY <1>2, <1>3 DEF z, n

LEMMA EndsJoined ==
  ASSUME NEW t, NEW x \in Seq(Char), NEW y \in Seq(Char), NEW e \in Nat,
         EndsAt(t, e, y), EndsAt(t, e - Len(y), x)
  PROVE  EndsAt(t, e, x \o y)
<1> DEFINE z == x \o y
           n == Len(x)
           m == Len(y)
<1>1. /\ n \in Nat /\ m \in Nat /\ Len(z) = n + m
      /\ \A i \in 1..n + m : z[i] = IF i <= n THEN x[i] ELSE y[i - n]
  BY ConcatProperties
<1>2. /\ m <= e /\ n <= e - m
      /\ \A i \in 1..m : t[e - m + i] = y[i]
      /\ \A i \in 1..n : t[e - m - n + i] = x[i]
  BY DEF EndsAt
<1> HIDE DEF z, n, m
<1>3. ASSUME NEW i \in 1..n + m PROVE t[e - (n + m) + i] = z[i]
  <2>1. CASE i <= n
    <3>1. i \in 1..n /\ e - (n + m) + i = e - m - n + i
      BY <1>1, <2>1
    <3>2. QED
      BY <1>1, <1>2, <2>1, <3>1
  <2>2. CASE ~(i <= n)
    <3>1. i - n \in 1..m /\ e - (n + m) + i = e - m + (i - n)
      BY <1>1, <2>2
    <3>2. QED
      BY <1>1, <1>2, <2>2, <3>1
  <2>3. QED
    BY <2>1, <2>2
<1>4. EndsAt(t, e, z)
  BY <1>1, <1>2, <1>3 DEF EndsAt
<1>5. QED
  BY <1>4 DEF z

\* Deleting the end of a text and typing it again changes nothing.
LEMMA EndRetyped ==
  ASSUME NEW t \in Seq(Char), NEW s \in Seq(Char), EndsAt(t, Len(t), s)
  PROVE  Keep(t, Len(t) - Len(s)) \o s = t
<1> DEFINE n == Len(t)
           m == Len(s)
           k == Keep(t, n - m)
<1>1. n \in Nat /\ m \in Nat /\ m <= n /\ n - m \in 0..n
      /\ \A i \in 1..m : t[n - m + i] = s[i]
  BY DEF EndsAt
<1>2. k \in Seq(Char) /\ Len(k) = n - m /\ \A i \in 1..n - m : k[i] = t[i]
  BY <1>1, KeepFields
<1> HIDE DEF k, n, m
<1>3. /\ k \o s \in Seq(Char) /\ Len(k \o s) = (n - m) + m
      /\ \A i \in 1..(n - m) + m : (k \o s)[i] = IF i <= n - m THEN k[i] ELSE s[i - (n - m)]
  <2>1. /\ k \o s \in Seq(Char) /\ Len(k \o s) = Len(k) + Len(s)
        /\ \A i \in 1..Len(k) + Len(s) :
             (k \o s)[i] = IF i <= Len(k) THEN k[i] ELSE s[i - Len(k)]
    BY <1>2, ConcatProperties
  <2>2. Len(s) = m
    BY DEF m
  <2>3. QED
    BY <1>2, <2>1, <2>2
<1>4. ASSUME NEW i \in 1..n PROVE (k \o s)[i] = t[i]
  <2>1. i \in 1..(n - m) + m
    BY <1>1
  <2>2. CASE i <= n - m
    BY <1>1, <1>2, <1>3, <2>1, <2>2
  <2>3. CASE ~(i <= n - m)
    <3>1. i - (n - m) \in 1..m /\ n - m + (i - (n - m)) = i
      BY <1>1, <2>3, SMTT(30)
    <3>2. (k \o s)[i] = s[i - (n - m)]
      BY <1>3, <2>1, <2>3
    <3>3. QED
      BY <1>1, <3>1, <3>2
  <2>4. QED
    BY <2>2, <2>3
<1>5. Len(k \o s) = n
  BY <1>1, <1>3
<1>6. k \o s = t
  BY <1>3, <1>4, <1>5, SeqEqual DEF n
<1>7. QED
  BY <1>6 DEF k, n, m

-----------------------------------------------------------------------------
(* What the screen model makes of the fields. *)

LEMMA Lengths ==
  ASSUME NEW b \in Buffer, NEW t \in Seq(Char), Tracks(b, t)
  PROVE  /\ b.keys \in Seq(Letter) /\ b.prevWord \in Seq(Letter)
         /\ b.boundaryRun \in Seq(Separator)
         /\ Len(t) \in Nat /\ Len(b.keys) \in Nat
         /\ Len(b.boundaryRun) \in Nat /\ Len(b.prevWord) \in Nat
         /\ Len(b.keys) <= Len(t)
         /\ Len(b.boundaryRun) <= Len(t) - Len(b.keys)
         /\ Len(b.prevWord) <= Len(t) - Len(b.keys) - Len(b.boundaryRun)
<1>1. /\ b.keys \in Seq(Letter) /\ b.prevWord \in Seq(Letter)
      /\ b.boundaryRun \in Seq(Separator)
  BY DEF Buffer
<1>2. /\ Len(t) \in Nat /\ Len(b.keys) \in Nat /\ Len(b.boundaryRun) \in Nat
      /\ Len(b.prevWord) \in Nat
  BY <1>1
<1>3. /\ Len(b.keys) <= Len(t)
      /\ Len(b.boundaryRun) <= Len(t) - Len(b.keys)
      /\ Len(b.prevWord) <= Len(t) - Len(b.keys) - Len(b.boundaryRun)
  BY DEF Tracks, EndsAt
<1>4. QED
  BY <1>1, <1>2, <1>3

LEMMA TracksBlank ==
  ASSUME NEW b, Holds(b, <<>>, <<>>, <<>>), NEW t \in Seq(Char)
  PROVE  Tracks(b, t)
<1>1. Len(t) \in Nat /\ Len(t) - 0 = Len(t)
  OBVIOUS
<1>2. QED
  BY <1>1, EndsEmpty DEF Holds, Tracks

LEMMA TracksSame ==
  ASSUME NEW b, NEW c, NEW t \in Seq(Char), Tracks(b, t),
         Holds(c, b.keys, b.prevWord, b.boundaryRun)
  PROVE  Tracks(c, t)
BY DEF Holds, Tracks

LEMMA TracksForgotten ==
  ASSUME NEW b \in Buffer, NEW c, NEW t \in Seq(Char), Tracks(b, t),
         Holds(c, b.keys, <<>>, <<>>)
  PROVE  Tracks(c, t)
<1> DEFINE n == Len(t)
           k == Len(b.keys)
<1>1. n \in Nat /\ k \in Nat /\ k <= n
  BY Lengths
<1>2. EndsAt(t, n, b.keys)
  BY DEF Tracks
<1> HIDE DEF n, k
<1>3. n - k \in Nat /\ n - k - 0 = n - k
  BY <1>1
<1>4. EndsAt(t, n - k, <<>>)
  BY <1>3, EndsEmpty
<1>5. c.keys = b.keys /\ c.prevWord = <<>> /\ c.boundaryRun = <<>>
  BY DEF Holds
<1>6. QED
  BY <1>2, <1>3, <1>4, <1>5 DEF Tracks, n, k

LEMMA TracksLetter ==
  ASSUME NEW b \in Buffer, NEW t \in Seq(Char), NEW k \in Letter, Tracks(b, t)
  PROVE  /\ Append(t, k) \in Seq(Char)
         /\ Tracks(FeedWord(b, k), Append(t, k))
         /\ StartsWord(t, Len(b.keys))
              => StartsWord(Append(t, k), Len(FeedWord(b, k).keys))
<1> DEFINE c == FeedWord(b, k)
           u == Append(t, k)
           n == Len(t)
           m == Len(b.keys)
           r == Len(b.boundaryRun)
<1>1. /\ c.keys = Append(b.keys, k)
      /\ c.prevWord = b.prevWord \/ c.prevWord = <<>>
      /\ c.boundaryRun = b.boundaryRun
  BY FeedWordFields DEF Holds
<1>2. /\ b.keys \in Seq(Letter) /\ b.prevWord \in Seq(Letter)
      /\ b.boundaryRun \in Seq(Separator)
      /\ n \in Nat /\ m \in Nat /\ r \in Nat /\ m <= n /\ r <= n - m
  BY Lengths
<1>3. u \in Seq(Char) /\ Len(u) = n + 1 /\ k \in Char
      /\ \A i \in 1..n : u[i] = t[i]
  BY DEF Char
<1>4. Len(c.keys) = m + 1
  BY <1>1, <1>2
<1>5. /\ EndsAt(t, n, b.keys) /\ EndsAt(t, n - m, b.boundaryRun)
      /\ EndsAt(t, n - m - r, b.prevWord)
  BY DEF Tracks
<1>6. EndsAt(u, n + 1, c.keys)
  BY <1>1, <1>2, <1>3, <1>5, EndsAppend
<1>7. n - m \in 0..Len(t) /\ n - m - r \in 0..Len(t) /\ n - m - r \in Nat
  <2> HIDE DEF m, r
  <2>1. QED
    BY <1>2
<1>8. EndsAt(u, n - m, b.boundaryRun) /\ EndsAt(u, n - m - r, b.prevWord)
  <2> HIDE DEF m, r
  <2>1. QED
    BY <1>2, <1>3, <1>5, <1>7, EndsInLonger
<1>9. EndsAt(u, n - m - r, <<>>)
  BY <1>7, EndsEmpty
<1>10. EndsAt(u, n - m - r, c.prevWord)
  BY <1>1, <1>8, <1>9
<1> HIDE DEF c, u, n, m
<1>11. Len(u) - Len(c.keys) = n - m
  BY <1>2, <1>3, <1>4
<1>12. Tracks(c, u)
  BY <1>1, <1>3, <1>6, <1>8, <1>10, <1>11 DEF Tracks
<1>13. StartsWord(t, m) => StartsWord(u, Len(c.keys))
  <2>1. CASE m < n
    <3>1. n - m \in 1..n
      BY <1>2, <2>1
    <3>2. QED
      BY <1>3, <1>11, <2>1, <3>1 DEF StartsWord, n
  <2>2. CASE ~(m < n)
    BY <1>2, <1>3, <1>4, <2>2 DEF StartsWord
  <2>3. QED
    BY <2>1, <2>2
<1>14. QED
  BY <1>3, <1>12, <1>13 DEF c, u, m

LEMMA TracksSeparator ==
  ASSUME NEW b \in Buffer, NEW t \in Seq(Char), NEW s \in Separator,
         Tracks(b, t), b.prevLead # NoKey => b.prevWord # <<>>
  PROVE  /\ Append(t, s) \in Seq(Char)
         /\ Tracks(FeedBoundary(b, s), Append(t, s))
<1> DEFINE c == FeedBoundary(b, s)
           u == Append(t, s)
           n == Len(t)
           m == Len(b.keys)
           r == Len(b.boundaryRun)
<1>1. /\ b.keys \in Seq(Letter) /\ b.prevWord \in Seq(Letter)
      /\ b.boundaryRun \in Seq(Separator)
      /\ n \in Nat /\ m \in Nat /\ r \in Nat /\ m <= n /\ r <= n - m
  BY Lengths
<1>2. u \in Seq(Char) /\ Len(u) = n + 1 /\ s \in Char /\ n \in 0..Len(t)
  BY DEF Char
<1>3. /\ EndsAt(t, n, b.keys) /\ EndsAt(t, n - m, b.boundaryRun)
      /\ EndsAt(t, n - m - r, b.prevWord)
  BY DEF Tracks
<1>4. \/ Holds(c, <<>>, <<>>, <<>>)
      \/ b.keys = <<>> /\ Holds(c, <<>>, b.prevWord, Append(b.boundaryRun, s))
      \/ /\ b.keys = <<>> /\ b.boundaryRun # <<>>
         /\ Holds(c, <<>>, <<>>, Append(Tail(b.boundaryRun), s))
      \/ b.keys # <<>> /\ Holds(c, <<>>, b.keys, <<s>>)
  BY FeedBoundaryFields
<1> HIDE DEF c
<1>5. ASSUME Holds(c, <<>>, <<>>, <<>>) PROVE Tracks(c, u)
  BY <1>2, <1>5, TracksBlank
<1>6. ASSUME b.keys = <<>>, Holds(c, <<>>, b.prevWord, Append(b.boundaryRun, s))
      PROVE  Tracks(c, u)
  <2> DEFINE a == Append(b.boundaryRun, s)
  <2>1. m = 0 /\ Len(a) = r + 1
    BY <1>1, <1>6
  <2>2. EndsAt(t, n, b.boundaryRun) /\ EndsAt(t, n - r, b.prevWord)
    <3>1. n - m = n /\ n - m - r = n - r
      BY <1>1, <2>1
    <3>2. QED
      BY <1>3, <3>1
  <2>3. EndsAt(u, n + 1, a)
    BY <1>1, <1>2, <2>2, EndsAppend
  <2>4. n - r \in 0..Len(t)
    <3> HIDE DEF r
    <3>1. QED
      BY <1>1, <2>1
  <2>5. EndsAt(u, n - r, b.prevWord)
    <3> HIDE DEF r
    <3>1. QED
      BY <1>1, <1>2, <2>2, <2>4, EndsInLonger
  <2>6. EndsAt(u, n + 1, <<>>)
    BY <1>1, EndsEmpty
  <2> HIDE DEF u, n, r, a
  <2>7. c.keys = <<>> /\ c.prevWord = b.prevWord /\ c.boundaryRun = a
    BY <1>6 DEF Holds, a
  <2>8. /\ Len(u) = n + 1 /\ Len(u) - Len(c.keys) = n + 1
        /\ Len(u) - Len(c.keys) - Len(c.boundaryRun) = n - r
    <3>1. Len(c.keys) = 0 /\ Len(c.boundaryRun) = r + 1
      BY <2>1, <2>7
    <3>2. n + 1 - 0 = n + 1 /\ n + 1 - (r + 1) = n - r
      BY <1>1
    <3>3. QED
      BY <1>2, <3>1, <3>2
  <2>9. QED
    BY <2>3, <2>5, <2>6, <2>7, <2>8 DEF Tracks
<1>7. ASSUME b.keys = <<>>, b.boundaryRun # <<>>,
             Holds(c, <<>>, <<>>, Append(Tail(b.boundaryRun), s))
      PROVE  Tracks(c, u)
  <2> DEFINE d == Tail(b.boundaryRun)
             a == Append(d, s)
  <2>1. d \in Seq(Separator) /\ n - m = n
    BY <1>1, <1>7
  <2>2. EndsAt(t, n, d)
    BY <1>1, <1>3, <1>7, <2>1, EndsTail
  <2> HIDE DEF d
  <2>3. EndsAt(u, n + 1, a)
    BY <1>1, <1>2, <2>1, <2>2, EndsAppend
  <2>4. Len(a) \in Nat /\ Len(a) <= n + 1
    BY <2>1, <2>3 DEF EndsAt
  <2> HIDE DEF a, u, n
  <2>5. /\ n + 1 - 0 = n + 1 /\ n + 1 \in Nat /\ n + 1 - Len(a) \in Nat
    BY <1>1, <2>4
  <2>6. EndsAt(u, n + 1, <<>>) /\ EndsAt(u, n + 1 - Len(a), <<>>)
    BY <2>5, EndsEmpty
  <2>7. c.keys = <<>> /\ c.prevWord = <<>> /\ c.boundaryRun = a
    BY <1>7 DEF Holds, a, d
  <2>8. QED
    BY <1>2, <2>3, <2>5, <2>6, <2>7 DEF Tracks
<1>8. ASSUME b.keys # <<>>, Holds(c, <<>>, b.keys, <<s>>)
      PROVE  Tracks(c, u)
  <2>1. EndsAt(u, n + 1, <<>>)
    BY <1>1, EndsEmpty
  <2>2. EndsAt(u, n, b.keys)
    BY <1>1, <1>2, <1>3, EndsInLonger
  <2>3. EndsAt(u, n + 1, <<s>>)
    <3>1. <<>> \in Seq(Separator) /\ Append(<<>>, s) = <<s>>
      BY EmptySeqs
    <3>2. EndsAt(t, Len(t), <<>>)
      BY <1>1, EndsEmpty
    <3>3. EndsAt(u, n + 1, Append(<<>>, s))
      BY <1>2, <3>1, <3>2, EndsAppend
    <3>4. QED
      BY <3>1, <3>3
  <2> HIDE DEF u, n
  <2>4. n + 1 - 0 = n + 1 /\ n + 1 - 1 = n /\ Len(<<s>>) = 1
    BY <1>1
  <2>5. QED
    BY <1>2, <1>8, <2>1, <2>2, <2>3, <2>4 DEF Tracks, Holds
<1>9. Tracks(c, u)
  BY <1>4, <1>5, <1>6, <1>7, <1>8
<1>10. QED
  BY <1>2, <1>9 DEF c

LEMMA TracksBackspace ==
  ASSUME NEW b \in Buffer, NEW t \in Seq(Char), Tracks(b, t),
         b.prevWord # <<>> => b.boundaryRun # <<>>
  PROVE  /\ RubOut(t) \in Seq(Char)
         /\ Tracks(FeedBackspace(b), RubOut(t))
         /\ b.keys # <<>> /\ StartsWord(t, Len(b.keys))
              => StartsWord(RubOut(t), Len(FeedBackspace(b).keys))
<1> DEFINE c == FeedBackspace(b)
           u == RubOut(t)
           n == Len(t)
           m == Len(b.keys)
           r == Len(b.boundaryRun)
           p == Len(b.prevWord)
<1>1. /\ b.keys \in Seq(Letter) /\ b.prevWord \in Seq(Letter)
      /\ b.boundaryRun \in Seq(Separator)
      /\ n \in Nat /\ m \in Nat /\ r \in Nat /\ p \in Nat
      /\ m <= n /\ r <= n - m /\ p <= n - m - r
  BY Lengths
<1>2. /\ EndsAt(t, n, b.keys) /\ EndsAt(t, n - m, b.boundaryRun)
      /\ EndsAt(t, n - m - r, b.prevWord)
  BY DEF Tracks
<1>3. /\ b.keys # <<>> => m # 0
      /\ b.boundaryRun # <<>> => r # 0
      /\ b.keys = <<>> => m = 0
      /\ t = <<>> => n = 0
      /\ t # <<>> => n # 0
  BY <1>1
<1>4. /\ u \in Seq(Char)
      /\ n # 0 => /\ u = Keep(t, n - 1) /\ n - 1 \in 0..Len(t)
                  /\ Len(u) = n - 1 /\ \A i \in 1..(n - 1) : u[i] = t[i]
  <2>1. CASE t = <<>>
    BY <1>3, <2>1 DEF RubOut
  <2>2. CASE t # <<>>
    <3>1. u = Keep(t, n - 1)
      BY <2>2 DEF RubOut
    <3>2. n - 1 \in 0..Len(t)
      BY <1>1, <1>3, <2>2
    <3> HIDE DEF u
    <3>3. u \in Seq(Char) /\ Len(u) = n - 1 /\ \A i \in 1..(n - 1) : u[i] = t[i]
      BY <3>1, <3>2, KeepFields
    <3>4. QED
      BY <3>1, <3>2, <3>3
  <2>3. QED
    BY <2>1, <2>2
<1>5. ASSUME b.keys # <<>>
      PROVE  /\ Tracks(c, u)
             /\ StartsWord(t, m) => StartsWord(u, Len(c.keys))
  <2>1. /\ c.keys = SubSeq(b.keys, 1, m - 1)
        /\ c.prevWord = b.prevWord /\ c.boundaryRun = b.boundaryRun
    BY <1>5, PopKeyFields DEF Holds
  <2>2. EndsAt(t, n - 1, c.keys)
    BY <1>1, <1>2, <1>5, <2>1, EndsPop
  <2>3. Len(c.keys) = m - 1 /\ c.keys \in Seq(Letter)
    <3>1. c.keys = Keep(b.keys, m - 1) /\ m - 1 \in 0..Len(b.keys)
      BY <1>1, <1>3, <1>5, <2>1 DEF Keep
    <3> HIDE DEF c
    <3>2. QED
      BY <1>1, <3>1, KeepFields, ZenonT(30)
  <2> HIDE DEF c, u, n, m, r
  <2>4. /\ n # 0 /\ n - 1 \in 0..(n - 1) /\ n - m \in 0..(n - 1)
        /\ n - m - r \in 0..(n - 1)
    BY <1>1, <1>3, <1>5
  <2>5. /\ EndsAt(u, n - 1, c.keys) /\ EndsAt(u, n - m, b.boundaryRun)
        /\ EndsAt(u, n - m - r, b.prevWord)
    BY <1>1, <1>2, <1>4, <2>2, <2>3, <2>4, EndsInShorter
  <2>6. Len(u) = n - 1 /\ Len(u) - Len(c.keys) = n - m
    BY <1>1, <1>4, <2>3, <2>4
  <2>7. Tracks(c, u)
    BY <2>1, <2>5, <2>6 DEF Tracks, r
  <2>8. StartsWord(t, m) => StartsWord(u, Len(c.keys))
    <3>1. CASE m < n
      <4>1. n - m \in 1..(n - 1)
        BY <1>1, <1>3, <1>5, <3>1
      <4>2. QED
        BY <1>4, <2>4, <2>6, <3>1, <4>1 DEF StartsWord, n
    <3>2. CASE ~(m < n)
      BY <1>1, <2>3, <2>6, <3>2 DEF StartsWord
    <3>3. QED
      BY <3>1, <3>2
  <2>9. QED
    BY <2>7, <2>8
<1>6. ASSUME b.keys = <<>>, b.boundaryRun # <<>>
      PROVE  Tracks(c, u)
  <2> DEFINE run == SubSeq(b.boundaryRun, 1, r - 1)
  <2>1. \/ run # <<>> /\ Holds(c, <<>>, b.prevWord, run)
        \/ run = <<>> /\ Holds(c, b.prevWord, <<>>, <<>>)
    BY <1>6, PopSeparatorFields
  <2>2. /\ n - m = n /\ n \in Nat /\ r # 0
    BY <1>1, <1>3, <1>6
  <2>3. EndsAt(t, n, b.boundaryRun) /\ EndsAt(t, n - r, b.prevWord)
    BY <1>2, <2>2
  <2>4. EndsAt(t, n - 1, run)
    BY <1>1, <1>6, <2>2, <2>3, EndsPop
  <2>5. Len(run) = r - 1 /\ run \in Seq(Separator)
    <3>1. run = Keep(b.boundaryRun, r - 1) /\ r - 1 \in 0..Len(b.boundaryRun)
      BY <1>1, <2>2 DEF Keep
    <3> HIDE DEF run
    <3>2. QED
      BY <1>1, <3>1, KeepFields
  <2> HIDE DEF c, u, n, m, r, p, run
  <2>6. /\ n # 0 /\ n - 1 \in 0..(n - 1) /\ n - r \in 0..(n - 1)
        /\ n - 1 \in Nat /\ n - r - p \in Nat
    BY <1>1, <2>2
  <2>7. EndsAt(u, n - 1, run) /\ EndsAt(u, n - r, b.prevWord)
    BY <1>1, <1>4, <2>3, <2>4, <2>5, <2>6, EndsInShorter
  <2>8. EndsAt(u, n - 1, <<>>)
    BY <2>6, EndsEmpty
  <2>9. ASSUME Holds(c, <<>>, b.prevWord, run) PROVE Tracks(c, u)
    <3>1. Len(u) = n - 1 /\ n - 1 - 0 = n - 1 /\ n - 1 - (r - 1) = n - r
      BY <1>1, <1>4, <2>6
    <3>2. QED
      BY <2>5, <2>7, <2>8, <2>9, <3>1 DEF Tracks, Holds
  <2>10. ASSUME run = <<>>, Holds(c, b.prevWord, <<>>, <<>>) PROVE Tracks(c, u)
    <3>1. r = 1
      BY <1>1, <2>5, <2>10
    <3>2. /\ Len(u) = n - 1 /\ n - r = n - 1
          /\ n - 1 - p \in Nat /\ n - 1 - p - 0 = n - 1 - p
      BY <1>1, <1>4, <2>6, <3>1
    <3>3. EndsAt(u, n - 1 - p, <<>>)
      BY <3>2, EndsEmpty
    <3>4. QED
      BY <2>7, <2>10, <3>2, <3>3 DEF Tracks, Holds, p
  <2>11. QED
    BY <2>1, <2>9, <2>10
<1>7. ASSUME b.keys = <<>>, b.boundaryRun = <<>>
      PROVE  Tracks(c, u)
  <2>1. Holds(c, <<>>, <<>>, <<>>)
    BY <1>7, PopUnseenFields
  <2> HIDE DEF c, u
  <2>2. QED
    BY <1>4, <2>1, TracksBlank
<1>8. Tracks(c, u)
  BY <1>5, <1>6, <1>7
<1>9. QED
  BY <1>4, <1>5, <1>8

-----------------------------------------------------------------------------
(* The buffer behind the text, one call at a time. *)

\* The text the buffer is behind: trusted, it describes it; tainted, it will
\* from the next separator on.
Described(b, t) ==
  /\ ~b.poisoned => Tracks(b, t)
  /\ b.poisoned => b.prevWord # <<>> \/ b.boundaryRun = <<>>
  /\ b.prevWord # <<>> => b.boundaryRun # <<>>
  /\ b.prevLead # NoKey => b.prevWord # <<>>

Blank(b) == Holds(b, <<>>, <<>>, <<>>)

LEMMA DescribedBlank ==
  ASSUME NEW b, Blank(b), b.prevLead = NoKey, NEW t \in Seq(Char)
  PROVE  Described(b, t)
<1>1. Tracks(b, t)
  BY TracksBlank DEF Blank
<1>2. QED
  BY <1>1 DEF Blank, Holds, Described

LEMMA DescribedLetter ==
  ASSUME NEW b \in Buffer, NEW t \in Seq(Char), Described(b, t), NEW k \in Letter
  PROVE  FeedWord(b, k) \in Buffer /\ Described(FeedWord(b, k), Append(t, k))
<1> DEFINE f == FeedWord(b, k)
<1>1. /\ f \in Buffer /\ f.poisoned = b.poisoned /\ f.prevLead = b.prevLead
      /\ f.boundaryRun = b.boundaryRun
      /\ f.prevWord = IF b.keys = <<>> /\ b.boundaryRun = <<>> THEN <<>> ELSE b.prevWord
  BY FeedWordFields DEF Holds
<1>2. ~b.poisoned => Tracks(f, Append(t, k))
  BY TracksLetter DEF Described
<1> HIDE DEF f
<1>3. b.boundaryRun = <<>> => b.prevWord = <<>>
  BY DEF Described
<1>4. f.prevWord = b.prevWord
  BY <1>1, <1>3
<1>5. QED
  BY <1>1, <1>2, <1>4 DEF Described, f

\* A tainted word is never completed, and the separator is all that is left.
LEMMA TaintedBoundary ==
  ASSUME NEW b \in Buffer, b.poisoned, NEW s \in Separator,
         b.prevWord # <<>> \/ b.boundaryRun = <<>>
  PROVE  LET f == FeedBoundary(b, s)
         IN  \/ Holds(f, <<>>, <<>>, <<>>)
             \/ Holds(f, <<>>, <<>>, <<s>>)
<1> DEFINE f == FeedBoundary(b, s)
           r == Resync(b, s)
<1>1. /\ f \in Buffer /\ Tainted(b) /\ r \in Buffer /\ r.keys = b.keys
      /\ r.prevWord = b.prevWord /\ r.boundaryRun = b.boundaryRun
  BY FeedBoundaryFields, ResyncFields DEF Holds, Tainted
<1>2. CASE b.keys # <<>>
  <2> DEFINE c == [r EXCEPT !.keys = <<>>, !.prevWord = b.keys,
                            !.prevClean = b.wordClean,
                            !.prevLead = b.lead, !.boundaryRun = <<s>>]
  <2>1. f = ForgetCompleted(c)
    BY <1>1, <1>2 DEF FeedBoundary, CompleteWord
  <2>2. c \in Buffer /\ c.keys = <<>>
    <3>1. b.keys \in Seq(Letter) /\ <<s>> \in Seq(Separator) /\ b.wordClean \in BOOLEAN
          /\ b.lead \in Separator \cup {NoKey} /\ <<>> \in Seq(Letter)
      BY DEF Buffer
    <3>2. QED
      BY <1>1, <3>1 DEF Buffer
  <2>3. QED
    BY <2>1, <2>2, ForgetFields
<1>3. CASE b.keys = <<>> /\ b.prevWord # <<>>
  <2>1. f = ForgetCompleted(r)
    BY <1>1, <1>3 DEF FeedBoundary, ExtendRun
  <2>2. QED
    BY <1>1, <1>3, <2>1, ForgetFields
<1>4. CASE b.keys = <<>> /\ b.prevWord = <<>>
  <2>1. b.boundaryRun = <<>> /\ 0 < MaxRun
    BY <1>4, BufferAssumption
  <2>2. f = [r EXCEPT !.boundaryRun = Append(b.boundaryRun, s)]
    BY <1>1, <1>4, <2>1 DEF FeedBoundary, ExtendRun
  <2>3. Append(b.boundaryRun, s) = <<s>>
    BY <2>1
  <2>4. f.keys = <<>> /\ f.prevWord = <<>> /\ f.boundaryRun = <<s>>
    BY <1>1, <1>4, <2>2, <2>3 DEF Buffer
  <2>5. QED
    BY <1>1, <2>4 DEF Holds
<1>5. QED
  BY <1>2, <1>3, <1>4

LEMMA TracksOne ==
  ASSUME NEW b, NEW t \in Seq(Char), NEW s \in Separator, Holds(b, <<>>, <<>>, <<s>>)
  PROVE  Tracks(b, Append(t, s))
<1> DEFINE u == Append(t, s)
           n == Len(u)
<1>1. n = Len(t) + 1 /\ Len(t) \in Nat /\ n \in Nat /\ u[n] = s
  BY DEF Char
<1> HIDE DEF u, n
<1>2. EndsAt(u, n, <<s>>)
  BY <1>1 DEF EndsAt
<1>3. EndsAt(u, n, <<>>) /\ EndsAt(u, n - 1, <<>>)
  BY <1>1, EndsEmpty
<1>4. n - 0 = n /\ n - 0 - 1 = n - 1 /\ Len(<<>>) = 0 /\ Len(<<s>>) = 1
  BY <1>1
<1>5. QED
  BY <1>2, <1>3, <1>4 DEF Holds, Tracks, n, u

LEMMA DescribedSeparator ==
  ASSUME NEW b \in Buffer, NEW t \in Seq(Char), Described(b, t), NEW s \in Separator
  PROVE  /\ FeedBoundary(b, s) \in Buffer /\ ~FeedBoundary(b, s).poisoned
         /\ Described(FeedBoundary(b, s), Append(t, s))
<1> DEFINE f == FeedBoundary(b, s)
<1>1. /\ f \in Buffer /\ f.poisoned = FALSE
      /\ f.prevLead # NoKey => f.prevWord # <<>>
      /\ \/ Holds(f, <<>>, <<>>, <<>>)
         \/ b.keys = <<>> /\ Holds(f, <<>>, b.prevWord, Append(b.boundaryRun, s))
         \/ /\ b.keys = <<>> /\ b.boundaryRun # <<>>
            /\ Holds(f, <<>>, <<>>, Append(Tail(b.boundaryRun), s))
         \/ b.keys # <<>> /\ Holds(f, <<>>, b.keys, <<s>>)
  BY FeedBoundaryFields DEF Holds, Described
<1>2. f.prevWord # <<>> => f.boundaryRun # <<>>
  <2>1. \A r \in Seq(Separator) : Append(r, s) # <<>>
    OBVIOUS
  <2>2. b.boundaryRun \in Seq(Separator)
    BY DEF Buffer
  <2> HIDE DEF f
  <2>3. f.prevWord = <<>> \/ f.boundaryRun = Append(b.boundaryRun, s)
        \/ f.boundaryRun = <<s>>
    BY <1>1 DEF Holds
  <2>4. <<s>> # <<>> /\ Append(b.boundaryRun, s) # <<>>
    BY <2>1, <2>2
  <2>5. QED
    BY <2>3, <2>4
<1>3. CASE ~b.poisoned
  <2>1. Tracks(f, Append(t, s))
    BY <1>3, TracksSeparator DEF Described
  <2>2. QED
    BY <1>1, <1>2, <2>1 DEF Described
<1>4. CASE b.poisoned
  <2>1. Append(t, s) \in Seq(Char)
    BY DEF Char
  <2>2. Holds(f, <<>>, <<>>, <<>>) \/ Holds(f, <<>>, <<>>, <<s>>)
    BY <1>4, TaintedBoundary DEF Described
  <2>3. Tracks(f, Append(t, s))
    BY <2>1, <2>2, TracksBlank, TracksOne
  <2>4. QED
    BY <1>1, <1>2, <2>3 DEF Described
<1>5. QED
  BY <1>3, <1>4

LEMMA DescribedBackspace ==
  ASSUME NEW b \in Buffer, NEW t \in Seq(Char), Described(b, t)
  PROVE  /\ FeedBackspace(b) \in Buffer /\ Described(FeedBackspace(b), RubOut(t))
         /\ ~b.poisoned => ~FeedBackspace(b).poisoned
         /\ b.keys = <<>> /\ b.boundaryRun = <<>> => ~FeedBackspace(b).poisoned
<1> DEFINE f == FeedBackspace(b)
<1>1. ~b.poisoned => Tracks(f, RubOut(t))
  BY TracksBackspace DEF Described
<1>2. CASE b.keys # <<>>
  <2>1. f \in Buffer /\ f.prevWord = b.prevWord /\ f.boundaryRun = b.boundaryRun
        /\ f.prevLead = b.prevLead /\ f.poisoned = b.poisoned
    BY <1>2, PopKeyFields DEF Holds, SameTrust
  <2>2. QED
    BY <1>1, <1>2, <2>1 DEF Described
<1>3. CASE b.keys = <<>> /\ b.boundaryRun # <<>>
  <2>1. /\ f \in Buffer /\ f.poisoned = b.poisoned
        /\ \/ /\ f.prevWord = b.prevWord /\ f.boundaryRun # <<>>
              /\ f.prevLead = b.prevLead
           \/ f.prevWord = <<>> /\ f.boundaryRun = <<>> /\ f.prevLead = NoKey
    BY <1>3, PopSeparatorFields DEF Holds
  <2>2. QED
    BY <1>1, <1>3, <2>1 DEF Described
<1>4. CASE b.keys = <<>> /\ b.boundaryRun = <<>>
  <2>1. /\ Holds(f, <<>>, b.prevWord, <<>>) /\ f.prevLead = b.prevLead
        /\ f.poisoned = FALSE
    BY <1>4, PopUnseenFields
  <2>2. b.prevWord = <<>> /\ b.prevLead = NoKey
    BY <1>4 DEF Described
  <2>3. RubOut(t) \in Seq(Char)
    BY DEF RubOut, Keep
  <2>4. Described(f, RubOut(t)) /\ f \in Buffer
    BY <2>1, <2>2, <2>3, DescribedBlank DEF Blank, Holds
  <2>5. QED
    BY <2>1, <2>4
<1>5. QED
  BY <1>2, <1>3, <1>4

LEMMA DescribedHeld ==
  ASSUME NEW b \in Buffer, NEW t, Described(b, t), NEW u \in Seq(Char)
  PROVE  FeedHeldBackspace(b) \in Buffer /\ Described(FeedHeldBackspace(b), u)
<1> DEFINE f == FeedHeldBackspace(b)
<1>1. CASE b.keys # <<>> \/ b.boundaryRun # <<>>
  <2>1. Holds(f, <<>>, <<>>, <<>>) /\ f.prevLead = NoKey
    BY <1>1, HeldBackspaceFields
  <2>2. QED
    BY <2>1, DescribedBlank DEF Blank, Holds
<1>2. CASE b.keys = <<>> /\ b.boundaryRun = <<>>
  <2>1. Holds(f, b.keys, b.prevWord, b.boundaryRun) /\ f.prevLead = b.prevLead
    BY <1>2, HeldBackspaceFields
  <2>2. b.prevWord = <<>> /\ b.prevLead = NoKey
    BY <1>2 DEF Described
  <2>3. QED
    BY <1>2, <2>1, <2>2, DescribedBlank DEF Blank, Holds
<1>3. QED
  BY <1>1, <1>2

LEMMA DescribedForgotten ==
  ASSUME NEW b \in Buffer, NEW t \in Seq(Char), Described(b, t)
  PROVE  /\ ForgetCompleted(b) \in Buffer /\ Described(ForgetCompleted(b), t)
         /\ ForgetCompleted(b).poisoned = b.poisoned
<1> DEFINE f == ForgetCompleted(b)
<1>1. Holds(f, b.keys, <<>>, <<>>) /\ f.prevLead = NoKey /\ f.poisoned = b.poisoned
  BY ForgetFields DEF SameTrust
<1>2. ~b.poisoned => Tracks(f, t)
  BY <1>1, TracksForgotten DEF Described
<1>3. QED
  BY <1>1, <1>2 DEF Described, Holds

\* What empties the buffer describes any text.
LEMMA DescribedEmptied ==
  ASSUME NEW b \in Buffer, NEW t \in Seq(Char)
  PROVE  /\ \A f \in {FreshBuffer, Abandon(b), FeedEndAndDiscard(b),
                      MarkContextUnclean(Abandon(b))} :
              Blank(f) /\ f \in Buffer /\ Described(f, t)
<1>1. Blank(FreshBuffer) /\ FreshBuffer.prevLead = NoKey
  BY FreshFields DEF Blank
<1>2. Blank(Abandon(b)) /\ Abandon(b).prevLead = NoKey
  BY AbandonFields DEF Blank
<1>3. Blank(FeedEndAndDiscard(b)) /\ FeedEndAndDiscard(b).prevLead = NoKey
  BY EndAndDiscardFields DEF Blank
<1>4. LET u == MarkContextUnclean(Abandon(b))
      IN  Blank(u) /\ u.prevLead = NoKey
  BY <1>2, UncleanFields DEF Blank, Holds
<1>5. QED
  BY <1>1, <1>2, <1>3, <1>4, DescribedBlank DEF Blank, Holds

LEMMA DescribedPoisoned ==
  ASSUME NEW b \in Buffer, NEW t, Described(b, t), NEW u,
         b.prevWord # <<>> \/ b.boundaryRun = <<>>
  PROVE  Poison(b) \in Buffer /\ Described(Poison(b), u)
BY PoisonFields DEF Described, Holds

LEMMA ConcatAppend ==
  ASSUME NEW x \in Seq(Char), NEW y \in Seq(Char), NEW k \in Char
  PROVE  x \o Append(y, k) = Append(x \o y, k)
<1> DEFINE n == Len(x)
           m == Len(y)
           z == Append(y, k)
           l == x \o z
           c == x \o y
           r == Append(c, k)
<1>1. n \in Nat /\ m \in Nat
  OBVIOUS
<1>2. /\ z \in Seq(Char) /\ Len(z) = m + 1 /\ z[m + 1] = k
      /\ \A i \in 1..m : z[i] = y[i]
  OBVIOUS
<1>3. /\ c \in Seq(Char) /\ Len(c) = n + m
      /\ \A i \in 1..n + m : c[i] = IF i <= n THEN x[i] ELSE y[i - n]
  BY ConcatProperties
<1> HIDE DEF z, c
<1>4. /\ l \in Seq(Char) /\ Len(l) = n + Len(z)
      /\ \A i \in 1..n + Len(z) : l[i] = IF i <= n THEN x[i] ELSE z[i - n]
  BY <1>2, ConcatProperties
<1>5. /\ r \in Seq(Char) /\ Len(r) = n + m + 1 /\ r[n + m + 1] = k
      /\ \A i \in 1..n + m : r[i] = c[i]
  BY <1>1, <1>3
<1> HIDE DEF n, m, l, r
<1>6. ASSUME NEW i \in 1..n + m + 1 PROVE l[i] = r[i]
  <2>1. i \in 1..n + Len(z)
    BY <1>1, <1>2
  <2>2. CASE i <= n
    <3>1. i \in 1..n + m
      BY <1>1, <2>2
    <3>2. QED
      BY <1>3, <1>4, <1>5, <2>1, <2>2, <3>1
  <2>3. CASE ~(i <= n) /\ i <= n + m
    <3>1. i \in 1..n + m /\ i - n \in 1..m
      BY <1>1, <2>3
    <3>2. QED
      BY <1>2, <1>3, <1>4, <1>5, <2>1, <2>3, <3>1
  <2>4. CASE i = n + m + 1
    <3>1. ~(i <= n) /\ i - n = m + 1
      BY <1>1, <2>4
    <3>2. QED
      BY <1>2, <1>4, <1>5, <2>1, <2>4, <3>1
  <2>5. QED
    BY <1>1, <2>2, <2>3, <2>4
<1>7. Len(l) = n + m + 1
  BY <1>1, <1>2, <1>4
<1>8. l = r
  BY <1>4, <1>5, <1>6, <1>7, SeqEqual
<1>9. QED
  BY <1>8 DEF l, r, z, c
=============================================================================
