--------------------------- MODULE CorrectionProofs ---------------------------
(***************************************************************************)
(* One correction, for any alphabet, word, text in front of it, budget of  *)
(* repairs and number of presses.                                          *)
(*                                                                         *)
(* The engine deletes by counting, so the invariant counts as well: by the *)
(* place of the engine, how many characters of the screen it still owes a  *)
(* deletion (Counted), and what the screen holds once nothing of the       *)
(* user's is under way (Chronicle).  The second half is about the word     *)
(* buffer, which is behind the screen by what is on the channel            *)
(* (Trackable).                                                            *)
(***************************************************************************)
EXTENDS Correction, WordBufferProofs

Cell == [key : Char, layout : {"from", "to"}]

Sent == [key : Key, shown : BOOLEAN]

Early == {"wait", "preflight", "absorb", "verify"}

Late3 == {"settle", "seed", "run"}

Shown == \A i \in DOMAIN wire : wire[i].shown

Unshown == \A i \in DOMAIN wire : ~wire[i].shown

\* What holds of the gate, the layout and the result at each place.
Placed ==
  /\ pc \in Early => ~held /\ Shown
  /\ pc \in {"flush", "release"} => held
  /\ pc \in {"sweep", "probe"} \cup Late3 => ~held
  /\ pc \in {"delete", "replay", "flush", "release", "sweep", "probe",
             "settle", "seed"} => layout = "to"
  /\ pc # "run" => result = "none"
  /\ pc = "replay" => Len(c.out) <= c.emitted

-----------------------------------------------------------------------------
(* The text in front of the word. *)

Front(text) ==
  Len(text) >= Len(Before) /\ \A i \in DOMAIN Before : text[i] = In("from", Before)[i]

\* The characters the engine will delete, or knows it has to.
OwedAt(p, h, l, w) ==
  IF p \in Early THEN Len(Full(l)) + Len(w)
  ELSE IF p = "delete" THEN l.toDelete + (IF h THEN 0 ELSE Len(w))
  ELSE IF p = "replay" /\ ~h THEN l.emitted - Len(l.out) + Len(w)
  ELSE IF p = "probe" THEN l.emitted + l.intruders + Len(w)
  ELSE 0

Owed == OwedAt(pc, held, c, wire)

PlainWire == \A i \in DOMAIN wire : wire[i].key \in Char

Counted ==
  PlainTyping =>
    PlainWire /\ Front(screen) /\ Len(screen) >= Len(Before) + Owed

-----------------------------------------------------------------------------
(* The text a correction gives up on. *)

Untouched ==
  PlainTyping /\ (pc \in Early \/ (result = "false" /\ "emitFailed" \notin slips))
    => Keys(screen) = Before \o c.target \o typed

-----------------------------------------------------------------------------
(* The text a correction believes in. *)

FollowedBy(l) == l.tail \o Optional(l.resume)

Followed == FollowedBy(c)

Outcome(keys) == In("from", Before) \o In("to", c.target \o keys)

Exact ==
  /\ pc \notin Late3 => typed = Followed \o Keys(wire)
  /\ pc \in Early \/ (pc \in {"delete", "replay", "probe"} /\ ~held)
       => Len(screen) = Len(Before) + Owed
  /\ pc = "delete" /\ held /\ Unshown => Len(screen) = Len(Before) + Owed
  /\ pc = "replay" /\ (IF held THEN Unshown ELSE wire = <<>>)
       => screen \o In("to", c.out) = Outcome(Followed)
  /\ pc = "replay" => c.emitted = Len(Full(c))
  /\ pc = "probe" => c.emitted + c.intruders = Len(Full(c))
  /\ pc = "probe" /\ c.intruders = 0 /\ wire = <<>> => screen = Outcome(Followed)
  /\ pc \in {"flush", "release", "sweep"} /\ Unshown => screen = Outcome(Followed)
  /\ pc \in Late3 /\ result # "false" /\ Shown => screen = Outcome(typed)

Chronicle == PlainTyping /\ slips = {} /\ ~c.suspicious => Exact

-----------------------------------------------------------------------------
(* Text and the keys in it. *)

LEMMA KeyTypes ==
  /\ Letter \subseteq Char /\ Separator \subseteq Char /\ Char \subseteq Key
  /\ NoKey \notin Key /\ Backspace \in Key
  /\ \A k \in Separator \cup {NoKey} : Optional(k) \in Seq(Separator)
  /\ \A k \in Char : Optional(k) = <<k>>
  /\ Optional(NoKey) = <<>>
  /\ Seq(Letter) \subseteq Seq(Char) /\ Seq(Separator) \subseteq Seq(Char)
  /\ Seq(Char) \subseteq Seq(Key)
<1>1. /\ Letter \subseteq Char /\ Separator \subseteq Char /\ Char \subseteq Key
      /\ NoKey \notin Key /\ Backspace \in Key
      /\ \A k \in Separator \cup {NoKey} : Optional(k) \in Seq(Separator)
      /\ \A k \in Char : Optional(k) = <<k>>
      /\ Optional(NoKey) = <<>>
  BY CorrectionAssumption DEF Char, Key, Optional
<1>2. /\ Seq(Letter) \subseteq Seq(Char) /\ Seq(Separator) \subseteq Seq(Char)
      /\ Seq(Char) \subseteq Seq(Key)
  BY <1>1, SeqMonotonic
<1>3. QED
  BY <1>1, <1>2

LEMMA Joined ==
  ASSUME NEW S, NEW x \in Seq(S), NEW y \in Seq(S), NEW n, NEW m,
         Len(x) = n, Len(y) = m
  PROVE  /\ x \o y \in Seq(S) /\ Len(x \o y) = n + m
         /\ \A i \in 1..n + m : (x \o y)[i] = IF i <= n THEN x[i] ELSE y[i - n]
BY ConcatProperties

LEMMA InFields ==
  ASSUME NEW lay \in {"from", "to"}, NEW s \in Seq(Char)
  PROVE  /\ In(lay, s) \in Seq(Cell) /\ Len(In(lay, s)) = Len(s)
         /\ \A i \in 1..Len(s) : In(lay, s)[i] = [key |-> s[i], layout |-> lay]
<1>1. /\ DOMAIN s = 1..Len(s) /\ Len(s) \in Nat /\ \A i \in 1..Len(s) : s[i] \in Char
  BY ElementOfSeq
<1>2. In(lay, s) = [i \in 1..Len(s) |-> [key |-> s[i], layout |-> lay]]
  BY <1>1 DEF In
<1>3. \A i \in 1..Len(s) : [key |-> s[i], layout |-> lay] \in Cell
  BY <1>1 DEF Cell
<1>4. QED
  BY <1>1, <1>2, <1>3

LEMMA KeysFields ==
  ASSUME NEW C, NEW K, \A x \in C : x.key \in K, NEW t \in Seq(C)
  PROVE  /\ Keys(t) \in Seq(K) /\ Len(Keys(t)) = Len(t)
         /\ \A i \in 1..Len(t) : Keys(t)[i] = t[i].key
<1>1. /\ DOMAIN t = 1..Len(t) /\ Len(t) \in Nat /\ \A i \in 1..Len(t) : t[i] \in C
  BY ElementOfSeq
<1>2. Keys(t) = [i \in 1..Len(t) |-> t[i].key]
  BY <1>1 DEF Keys
<1>3. QED
  BY <1>1, <1>2

LEMMA InConcat ==
  ASSUME NEW lay \in {"from", "to"}, NEW s \in Seq(Char), NEW t \in Seq(Char)
  PROVE  In(lay, s \o t) = In(lay, s) \o In(lay, t)
<1> DEFINE x == In(lay, s)
           y == In(lay, t)
           z == In(lay, s \o t)
<1>1. /\ s \o t \in Seq(Char) /\ Len(s \o t) = Len(s) + Len(t)
      /\ Len(s) \in Nat /\ Len(t) \in Nat
      /\ \A i \in 1..Len(s) + Len(t) :
           (s \o t)[i] = IF i <= Len(s) THEN s[i] ELSE t[i - Len(s)]
  BY ConcatProperties
<1>2. /\ x \in Seq(Cell) /\ Len(x) = Len(s)
      /\ \A i \in 1..Len(s) : x[i] = [key |-> s[i], layout |-> lay]
  BY InFields
<1>3. /\ y \in Seq(Cell) /\ Len(y) = Len(t)
      /\ \A i \in 1..Len(t) : y[i] = [key |-> t[i], layout |-> lay]
  BY InFields
<1>4. /\ z \in Seq(Cell) /\ Len(z) = Len(s) + Len(t)
      /\ \A i \in 1..Len(s) + Len(t) : z[i] = [key |-> (s \o t)[i], layout |-> lay]
  BY <1>1, InFields
<1> HIDE DEF x, y, z
<1>5. /\ x \o y \in Seq(Cell) /\ Len(x \o y) = Len(s) + Len(t)
      /\ \A i \in 1..Len(s) + Len(t) :
           (x \o y)[i] = IF i <= Len(s) THEN x[i] ELSE y[i - Len(s)]
  <2> DEFINE n == Len(s)
             m == Len(t)
  <2>1. Len(x) = n /\ Len(y) = m
    BY <1>2, <1>3
  <2> HIDE DEF n, m
  <2>2. x \in Seq(Cell) /\ y \in Seq(Cell)
    BY <1>2, <1>3
  <2>3. /\ x \o y \in Seq(Cell) /\ Len(x \o y) = n + m
        /\ \A i \in 1..n + m : (x \o y)[i] = IF i <= n THEN x[i] ELSE y[i - n]
    BY <2>1, <2>2, Joined
  <2>4. QED
    BY <2>3 DEF n, m
<1>6. ASSUME NEW i \in 1..Len(s) + Len(t) PROVE z[i] = (x \o y)[i]
  <2>1. CASE i <= Len(s)
    <3>1. i \in 1..Len(s)
      BY <1>1, <2>1
    <3>2. QED
      BY <1>1, <1>2, <1>4, <1>5, <2>1, <3>1
  <2>2. CASE ~(i <= Len(s))
    <3>1. i - Len(s) \in 1..Len(t)
      BY <1>1, <2>2
    <3>2. QED
      BY <1>1, <1>3, <1>4, <1>5, <2>2, <3>1
  <2>3. QED
    BY <2>1, <2>2
<1>7. z = x \o y
  BY <1>4, <1>5, <1>6, SeqEqual
<1>8. QED
  BY <1>7 DEF x, y, z

LEMMA KeysConcat ==
  ASSUME NEW C, NEW K, \A x \in C : x.key \in K, NEW s \in Seq(C), NEW t \in Seq(C)
  PROVE  Keys(s \o t) = Keys(s) \o Keys(t)
<1> DEFINE x == Keys(s)
           y == Keys(t)
           z == Keys(s \o t)
<1>1. /\ s \o t \in Seq(C) /\ Len(s \o t) = Len(s) + Len(t)
      /\ Len(s) \in Nat /\ Len(t) \in Nat
      /\ \A i \in 1..Len(s) + Len(t) :
           (s \o t)[i] = IF i <= Len(s) THEN s[i] ELSE t[i - Len(s)]
  BY ConcatProperties
<1>2. x \in Seq(K) /\ Len(x) = Len(s) /\ \A i \in 1..Len(s) : x[i] = s[i].key
  BY KeysFields
<1>3. y \in Seq(K) /\ Len(y) = Len(t) /\ \A i \in 1..Len(t) : y[i] = t[i].key
  BY KeysFields
<1>4. /\ z \in Seq(K) /\ Len(z) = Len(s) + Len(t)
      /\ \A i \in 1..Len(s) + Len(t) : z[i] = (s \o t)[i].key
  BY <1>1, KeysFields
<1> HIDE DEF x, y, z
<1>5. /\ x \o y \in Seq(K) /\ Len(x \o y) = Len(s) + Len(t)
      /\ \A i \in 1..Len(s) + Len(t) :
           (x \o y)[i] = IF i <= Len(s) THEN x[i] ELSE y[i - Len(s)]
  <2> DEFINE n == Len(s)
             m == Len(t)
  <2>1. Len(x) = n /\ Len(y) = m
    BY <1>2, <1>3
  <2> HIDE DEF n, m
  <2>2. x \in Seq(K) /\ y \in Seq(K)
    BY <1>2, <1>3
  <2>3. /\ x \o y \in Seq(K) /\ Len(x \o y) = n + m
        /\ \A i \in 1..n + m : (x \o y)[i] = IF i <= n THEN x[i] ELSE y[i - n]
    BY <2>1, <2>2, Joined
  <2>4. QED
    BY <2>3 DEF n, m
<1>6. ASSUME NEW i \in 1..Len(s) + Len(t) PROVE z[i] = (x \o y)[i]
  <2>1. CASE i <= Len(s)
    <3>1. i \in 1..Len(s)
      BY <1>1, <2>1
    <3>2. QED
      BY <1>1, <1>2, <1>4, <1>5, <2>1, <3>1
  <2>2. CASE ~(i <= Len(s))
    <3>1. i - Len(s) \in 1..Len(t)
      BY <1>1, <2>2
    <3>2. QED
      BY <1>1, <1>3, <1>4, <1>5, <2>2, <3>1
  <2>3. QED
    BY <2>1, <2>2
<1>7. z = x \o y
  BY <1>4, <1>5, <1>6, SeqEqual
<1>8. QED
  BY <1>7 DEF x, y, z

LEMMA KeysOfText ==
  ASSUME NEW lay \in {"from", "to"}, NEW s \in Seq(Char)
  PROVE  Keys(In(lay, s)) = s
<1>1. /\ In(lay, s) \in Seq(Cell) /\ Len(In(lay, s)) = Len(s)
      /\ \A i \in 1..Len(s) : In(lay, s)[i] = [key |-> s[i], layout |-> lay]
  BY InFields
<1>2. \A x \in Cell : x.key \in Char
  BY DEF Cell
<1>3. /\ Keys(In(lay, s)) \in Seq(Char) /\ Len(Keys(In(lay, s))) = Len(s)
      /\ \A i \in 1..Len(s) : Keys(In(lay, s))[i] = In(lay, s)[i].key
  BY <1>1, <1>2, KeysFields
<1>4. ASSUME NEW i \in 1..Len(s) PROVE In(lay, s)[i].key = s[i]
  <2>1. In(lay, s)[i] = [key |-> s[i], layout |-> lay]
    BY <1>1
  <2>2. QED
    BY <2>1
<1>5. \A i \in 1..Len(s) : Keys(In(lay, s))[i] = s[i]
  BY <1>1, <1>3, <1>4
<1>6. QED
  BY <1>1, <1>3, <1>5, SeqEqual

-----------------------------------------------------------------------------
(* What the channel gives up. *)

LEMMA DrainStops ==
  ASSUME wire \in Seq(Sent)
  PROVE  \E n \in 0..Len(wire) : /\ \A i \in 1..n : wire[i].key \in Letter
                                 /\ n < Len(wire) => wire[n + 1].key \notin Letter
<1> DEFINE T == {m \in 0..Len(wire) : m < Len(wire) => wire[m + 1].key \notin Letter}
<1>1. Len(wire) \in Nat
  OBVIOUS
<1>2. T \in SUBSET Nat /\ Len(wire) \in T
  BY <1>1
<1>3. PICK n \in T : \A k \in T : n <= k
  BY <1>2, LeastIndex
<1>4. ASSUME NEW i \in 1..n PROVE wire[i].key \in Letter
  <2>1. i - 1 \in 0..Len(wire) /\ i - 1 < n /\ i - 1 < Len(wire) /\ i - 1 + 1 = i
    BY <1>1
  <2>2. i - 1 \notin T
    BY <1>1, <1>3, <2>1
  <2>3. QED
    BY <2>1, <2>2
<1>5. QED
  BY <1>4

\* A drained window: words and the press that ends it are taken off the
\* channel, and nothing stays if nothing was taken.
DrainTypes ==
  /\ Drain.words \in Seq(Letter)
  /\ Drain.resume \in Separator \cup {NoKey}
  /\ Drain.stopper \in {Backspace, NoKey}
  /\ Drain.suspicious \in BOOLEAN
  /\ Drain.presses \in Seq(Sent) /\ Drain.rest \in Seq(Sent)
  /\ wire = Drain.presses \o Drain.rest
  /\ Len(wire) = Len(Drain.presses) + Len(Drain.rest)
  /\ Drain.presses = <<>> => wire = <<>>

\* Of plain typing it forgets nothing, nor of what raises no suspicion.
DrainPlain ==
  /\ ~Drain.suspicious /\ Drain.stopper = NoKey
  /\ Keys(Drain.presses) = Drain.words \o Optional(Drain.resume)

LEMMA DrainFields ==
  ASSUME wire \in Seq(Sent)
  PROVE  DrainTypes /\ (PlainWire \/ ~Drain.suspicious => DrainPlain)
<1> DEFINE n == CHOOSE m \in 0..Len(wire) :
                  /\ \A i \in 1..m : wire[i].key \in Letter
                  /\ m < Len(wire) => wire[m + 1].key \notin Letter
           stop == IF n < Len(wire) THEN wire[n + 1].key ELSE NoKey
           took == IF n < Len(wire) THEN n + 1 ELSE n
           w == SubSeq(wire, 1, n)
           p == SubSeq(wire, 1, took)
           r == SubSeq(wire, took + 1, Len(wire))
<1>1. /\ n \in 0..Len(wire) /\ \A i \in 1..n : wire[i].key \in Letter
      /\ n < Len(wire) => wire[n + 1].key \notin Letter
  BY DrainStops
<1>2. /\ Drain.words = Keys(w)
      /\ Drain.resume = (IF stop \in Separator THEN stop ELSE NoKey)
      /\ Drain.stopper = (IF stop = Backspace THEN stop ELSE NoKey)
      /\ Drain.suspicious = (stop \in {Backspace, Shortcut})
      /\ Drain.presses = p /\ Drain.rest = r
  BY DEF Drain
<1> HIDE DEF n
<1>3. /\ Len(wire) \in Nat /\ n \in Nat /\ n <= Len(wire)
      /\ \A i \in 1..Len(wire) : wire[i] \in Sent /\ wire[i].key \in Key
  <2>1. Len(wire) \in Nat /\ \A i \in 1..Len(wire) : wire[i] \in Sent
    BY ElementOfSeq
  <2>2. QED
    BY <1>1, <2>1 DEF Sent
<1>4. /\ took \in Nat /\ took <= Len(wire) /\ (took = n \/ took = n + 1)
      /\ n < Len(wire) => took = n + 1
      /\ ~(n < Len(wire)) => took = n /\ n = Len(wire)
  BY <1>3
<1>5. /\ w \in Seq(Sent) /\ Len(w) = n /\ \A i \in 1..n : w[i] = wire[i]
  <2>1. \A i \in 1..n : wire[i] \in Sent
    BY <1>3
  <2>2. QED
    BY <1>3, <2>1, SubSeqProperties
<1> HIDE DEF took
<1>6. /\ p \in Seq(Sent) /\ Len(p) = took /\ \A i \in 1..took : p[i] = wire[i]
  <2>1. \A i \in 1..took : wire[i] \in Sent
    BY <1>3, <1>4
  <2>2. QED
    BY <1>3, <1>4, <2>1, SubSeqProperties
<1>7. r \in Seq(Sent) /\ Len(r) = Len(wire) - took
  <2>1. \A i \in took + 1..Len(wire) : wire[i] \in Sent
    BY <1>3, <1>4
  <2>2. took + 1 \in Int /\ Len(wire) \in Int
    BY <1>3, <1>4
  <2>3. QED
    BY <1>3, <1>4, <2>1, <2>2, SubSeqProperties
<1>8. wire = p \o r
  <2>1. 1 \in 1..Len(wire) + 1 /\ took \in 1 - 1..Len(wire) /\ Len(wire) \in took..Len(wire)
    BY <1>3, <1>4
  <2>2. p \o r = SubSeq(wire, 1, Len(wire))
    BY <2>1, ConcatAdjacentSubSeq
  <2>3. QED
    BY <2>2, SubSeqFull
<1>9. /\ Keys(w) \in Seq(Letter) /\ Len(Keys(w)) = n
      /\ \A i \in 1..n : Keys(w)[i] = wire[i].key
  <2> DEFINE C == {x \in Sent : x.key \in Letter}
  <2>1. \A i \in 1..n : w[i] \in C
    BY <1>1, <1>3, <1>5
  <2>2. w \in Seq(C)
    BY <1>3, <1>5, <2>1
  <2>3. \A x \in C : x.key \in Letter
    OBVIOUS
  <2> HIDE DEF C, w
  <2>4. /\ Keys(w) \in Seq(Letter) /\ Len(Keys(w)) = Len(w)
        /\ \A i \in 1..Len(w) : Keys(w)[i] = w[i].key
    BY <2>2, <2>3, KeysFields
  <2>5. \A i \in 1..n : Keys(w)[i] = w[i].key
    BY <1>5, <2>4
  <2>6. QED
    BY <1>5, <2>4, <2>5
<1>10. n < Len(wire) => stop = wire[n + 1].key /\ stop \in Key /\ stop \notin Letter
  <2>1. n < Len(wire) => n + 1 \in 1..Len(wire)
    BY <1>3
  <2>2. QED
    BY <1>1, <1>3, <2>1
<1>11. ~(n < Len(wire)) => stop = NoKey
  OBVIOUS
<1> HIDE DEF stop, w, p, r
<1>12. p = <<>> => wire = <<>>
  <2>1. ASSUME p = <<>> PROVE Len(wire) = 0
    <3>1. took = 0
      BY <1>6, <2>1
    <3>2. QED
      BY <1>3, <1>4, <3>1
  <2>2. QED
    BY <2>1
<1>13. DrainTypes
  <2>1. Len(wire) = Len(p) + Len(r)
    BY <1>3, <1>4, <1>6, <1>7
  <2>2. QED
    BY <1>2, <1>6, <1>7, <1>8, <1>9, <1>12, <2>1 DEF DrainTypes
<1>14. ASSUME PlainWire \/ ~Drain.suspicious PROVE DrainPlain
  <2>1. PlainWire => \A i \in 1..Len(wire) : wire[i].key \in Char
    BY DEF PlainWire
  <2>2. n < Len(wire) => stop \in Separator
    <3>1. n < Len(wire) => n + 1 \in 1..Len(wire)
      BY <1>3
    <3>2. ~Drain.suspicious => stop \notin {Backspace, Shortcut}
      BY <1>2
    <3>3. QED
      BY <1>10, <1>14, <2>1, <3>1, <3>2 DEF Char, Key
  <2>3. stop \notin {Backspace, Shortcut}
    BY <1>11, <2>2, CorrectionAssumption DEF Char
  <2>4. ~Drain.suspicious /\ Drain.stopper = NoKey
    BY <1>2, <2>3
  <2>5. /\ Keys(p) \in Seq(Key) /\ Len(Keys(p)) = took
        /\ \A i \in 1..took : Keys(p)[i] = wire[i].key
    <3>1. \A x \in Sent : x.key \in Key
      BY DEF Sent
    <3>2. /\ Keys(p) \in Seq(Key) /\ Len(Keys(p)) = Len(p)
          /\ \A i \in 1..Len(p) : Keys(p)[i] = p[i].key
      BY <1>6, <3>1, KeysFields
    <3>3. QED
      BY <1>6, <3>2
  <2>6. CASE n < Len(wire)
    <3>1. Optional(Drain.resume) = <<stop>> /\ stop \in Char /\ took = n + 1
      BY <1>2, <1>4, <2>2, <2>6, KeyTypes
    <3>2. <<stop>> \in Seq(Key) /\ Len(<<stop>>) = 1 /\ Keys(w) \in Seq(Key)
      BY <1>9, <3>1, KeyTypes
    <3>3. /\ Keys(w) \o <<stop>> \in Seq(Key) /\ Len(Keys(w) \o <<stop>>) = n + 1
          /\ \A i \in 1..n + 1 :
               (Keys(w) \o <<stop>>)[i] = IF i <= n THEN Keys(w)[i] ELSE <<stop>>[i - n]
      BY <1>9, <3>2, Joined
    <3>4. ASSUME NEW i \in 1..took PROVE Keys(p)[i] = (Keys(w) \o <<stop>>)[i]
      <4>1. CASE i <= n
        <5>1. i \in 1..n /\ i \in 1..n + 1
          BY <1>3, <3>1, <4>1
        <5>2. Keys(p)[i] = wire[i].key /\ Keys(w)[i] = wire[i].key
          BY <1>9, <2>5, <5>1
        <5>3. QED
          BY <3>3, <4>1, <5>1, <5>2
      <4>2. CASE ~(i <= n)
        <5>1. i = n + 1 /\ i - n = 1
          BY <1>3, <3>1, <4>2
        <5>2. Keys(p)[i] = stop
          BY <1>10, <2>5, <2>6, <5>1
        <5>3. QED
          BY <3>1, <3>3, <4>2, <5>1, <5>2
      <4>3. QED
        BY <4>1, <4>2
    <3>5. Keys(p) = Keys(w) \o <<stop>>
      BY <2>5, <3>1, <3>3, <3>4, SeqEqual
    <3>6. QED
      BY <1>2, <2>4, <3>1, <3>5 DEF DrainPlain
  <2>7. CASE ~(n < Len(wire))
    <3>1. Optional(Drain.resume) = <<>> /\ took = n
      BY <1>2, <1>4, <1>11, <2>7, KeyTypes
    <3>2. Keys(w) \in Seq(Key)
      BY <1>9, KeyTypes
    <3>3. \A i \in 1..took : Keys(p)[i] = Keys(w)[i]
      BY <1>9, <2>5, <3>1
    <3>4. Keys(p) = Keys(w)
      BY <1>9, <2>5, <3>1, <3>2, <3>3, SeqEqual
    <3>5. Keys(w) \o <<>> = Keys(w)
      BY <3>2, ConcatEmptySeq
    <3>6. QED
      BY <1>2, <2>4, <3>1, <3>4, <3>5 DEF DrainPlain
  <2>8. QED
    BY <2>6, <2>7
<1>15. QED
  BY <1>13, <1>14

-----------------------------------------------------------------------------
(***************************************************************************)
(* Types.  SeedBuffer is a recursive function: that there is one, and that *)
(* its values are buffers, follows from the least index where it fails.    *)
(***************************************************************************)
LEMMA SeededTo ==
  ASSUME NEW b, NEW tail, NEW n \in Nat, NEW m \in 0..n
  PROVE  \E f : f = [i \in 0..m |-> IF i = 0 THEN b ELSE FeedWord(f[i - 1], tail[i])]
<1> DEFINE Built(k) ==
             \E f : f = [i \in 0..k |-> IF i = 0 THEN b ELSE FeedWord(f[i - 1], tail[i])]
           T == {k \in 0..n : ~Built(k)}
<1>1. CASE T = {}
  BY <1>1
<1>2. CASE T # {}
  <2>1. T \in SUBSET Nat
    OBVIOUS
  <2>2. PICK k \in T : \A l \in T : k <= l
    BY <1>2, <2>1, LeastIndex
  <2>3. k # 0
    <3> DEFINE f == [i \in 0..0 |-> b]
    <3>1. \A i \in 0..0 : i = 0
      OBVIOUS
    <3>2. f = [i \in 0..0 |-> IF i = 0 THEN b ELSE FeedWord(f[i - 1], tail[i])]
      BY <3>1
    <3>3. Built(0)
      BY <3>2
    <3>4. QED
      BY <2>2, <3>3
  <2>4. k \in Nat /\ k - 1 \in 0..n /\ ~(k <= k - 1)
    BY <2>2, <2>3
  <2>5. Built(k - 1)
    BY <2>2, <2>4
  <2>6. PICK f : f = [i \in 0..k - 1 |->
                        IF i = 0 THEN b ELSE FeedWord(f[i - 1], tail[i])]
    BY <2>5
  <2> DEFINE g == [i \in 0..k |-> IF i < k THEN f[i] ELSE FeedWord(f[k - 1], tail[k])]
  <2>7. ASSUME NEW i \in 0..k
        PROVE  g[i] = IF i = 0 THEN b ELSE FeedWord(g[i - 1], tail[i])
    <3>1. CASE i = 0
      <4>1. 0 < k /\ 0 \in 0..k - 1
        BY <2>3, <2>4
      <4>2. f[0] = b
        BY <2>6, <4>1
      <4>3. QED
        BY <3>1, <4>1, <4>2
    <3>2. CASE i # 0 /\ i < k
      <4>1. i - 1 \in 0..k /\ i - 1 < k /\ i \in 0..k - 1
        BY <2>4, <3>2
      <4>2. f[i] = FeedWord(f[i - 1], tail[i])
        BY <2>6, <3>2, <4>1
      <4>3. g[i - 1] = f[i - 1] /\ g[i] = f[i]
        BY <3>2, <4>1
      <4>4. QED
        BY <3>2, <4>2, <4>3
    <3>3. CASE i = k
      <4>1. k - 1 \in 0..k /\ k - 1 < k /\ ~(k < k)
        BY <2>3, <2>4
      <4>2. g[k - 1] = f[k - 1] /\ g[k] = FeedWord(f[k - 1], tail[k])
        BY <3>3, <4>1
      <4>3. QED
        BY <2>3, <3>3, <4>2
    <3>4. QED
      BY <2>4, <3>1, <3>2, <3>3
  <2>8. g = [i \in 0..k |-> g[i]]
    OBVIOUS
  <2> HIDE DEF g
  <2>9. g = [i \in 0..k |-> IF i = 0 THEN b ELSE FeedWord(g[i - 1], tail[i])]
    BY <2>7, <2>8
  <2>10. Built(k)
    BY <2>9
  <2>11. QED
    BY <2>2, <2>10
<1>3. QED
  BY <1>1, <1>2

LEMMA SeedTypes ==
  ASSUME NEW b \in Buffer, NEW tail \in Seq(Letter)
  PROVE  SeedBuffer(b, tail) \in Buffer
<1> DEFINE n == Len(tail)
           fed == CHOOSE f : f = [i \in 0..n |->
                                    IF i = 0 THEN b ELSE FeedWord(f[i - 1], tail[i])]
           T == {m \in 0..n : fed[m] \notin Buffer}
<1>1. n \in Nat /\ n \in 0..n /\ \A i \in 1..n : tail[i] \in Letter
  BY ElementOfSeq
<1>2. SeedBuffer(b, tail) = fed[n]
  BY DEF SeedBuffer
<1> HIDE DEF n
<1>3. fed = [i \in 0..n |-> IF i = 0 THEN b ELSE FeedWord(fed[i - 1], tail[i])]
  BY <1>1, SeededTo, SMTT(30)
<1> HIDE DEF fed
<1>4. CASE T # {}
  <2>1. T \in SUBSET Nat
    BY <1>1
  <2>2. PICK k \in T : \A l \in T : k <= l
    BY <1>4, <2>1, LeastIndex
  <2>3. k # 0
    <3>1. 0 \in 0..n
      BY <1>1
    <3>2. fed[0] = b
      BY <1>3, <3>1
    <3>3. QED
      BY <2>2, <3>2
  <2>4. k \in 1..n /\ k - 1 \in 0..n /\ ~(k <= k - 1)
    BY <1>1, <2>2, <2>3
  <2>5. fed[k - 1] \in Buffer
    BY <2>2, <2>4
  <2>6. fed[k] = FeedWord(fed[k - 1], tail[k])
    BY <1>3, <2>2, <2>3
  <2>7. FeedWord(fed[k - 1], tail[k]) \in Buffer
    BY <1>1, <2>4, <2>5, FeedWordFields DEF Holds
  <2>8. QED
    BY <2>2, <2>6, <2>7
<1>5. CASE T = {}
  BY <1>1, <1>2, <1>5
<1>6. QED
  BY <1>4, <1>5

LEMMA FedTypes ==
  ASSUME NEW b \in Buffer
  PROVE  /\ \A s \in Separator : FeedBoundary(b, s) \in Buffer
         /\ \A s \in Separator \cup {NoKey} : FeedOptional(b, s) \in Buffer
         /\ Poison(b) \in Buffer /\ Abandon(b) \in Buffer
         /\ MarkContextUnclean(b) \in Buffer
         /\ \A k \in Letter : FeedWord(b, k) \in Buffer
         /\ FeedBackspace(b) \in Buffer
<1>1. ASSUME NEW s \in Separator PROVE FeedBoundary(b, s) \in Buffer
  BY FeedBoundaryFields DEF Holds
<1>2. /\ Poison(b) \in Buffer /\ Abandon(b) \in Buffer
      /\ MarkContextUnclean(b) \in Buffer
      /\ \A k \in Letter : FeedWord(b, k) \in Buffer
  BY PoisonFields, AbandonFields, UncleanFields, FeedWordFields DEF Holds
<1>3. \A s \in Separator \cup {NoKey} : FeedOptional(b, s) \in Buffer
  BY <1>1 DEF FeedOptional
<1>4. FeedBackspace(b) \in Buffer
  BY PopKeyFields, PopSeparatorFields, PopUnseenFields DEF Holds
<1>5. QED
  BY <1>1, <1>2, <1>3, <1>4

LEMMA RubbedOut ==
  ASSUME NEW S, NEW t \in Seq(S)
  PROVE  /\ RubOut(t) \in Seq(S)
         /\ t # <<>> => /\ Len(RubOut(t)) = Len(t) - 1
                        /\ \A i \in 1..Len(t) - 1 : RubOut(t)[i] = t[i]
<1>1. CASE t = <<>>
  BY <1>1 DEF RubOut
<1>2. CASE t # <<>>
  <2>1. Len(t) \in Nat /\ Len(t) # 0
    BY <1>2
  <2>2. Len(t) - 1 \in 0..Len(t) /\ RubOut(t) = Keep(t, Len(t) - 1)
    BY <1>2, <2>1 DEF RubOut
  <2>3. QED
    BY <1>2, <2>2, KeepFields
<1>3. QED
  BY <1>1, <1>2

LEMMA StruckTypes ==
  ASSUME NEW t \in Seq(Cell), NEW lay \in {"from", "to"}, NEW k \in Key
  PROVE  Struck(t, lay, k) \in Seq(Cell)
<1>1. CASE k \in Char
  <2>1. <<k>> \in Seq(Char)
    BY <1>1
  <2>2. In(lay, <<k>>) \in Seq(Cell)
    BY <2>1, InFields
  <2>3. QED
    BY <1>1, <2>2, ConcatProperties DEF Struck
<1>2. CASE k \notin Char
  BY <1>2, RubbedOut DEF Struck
<1>3. QED
  BY <1>1, <1>2

LEMMA TypeOutTypes ==
  ASSUME NEW t \in Seq(Cell), layout \in {"from", "to"}, DrainTypes
  PROVE  TypeOut(t, Drain) \in Seq(Cell)
<1> DEFINE ks == Drain.words \o Optional(Drain.resume)
<1>1. Drain.words \in Seq(Char) /\ Optional(Drain.resume) \in Seq(Char)
  BY KeyTypes DEF DrainTypes, Char
<1>2. ks \in Seq(Char)
  BY <1>1, ConcatProperties
<1> HIDE DEF ks
<1>3. In(layout, ks) \in Seq(Cell)
  BY <1>2, InFields
<1>4. t \o In(layout, ks) \in Seq(Cell)
  BY <1>3, ConcatProperties
<1>5. TypeOut(t, Drain) = IF Drain.stopper = Backspace
                          THEN RubOut(t \o In(layout, ks)) ELSE t \o In(layout, ks)
  BY DEF TypeOut, ks
<1>6. QED
  BY <1>4, <1>5, RubbedOut

LEMMA TakeTypes ==
  ASSUME NEW l \in Locals, DrainTypes
  PROVE  /\ Take(l, Drain) \in Locals
         /\ Cost(l, Drain) \in Nat
         /\ Full(l) \in Seq(Char) /\ Full(Take(l, Drain)) \in Seq(Char)
<1> DEFINE x == Take(l, Drain)
<1>1. /\ l.target \in Seq(Char) /\ l.tail \in Seq(Letter)
      /\ l.resume \in Separator \cup {NoKey} /\ l.suspicious \in BOOLEAN
      /\ Drain.words \in Seq(Letter) /\ Drain.resume \in Separator \cup {NoKey}
      /\ Drain.suspicious \in BOOLEAN
  BY DEF Locals, DrainTypes
<1>2. l.tail \o Drain.words \in Seq(Letter)
  BY <1>1, ConcatProperties
<1>3. x \in Locals
  <2> DEFINE r == IF Resumable(l, Drain) THEN Drain.resume ELSE l.resume
             b == l.suspicious \/ Drain.suspicious
                    \/ (Drain.resume # NoKey /\ ~Resumable(l, Drain))
             y == l.tail \o Drain.words
  <2>1. x = [l EXCEPT !.tail = y, !.resume = r, !.suspicious = b]
    BY DEF Take, Locals
  <2>2. r \in Separator \cup {NoKey} /\ b \in BOOLEAN /\ y \in Seq(Letter)
    BY <1>1, <1>2
  <2> HIDE DEF r, b, x, y
  <2>3. QED
    BY <2>1, <2>2 DEF Locals
<1>4. Cost(l, Drain) \in Nat
  <2>1. Len(Drain.words) \in Nat
    BY <1>1
  <2>2. /\ Resumable(l, Drain) => Cost(l, Drain) = Len(Drain.words) + 1
        /\ ~Resumable(l, Drain) => Cost(l, Drain) = Len(Drain.words) + 0
    BY DEF Cost
  <2> HIDE DEF Cost
  <2>3. QED
    BY <2>1, <2>2
<1>5. ASSUME NEW y \in Locals PROVE Full(y) \in Seq(Char)
  <2>1. /\ y.target \in Seq(Char) /\ y.tail \in Seq(Char)
        /\ Optional(y.resume) \in Seq(Char)
    <3>1. /\ y.target \in Seq(Char) /\ y.tail \in Seq(Letter)
          /\ y.resume \in Separator \cup {NoKey}
      BY DEF Locals
    <3>2. Optional(y.resume) \in Seq(Separator)
      BY <3>1, KeyTypes
    <3>3. QED
      BY <3>1, <3>2, KeyTypes
  <2>2. y.target \o y.tail \in Seq(Char)
    BY <2>1, ConcatProperties
  <2>3. QED
    BY <2>1, <2>2, ConcatProperties DEF Full
<1>6. QED
  BY <1>3, <1>4, <1>5

LEMMA InitTypes == Init => TypeOK
<1> SUFFICES ASSUME Init PROVE TypeOK
  OBVIOUS
<1>1. Word \in Seq(Letter) /\ Word \in Seq(Char) /\ Before \in Seq(Char) /\ Repairs \in Nat
  BY CorrectionAssumption DEF Char
<1>2. \A t \in Seq(Char) : Locals0(t) \in Locals
  BY <1>1, EmptySeqs DEF Locals0, Locals, Rounds
<1>3. c \in Locals /\ buf \in Buffer
  <2>1. ASSUME NEW s \in Separator, c = Locals0(Append(Word, s)),
               buf = [FreshBuffer EXCEPT !.prevWord = Word, !.lead = s, !.boundaryRun = <<s>>]
        PROVE  c \in Locals /\ buf \in Buffer
    <3>1. Append(Word, s) \in Seq(Char) /\ <<s>> \in Seq(Separator)
      BY <1>1, KeyTypes
    <3>2. FreshBuffer \in Buffer
      BY FreshFields DEF Holds
    <3>3. QED
      BY <1>1, <1>2, <2>1, <3>1, <3>2 DEF Buffer
  <2>2. ASSUME c = Locals0(Word), buf = [FreshBuffer EXCEPT !.keys = Word]
        PROVE  c \in Locals /\ buf \in Buffer
    <3>1. FreshBuffer \in Buffer
      BY FreshFields DEF Holds
    <3>2. QED
      BY <1>1, <1>2, <2>2, <3>1 DEF Buffer
  <2>3. QED
    BY <2>1, <2>2 DEF Init
<1>4. screen \in Seq(Cell)
  <2>1. c.target \in Seq(Char)
    BY <1>3 DEF Locals
  <2>2. Before \o c.target \in Seq(Char)
    BY <1>1, <2>1, ConcatProperties
  <2>3. QED
    BY <2>2, InFields DEF Init
<1>5. /\ wire \in Seq(Sent) /\ typed \in Seq(Key) /\ slips \subseteq Slip
      /\ layout \in {"from", "to"} /\ trigger \in BOOLEAN /\ held \in BOOLEAN
      /\ pc = "wait" /\ result = "none"
  <2>1. <<>> \in Seq(Sent) /\ <<>> \in Seq(Key)
    OBVIOUS
  <2>2. QED
    BY <2>1 DEF Init
<1>6. QED
  BY <1>3, <1>4, <1>5 DEF TypeOK, Cell, Sent

\* What every step may use of the types.
LEMMA Typed ==
  ASSUME TypeOK
  PROVE  /\ c \in Locals /\ buf \in Buffer /\ wire \in Seq(Sent) /\ screen \in Seq(Cell)
         /\ typed \in Seq(Key) /\ layout \in {"from", "to"} /\ slips \in SUBSET Slip
         /\ trigger \in BOOLEAN /\ held \in BOOLEAN /\ result \in {"none", "true", "false"}
         /\ DrainTypes
         /\ Take(c, Drain) \in Locals /\ Cost(c, Drain) \in Nat
         /\ Full(c) \in Seq(Char) /\ Full(Take(c, Drain)) \in Seq(Char)
         /\ c.toDelete \in Nat /\ c.emitted \in Nat /\ c.intruders \in Nat
         /\ c.out \in Seq(Char) /\ c.tail \in Seq(Letter)
         /\ c.resume \in Separator \cup {NoKey} /\ c.target \in Seq(Char)
         /\ c.suspicious \in BOOLEAN
<1>1. /\ c \in Locals /\ buf \in Buffer /\ wire \in Seq(Sent) /\ screen \in Seq(Cell)
      /\ typed \in Seq(Key) /\ layout \in {"from", "to"} /\ slips \in SUBSET Slip
      /\ trigger \in BOOLEAN /\ held \in BOOLEAN /\ result \in {"none", "true", "false"}
  BY DEF TypeOK, Sent, Cell
<1>2. DrainTypes
  BY <1>1, DrainFields
<1>3. /\ c.toDelete \in Nat /\ c.emitted \in Nat /\ c.intruders \in Nat
      /\ c.out \in Seq(Char) /\ c.tail \in Seq(Letter)
      /\ c.resume \in Separator \cup {NoKey} /\ c.target \in Seq(Char)
      /\ c.suspicious \in BOOLEAN
  BY <1>1 DEF Locals
<1>4. QED
  BY <1>1, <1>2, <1>3, TakeTypes

LEMMA ReplayingTypes ==
  ASSUME NEW l \in Locals, Full(l) \in Seq(Char)
  PROVE  Replaying(l) \in Locals
<1> DEFINE f == Full(l)
<1>1. f \in Seq(Char) /\ Len(f) \in Nat /\ 0 \in 0..Rounds - 1
  BY DEF Rounds
<1>2. Replaying(l) = [l EXCEPT !.out = f, !.emitted = Len(f), !.round = 0]
  BY DEF Replaying
<1> HIDE DEF f
<1>3. QED
  BY <1>1, <1>2 DEF Locals

LEMMA PressTypes ==
  ASSUME TypeOK, NEW k \in Key, Press(k)
  PROVE  TypeOK'
<1>1. [key |-> k, shown |-> ~held] \in Sent
  BY DEF Sent, TypeOK
<1>2. wire' \in Seq(Sent) /\ typed' \in Seq(Key)
  BY <1>1, Typed DEF Press
<1>3. screen' \in Seq(Cell)
  BY Typed, StruckTypes DEF Press
<1>4. QED
  BY <1>2, <1>3 DEF Press, TypeOK, Sent, Cell

LEMMA BeforeTypes ==
  ASSUME TypeOK,
         \/ LiftTrigger \/ DesktopPutsBack \/ WaitOver \/ PreflightFails
         \/ SwitchLayout \/ SwitchLost \/ DeletedHeld \/ ReplayDone \/ EmitFails
         \/ Release \/ Idle \/ UNCHANGED vars
  PROVE  TypeOK'
<1>1. CASE \/ LiftTrigger \/ DesktopPutsBack \/ WaitOver \/ PreflightFails
           \/ SwitchLayout \/ SwitchLost \/ EmitFails \/ Release
  BY <1>1 DEF TypeOK, LiftTrigger, DesktopPutsBack, WaitOver, PreflightFails,
              SwitchLayout, SwitchLost, EmitFails, Release, Return, Slip, Untracked
<1>2. CASE DeletedHeld \/ ReplayDone
  <2>1. Full(c) \in Seq(Char) /\ Len(Full(c)) \in Nat /\ c \in Locals
    BY Typed
  <2>2. c' \in Locals
    <3>1. CASE DeletedHeld
      BY <2>1, <3>1, ReplayingTypes DEF DeletedHeld
    <3>2. CASE ReplayDone
      BY <2>1, <3>2 DEF ReplayDone, Locals
    <3>3. QED
      BY <1>2, <3>1, <3>2
  <2>3. QED
    BY <1>2, <2>2 DEF DeletedHeld, ReplayDone, TypeOK
<1>3. CASE Idle \/ UNCHANGED vars
  BY <1>3 DEF TypeOK, Idle, vars
<1>4. QED
  BY <1>1, <1>2, <1>3

LEMMA WaitTypes ==
  ASSUME TypeOK, WaitProbe \/ WaitGivesUp \/ AbsorbAborts
  PROVE  TypeOK'
<1>1. CASE WaitProbe
  <2>1. /\ c.tail \o Drain.words \in Seq(Letter) /\ Drain.rest \in Seq(Sent)
        /\ Drain.resume \in Separator \cup {NoKey} /\ Drain.suspicious \in BOOLEAN
    BY Typed, ConcatProperties DEF DrainTypes
  <2>2. c' \in Locals
    BY <1>1, <2>1, Typed DEF WaitProbe, Locals
  <2>3. QED
    BY <1>1, <2>1, <2>2 DEF WaitProbe, TypeOK, Sent
<1>2. CASE WaitGivesUp \/ AbsorbAborts
  <2>1. SeedBuffer(buf, c.tail) \in Buffer
    BY Typed, SeedTypes
  <2>2. Poison(SeedBuffer(buf, c.tail)) \in Buffer
    BY <2>1, FedTypes
  <2>3. QED
    BY <1>2, <2>2 DEF WaitGivesUp, AbsorbAborts, Return, TypeOK
<1>3. QED
  BY <1>1, <1>2

LEMMA SlipTypes ==
  ASSUME TypeOK
  PROVE  /\ Late(c.resume, Drain) \subseteq Slip /\ Late(c.postResume, Drain) \subseteq Slip
         /\ Raced \subseteq Slip /\ Swallowed(Drain) \subseteq Slip
         /\ Outlived \subseteq Slip /\ {"rounds", "emitFailed"} \subseteq Slip
         /\ Swallowed([presses |-> <<Head(wire)>>]) \subseteq Slip
BY DEF Late, Raced, Swallowed, Outlived, Slip

LEMMA BurstTypes ==
  ASSUME TypeOK, AbsorbProbe \/ StartBurst \/ DeleteOne \/ DeleteProbe \/ ReplayOne
  PROVE  TypeOK'
<1>1. CASE AbsorbProbe
  BY <1>1, Typed, SlipTypes DEF AbsorbProbe, DrainTypes, TypeOK, Sent
<1>2. CASE StartBurst
  <2>1. Len(Full(c)) \in Nat
    BY Typed
  <2>2. c' \in Locals
    BY <1>2, <2>1, Typed DEF StartBurst, Locals
  <2>3. QED
    BY <1>2, <2>2 DEF StartBurst, TypeOK
<1>3. CASE DeleteOne
  <2>1. c.toDelete - 1 \in Nat
    BY <1>3, Typed DEF DeleteOne
  <2>2. c' \in Locals
    BY <1>3, <2>1, Typed DEF DeleteOne, Locals
  <2>3. screen' \in Seq(Cell)
    BY <1>3, Typed, RubbedOut DEF DeleteOne
  <2>4. QED
    BY <1>3, <2>2, <2>3 DEF DeleteOne, TypeOK, Cell
<1>4. CASE DeleteProbe
  <2> DEFINE l == Take(c, Drain)
  <2>1. l \in Locals /\ Full(l) \in Seq(Char) /\ Len(Full(l)) \in Nat
        /\ Cost(c, Drain) \in Nat /\ Drain.rest \in Seq(Sent)
        /\ slips \in SUBSET Slip
        /\ Late(c.resume, Drain) \subseteq Slip /\ "rounds" \in Slip
    BY Typed, SlipTypes, SMTT(30) DEF DrainTypes
  <2>2. CASE Cost(c, Drain) > 0 /\ c.round < Rounds - 1
    <3>1. /\ c' = [l EXCEPT !.toDelete = Cost(c, Drain), !.round = @ + 1]
          /\ pc' = "delete" /\ wire' = Drain.rest /\ l.round = c.round
          /\ slips' \subseteq Slip
      BY <1>4, <2>1, <2>2, Typed DEF DeleteProbe, Take, Locals
    <3>2. l.round + 1 \in 0..Rounds - 1
      BY <2>1, <2>2, <3>1 DEF Locals, Rounds
    <3> HIDE DEF l
    <3>3. c' \in Locals
      BY <2>1, <3>1, <3>2 DEF Locals
    <3>4. QED
      BY <1>4, <2>1, <3>1, <3>3 DEF DeleteProbe, TypeOK, Sent
  <2>3. CASE ~(Cost(c, Drain) > 0 /\ c.round < Rounds - 1)
    <3>1. /\ c' = Replaying(l) /\ pc' = "replay" /\ wire' = Drain.rest
          /\ slips' \subseteq Slip
      BY <1>4, <2>1, <2>3 DEF DeleteProbe
    <3>2. c' \in Locals
      BY <2>1, <3>1, ReplayingTypes
    <3>3. QED
      BY <1>4, <2>1, <3>1, <3>2 DEF DeleteProbe, TypeOK, Sent
  <2>4. QED
    BY <2>2, <2>3
<1>5. CASE ReplayOne
  <2>1. Head(c.out) \in Key /\ Tail(c.out) \in Seq(Char)
    BY <1>5, Typed, HeadTailProperties, KeyTypes DEF ReplayOne
  <2>2. c' \in Locals
    BY <1>5, <2>1, Typed DEF ReplayOne, Locals
  <2>3. screen' \in Seq(Cell)
    BY <1>5, <2>1, Typed, StruckTypes DEF ReplayOne
  <2>4. QED
    BY <1>5, <2>2, <2>3 DEF ReplayOne, TypeOK, Cell
<1>6. QED
  BY <1>1, <1>2, <1>3, <1>4, <1>5

LEMMA FlushTypes ==
  ASSUME TypeOK, FlushProbe \/ Sweep
  PROVE  TypeOK'
<1>1. /\ TypeOut(screen, Drain) \in Seq(Cell) /\ Take(c, Drain) \in Locals
      /\ Drain.rest \in Seq(Sent) /\ screen \in Seq(Cell)
  BY Typed, TypeOutTypes DEF DrainTypes
<1>2. /\ slips \subseteq Slip /\ Late(c.resume, Drain) \subseteq Slip
      /\ Raced \subseteq Slip /\ {"emitFailed"} \subseteq Slip
  BY Typed, SlipTypes
<1>3. screen' \in Seq(Cell) /\ slips' \subseteq Slip /\ c' \in Locals /\ wire' \in Seq(Sent)
  BY <1>1, <1>2 DEF FlushProbe, Sweep
<1>4. pc' \in {"flush", "release", "settle"}
  BY DEF FlushProbe, Sweep
<1>5. QED
  BY <1>3, <1>4 DEF FlushProbe, Sweep, TypeOK, Sent, Cell

LEMMA ProbeTypes ==
  ASSUME TypeOK, IntrusionProbe
  PROVE  TypeOK'
<1> DEFINE t == Take(c, Drain)
           n == t.intruders + Cost(c, Drain)
           l == [Take(c, Drain) EXCEPT !.intruders = @ + Cost(c, Drain)]
<1>1. t \in Locals /\ n \in Nat /\ Drain.rest \in Seq(Sent)
      /\ Late(c.resume, Drain) \subseteq Slip /\ slips \subseteq Slip
  <2>1. t \in Locals /\ Cost(c, Drain) \in Nat
    BY Typed
  <2> HIDE DEF t
  <2>2. t.intruders \in Nat
    BY <2>1 DEF Locals
  <2>3. n \in Nat
    BY <2>1, <2>2
  <2> HIDE DEF n
  <2>4. QED
    BY <2>1, <2>3, Typed, SlipTypes DEF DrainTypes
<1>2. \/ c' = l
      \/ c' = [l EXCEPT !.repairs = l.repairs - 1, !.toDelete = Repair(l)] /\ l.repairs > 0
      \/ c' = [l EXCEPT !.suspicious = TRUE]
  <2> HIDE DEF l
  <2>1. /\ \/ c' = l
           \/ c' = [l EXCEPT !.repairs = @ - 1, !.toDelete = Repair(l)] /\ l.repairs > 0
           \/ c' = [l EXCEPT !.suspicious = TRUE]
    BY DEF IntrusionProbe, l
  <2>2. QED
    BY <2>1
<1>3. l \in Locals
  <2>1. l = [t EXCEPT !.intruders = n]
    OBVIOUS
  <2> HIDE DEF t, n, l
  <2>2. QED
    BY <1>1, <2>1 DEF Locals
<1> HIDE DEF l
<1>4. c' \in Locals
  <2>1. Repair(l) \in Nat /\ l.repairs \in 0..Repairs
    BY <1>3 DEF Repair, Locals
  <2>2. l.repairs > 0 => l.repairs - 1 \in 0..Repairs
    BY <2>1, CorrectionAssumption
  <2> HIDE DEF Repair
  <2>3. QED
    BY <1>2, <1>3, <2>1, <2>2 DEF Locals
<1>5. /\ pc' \in {"settle", "probe", "delete"} /\ wire' \in Seq(Sent) /\ slips' \subseteq Slip
      /\ UNCHANGED <<screen, typed, layout, trigger, held, buf, result>>
  BY <1>1 DEF IntrusionProbe
<1>6. QED
  BY <1>4, <1>5 DEF TypeOK, Sent

LEMMA SettleTypes ==
  ASSUME TypeOK, SettleProbe
  PROVE  TypeOK'
<1> DEFINE again == c.postResume # NoKey \/ Drain.resume \in Submit
           r == IF Drain.resume # NoKey /\ ~again THEN Drain.resume ELSE c.postResume
           w == c.postTail \o Drain.words
           b == c.suspicious \/ Drain.suspicious \/ (Drain.resume # NoKey /\ again)
<1>1. /\ c \in Locals /\ c.postTail \in Seq(Letter) /\ Drain.words \in Seq(Letter)
      /\ c.postResume \in Separator \cup {NoKey} /\ c.suspicious \in BOOLEAN
      /\ Drain.resume \in Separator \cup {NoKey} /\ Drain.suspicious \in BOOLEAN
      /\ Drain.rest \in Seq(Sent)
  BY Typed DEF DrainTypes, Locals
<1>2. r \in Separator \cup {NoKey} /\ b \in BOOLEAN /\ w \in Seq(Letter)
  BY <1>1, ConcatProperties
<1>3. c' = [c EXCEPT !.postTail = w, !.postResume = r, !.suspicious = b]
  BY <1>1 DEF SettleProbe, Locals
<1> HIDE DEF r, w, b
<1>4. c' \in Locals
  BY <1>1, <1>2, <1>3 DEF Locals
<1>5. slips' \subseteq Slip
  BY Typed, SlipTypes DEF SettleProbe
<1>6. /\ pc' \in {"settle", "seed"} /\ wire' \in Seq(Sent)
      /\ UNCHANGED <<screen, typed, layout, trigger, held, buf, result>>
  BY <1>1 DEF SettleProbe
<1>7. QED
  BY <1>4, <1>5, <1>6 DEF TypeOK, Sent

LEMMA SeedStepTypes ==
  ASSUME TypeOK, Seed
  PROVE  TypeOK'
<1> DEFINE b1 == SeedBuffer(buf, c.tail)
           b2 == FeedOptional(b1, c.resume)
           b3 == SeedBuffer(b2, c.postTail)
           b4 == FeedOptional(b3, c.postResume)
<1>1. /\ c.tail \in Seq(Letter) /\ c.postTail \in Seq(Letter) /\ buf \in Buffer
      /\ c.resume \in Separator \cup {NoKey} /\ c.postResume \in Separator \cup {NoKey}
  BY Typed DEF Locals
<1>2. buf' = IF c.suspicious THEN Poison(Abandon(buf)) ELSE b4
  BY DEF Seed
<1>3. b1 \in Buffer
  BY <1>1, SeedTypes
<1> HIDE DEF b1
<1>4. b2 \in Buffer
  BY <1>1, <1>3, FedTypes
<1> HIDE DEF b2
<1>5. b3 \in Buffer
  BY <1>1, <1>4, SeedTypes
<1> HIDE DEF b3
<1>6. b4 \in Buffer
  BY <1>1, <1>5, FedTypes
<1> HIDE DEF b4
<1>7. Abandon(buf) \in Buffer
  BY <1>1, FedTypes
<1>8. buf' \in Buffer
  BY <1>2, <1>6, <1>7, FedTypes
<1>9. QED
  BY <1>8 DEF Seed, Return, TypeOK

LEMMA HandleTypes ==
  ASSUME TypeOK, HandleKey
  PROVE  TypeOK'
<1>1. wire # <<>> /\ wire \in Seq(Sent) /\ slips \subseteq Slip
      /\ Swallowed([presses |-> <<Head(wire)>>]) \subseteq Slip
  BY Typed, SlipTypes DEF HandleKey
<1>2. Tail(wire) \in Seq(Sent)
  BY <1>1
<1>3. buf' \in Buffer
  <2> DEFINE k == Head(wire).key
  <2>1. buf' = CASE k \in Letter    -> FeedWord(buf, k)
                 [] k \in Separator -> FeedBoundary(buf, k)
                 [] k = Backspace   -> FeedBackspace(buf)
                 [] OTHER           -> MarkContextUnclean(Abandon(buf))
    BY DEF HandleKey
  <2> HIDE DEF k
  <2>2. buf \in Buffer
    BY Typed
  <2>3. Abandon(buf) \in Buffer
    BY <2>2, FedTypes
  <2>4. MarkContextUnclean(Abandon(buf)) \in Buffer
    BY <2>3, FedTypes
  <2>5. k \notin Letter \/ k \notin Separator
    BY BufferAssumption
  <2>6. Backspace \notin Letter /\ Backspace \notin Separator
    BY CorrectionAssumption DEF Char
  <2>7. QED
    BY <2>1, <2>2, <2>4, <2>5, <2>6, FedTypes
<1>4. QED
  BY <1>1, <1>2, <1>3 DEF HandleKey, TypeOK, Sent

LEMMA TypesKept == TypeOK /\ [Next]_vars => TypeOK'
<1> SUFFICES ASSUME TypeOK, [Next]_vars PROVE TypeOK'
  OBVIOUS
<1>1. CASE \E k \in Key : Press(k)
  BY <1>1, PressTypes
<1>2. CASE \/ LiftTrigger \/ DesktopPutsBack \/ WaitOver \/ PreflightFails
           \/ SwitchLayout \/ SwitchLost \/ DeletedHeld \/ ReplayDone \/ EmitFails
           \/ Release \/ Idle \/ UNCHANGED vars
  BY <1>2, BeforeTypes
<1>3. CASE WaitProbe \/ WaitGivesUp \/ AbsorbAborts
  BY <1>3, WaitTypes
<1>4. CASE AbsorbProbe \/ StartBurst \/ DeleteOne \/ DeleteProbe \/ ReplayOne
  BY <1>4, BurstTypes
<1>5. CASE FlushProbe \/ Sweep
  BY <1>5, FlushTypes
<1>6. CASE IntrusionProbe
  BY <1>6, ProbeTypes
<1>7. CASE SettleProbe
  BY <1>7, SettleTypes
<1>8. CASE Seed
  BY <1>8, SeedStepTypes
<1>9. CASE HandleKey
  BY <1>9, HandleTypes
<1>10. QED
  BY <1>1, <1>2, <1>3, <1>4, <1>5, <1>6, <1>7, <1>8, <1>9 DEF Next, Engine

-----------------------------------------------------------------------------
(* The gate, the layout and the result. *)

LEMMA TakeFields ==
  ASSUME TypeOK
  PROVE  LET l == Take(c, Drain)
         IN  /\ l.target = c.target /\ l.tail = c.tail \o Drain.words
             /\ l.resume = (IF Resumable(c, Drain) THEN Drain.resume ELSE c.resume)
             /\ l.suspicious = (c.suspicious \/ Drain.suspicious
                                  \/ (Drain.resume # NoKey /\ ~Resumable(c, Drain)))
             /\ l.toDelete = c.toDelete /\ l.out = c.out /\ l.emitted = c.emitted
             /\ l.intruders = c.intruders
             /\ l.postTail = c.postTail /\ l.postResume = c.postResume
BY Typed DEF Take, Locals

LEMMA ReplayingFields ==
  ASSUME NEW l \in Locals
  PROVE  LET r == Replaying(l)
         IN  /\ r.target = l.target /\ r.tail = l.tail /\ r.resume = l.resume
             /\ r.suspicious = l.suspicious
             /\ r.postTail = l.postTail /\ r.postResume = l.postResume
             /\ r.out = Full(l) /\ r.emitted = Len(Full(l)) /\ Full(r) = Full(l)
<1> DEFINE f == Full(l)
           r == Replaying(l)
<1>1. r = [l EXCEPT !.out = f, !.emitted = Len(f), !.round = 0]
  BY DEF Replaying
<1> HIDE DEF f, r
<1>2. /\ r.target = l.target /\ r.tail = l.tail /\ r.resume = l.resume
      /\ r.suspicious = l.suspicious
      /\ r.postTail = l.postTail /\ r.postResume = l.postResume /\ r.out = f /\ r.emitted = Len(f)
  BY <1>1 DEF Locals
<1>3. Full(r) = f
  BY <1>2 DEF Full, f
<1>4. QED
  BY <1>2, <1>3 DEF f, r

\* What is drained, and what stays, was on the channel.
LEMMA FromWire ==
  ASSUME TypeOK
  PROVE  /\ \A i \in DOMAIN Drain.rest : \E j \in DOMAIN wire : Drain.rest[i] = wire[j]
         /\ \A j \in DOMAIN wire : \/ \E i \in DOMAIN Drain.rest : wire[j] = Drain.rest[i]
                                   \/ \E i \in DOMAIN Drain.presses : wire[j] = Drain.presses[i]
<1> DEFINE p == Drain.presses
           r == Drain.rest
           n == Len(p)
           m == Len(r)
<1>1. p \in Seq(Sent) /\ r \in Seq(Sent) /\ wire = p \o r
  BY Typed DEF DrainTypes
<1> HIDE DEF p, r
<1>2. n \in Nat /\ m \in Nat /\ DOMAIN p = 1..n /\ DOMAIN r = 1..m
  BY <1>1
<1> HIDE DEF n, m
<1>3. /\ Len(wire) = n + m /\ DOMAIN wire = 1..n + m
      /\ \A i \in 1..n + m : wire[i] = IF i <= n THEN p[i] ELSE r[i - n]
  <2>1. Len(p) = n /\ Len(r) = m
    BY DEF n, m
  <2>2. /\ wire \in Seq(Sent) /\ Len(wire) = n + m
        /\ \A i \in 1..n + m : wire[i] = IF i <= n THEN p[i] ELSE r[i - n]
    BY <1>1, <2>1, Joined
  <2>3. QED
    BY <2>2
<1>4. ASSUME NEW i \in 1..m PROVE \E j \in 1..n + m : r[i] = wire[j]
  <2>1. \E j \in 1..n + m : ~(j <= n) /\ j - n = i
    BY <1>2
  <2>2. PICK j \in 1..n + m : ~(j <= n) /\ j - n = i
    BY <2>1
  <2>3. wire[j] = r[j - n]
    BY <1>3, <2>2
  <2>4. QED
    BY <2>2, <2>3
<1>5. ASSUME NEW j \in 1..n + m
      PROVE  (\E i \in 1..m : wire[j] = r[i]) \/ (\E i \in 1..n : wire[j] = p[i])
  <2>1. CASE j <= n
    BY <1>2, <1>3, <2>1
  <2>2. CASE ~(j <= n)
    <3>1. j - n \in 1..m
      BY <1>2, <2>2
    <3>2. QED
      BY <1>3, <2>2, <3>1
  <2>3. QED
    BY <2>1, <2>2
<1>6. QED
  BY <1>2, <1>3, <1>4, <1>5 DEF p, r

LEMMA Pressed ==
  ASSUME TypeOK, NEW k \in Key, Press(k)
  PROVE  /\ Len(wire') = Len(wire) + 1
         /\ \A i \in DOMAIN wire : i \in DOMAIN wire' /\ wire'[i] = wire[i]
         /\ Len(wire') \in DOMAIN wire'
         /\ wire'[Len(wire')].key = k /\ wire'[Len(wire')].shown = (~held)
         /\ \A i \in DOMAIN wire' : i \in DOMAIN wire \/ i = Len(wire')
<1> DEFINE x == [key |-> k, shown |-> ~held]
<1>1. wire' = Append(wire, x) /\ wire \in Seq(Sent) /\ x \in Sent
  BY Typed DEF Press, Sent
<1> HIDE DEF x
<1>2. /\ Len(wire') = Len(wire) + 1 /\ Len(wire) \in Nat
      /\ DOMAIN wire' = 1..Len(wire) + 1 /\ DOMAIN wire = 1..Len(wire)
      /\ \A i \in 1..Len(wire) : wire'[i] = wire[i]
      /\ wire'[Len(wire) + 1] = x
  BY <1>1
<1>3. x.key = k /\ x.shown = (~held)
  BY DEF x
<1>4. QED
  BY <1>2, <1>3

LEMMA InitPlaced == Init => Placed
<1> SUFFICES ASSUME Init PROVE Placed
  OBVIOUS
<1>1. wire = <<>> /\ pc = "wait" /\ held = FALSE /\ result = "none"
  BY DEF Init
<1>2. Shown
  BY <1>1 DEF Shown
<1>3. QED
  BY <1>1, <1>2 DEF Placed, Early, Late3

LEMMA PlacedKept ==
  ASSUME TypeOK, Placed, [Next]_vars
  PROVE  Placed'
<1>1. CASE \E k \in Key : Press(k)
  <2>1. PICK k \in Key : Press(k)
    BY <1>1
  <2>2. UNCHANGED <<pc, held, layout, result, c>>
    BY <2>1 DEF Press
  <2>3. ~held /\ Shown => Shown'
    <3>1. ASSUME ~held, Shown, NEW i \in DOMAIN wire' PROVE wire'[i].shown
      <4>1. CASE i \in DOMAIN wire
        BY <2>1, <3>1, <4>1, Pressed DEF Shown
      <4>2. CASE i = Len(wire')
        <5>1. wire'[i].shown = (~held)
          BY <2>1, <4>2, Pressed
        <5>2. QED
          BY <3>1, <5>1
      <4>3. QED
        BY <2>1, <4>1, <4>2, Pressed
    <3>2. QED
      BY <3>1 DEF Shown
  <2>4. QED
    BY <2>2, <2>3 DEF Placed
<1>2. CASE \/ LiftTrigger \/ DesktopPutsBack \/ WaitGivesUp \/ WaitOver \/ PreflightFails
           \/ SwitchLayout \/ AbsorbAborts \/ SwitchLost \/ StartBurst \/ DeleteOne
           \/ EmitFails \/ Release \/ Seed \/ Idle \/ UNCHANGED vars
  <2>1. wire' = wire
    BY <1>2 DEF LiftTrigger, DesktopPutsBack, WaitGivesUp, WaitOver, PreflightFails,
         SwitchLayout, AbsorbAborts, SwitchLost, StartBurst, DeleteOne, EmitFails, Release,
         Seed, Idle, vars
  <2>2. Shown' = Shown
    BY <2>1 DEF Shown
  <2>3. CASE \/ LiftTrigger \/ DesktopPutsBack \/ WaitGivesUp \/ WaitOver \/ PreflightFails
             \/ SwitchLayout \/ AbsorbAborts \/ SwitchLost
    BY <2>2, <2>3 DEF Placed, Early, Late3, LiftTrigger, DesktopPutsBack, WaitGivesUp,
         WaitOver, PreflightFails, SwitchLayout, AbsorbAborts, SwitchLost, Return
  <2>4. CASE StartBurst \/ DeleteOne \/ EmitFails \/ Release \/ Seed
    BY <2>2, <2>4 DEF Placed, Early, Late3, StartBurst, DeleteOne, EmitFails, Release,
         Seed, Return
  <2>5. CASE Idle \/ UNCHANGED vars
    BY <2>2, <2>5 DEF Placed, Idle, vars
  <2>6. QED
    BY <1>2, <2>3, <2>4, <2>5
<1>3. CASE WaitProbe \/ AbsorbProbe
  <2>1. pc \in Early /\ pc' \in {"wait", "absorb", "verify"} /\ wire' = Drain.rest
        /\ UNCHANGED <<held, layout, result>>
    BY <1>3 DEF WaitProbe, AbsorbProbe, Early
  <2>2. Shown'
    BY <2>1, FromWire DEF Placed, Shown
  <2>3. QED
    BY <2>1, <2>2 DEF Placed, Early, Late3
<1>4. CASE DeletedHeld \/ DeleteProbe
  <2>1. pc = "delete" /\ UNCHANGED <<held, layout, result>>
    BY <1>4 DEF DeletedHeld, DeleteProbe
  <2>2. CASE pc' = "delete"
    BY <2>1, <2>2 DEF Placed, Early, Late3
  <2>3. CASE c' = Replaying(c) /\ pc' = "replay"
    <3>1. Len(Full(c)) \in Nat
      BY Typed
    <3>2. Len(c'.out) <= c'.emitted
      BY <2>3, <3>1, Typed, ReplayingFields
    <3>3. QED
      BY <2>1, <2>3, <3>2 DEF Placed, Early, Late3
  <2>4. CASE c' = Replaying(Take(c, Drain)) /\ pc' = "replay"
    <3>1. Len(Full(Take(c, Drain))) \in Nat
      BY Typed
    <3>2. Len(c'.out) <= c'.emitted
      BY <2>4, <3>1, Typed, ReplayingFields
    <3>3. QED
      BY <2>1, <2>4, <3>2 DEF Placed, Early, Late3
  <2>5. QED
    BY <1>4, <2>1, <2>2, <2>3, <2>4 DEF DeletedHeld, DeleteProbe
<1>5. CASE ReplayOne
  <2>1. pc = "replay" /\ UNCHANGED <<pc, held, layout, result>>
        /\ c'.out = Tail(c.out) /\ c'.emitted = c.emitted
    BY <1>5, Typed DEF ReplayOne, Locals
  <2>2. Len(Tail(c.out)) = Len(c.out) - 1 /\ Len(c.out) \in Nat /\ c.emitted \in Nat
    BY <1>5, Typed, HeadTailProperties DEF ReplayOne
  <2>3. Len(c'.out) <= c'.emitted
    BY <2>1, <2>2 DEF Placed
  <2>4. QED
    BY <2>1, <2>3 DEF Placed, Early, Late3
<1>6. CASE ReplayDone \/ FlushProbe \/ Sweep \/ IntrusionProbe \/ SettleProbe \/ HandleKey
  BY <1>6 DEF Placed, Early, Late3, ReplayDone, FlushProbe, Sweep, IntrusionProbe,
       SettleProbe, HandleKey
<1>7. QED
  BY <1>1, <1>2, <1>3, <1>4, <1>5, <1>6 DEF Next, Engine

-----------------------------------------------------------------------------
(* Counting. *)

LEMMA OptionalLength ==
  ASSUME NEW k \in Separator \cup {NoKey}
  PROVE  /\ Optional(k) \in Seq(Char) /\ Len(Optional(k)) \in Nat
         /\ k = NoKey => Len(Optional(k)) = 0
         /\ k # NoKey => Len(Optional(k)) = 1
BY KeyTypes DEF Optional

LEMMA Rejoined ==
  ASSUME NEW S, NEW x \in Seq(S), NEW y \in Seq(S), NEW z \in Seq(S)
  PROVE  x \o (y \o z) = (x \o y) \o z
BY ConcatAssociative, SMTT(30)

LEMMA TripleLength ==
  ASSUME NEW S, NEW x \in Seq(S), NEW y \in Seq(S), NEW z \in Seq(S)
  PROVE  /\ (x \o y) \o z = x \o (y \o z)
         /\ y \o z \in Seq(S) /\ x \o y \in Seq(S) /\ x \o (y \o z) \in Seq(S)
         /\ Len(x) \in Nat /\ Len(y) \in Nat /\ Len(z) \in Nat
         /\ Len(x \o y) = Len(x) + Len(y)
         /\ Len(x \o (y \o z)) = Len(x) + Len(y) + Len(z)
<1>1. y \o z \in Seq(S) /\ x \o y \in Seq(S) /\ Len(y \o z) = Len(y) + Len(z)
      /\ Len(x \o y) = Len(x) + Len(y)
  BY ConcatProperties
<1>2. x \o (y \o z) \in Seq(S) /\ Len(x \o (y \o z)) = Len(x) + Len(y \o z)
  BY <1>1, ConcatProperties
<1>3. Len(x) \in Nat /\ Len(y) \in Nat /\ Len(z) \in Nat
  BY LenProperties
<1>4. QED
  BY <1>1, <1>2, <1>3, ConcatAssociative

LEMMA FullLength ==
  ASSUME NEW l \in Locals
  PROVE  /\ Full(l) = l.target \o (l.tail \o Optional(l.resume))
         /\ l.target \in Seq(Char) /\ l.tail \in Seq(Char) /\ l.tail \in Seq(Letter)
         /\ l.resume \in Separator \cup {NoKey} /\ Optional(l.resume) \in Seq(Char)
         /\ Len(Full(l)) = Len(l.target) + Len(l.tail) + Len(Optional(l.resume))
         /\ Len(l.target) \in Nat /\ Len(l.tail) \in Nat /\ Len(Full(l)) \in Nat
<1> DEFINE x == l.target
           y == l.tail
           z == Optional(l.resume)
<1>1. /\ x \in Seq(Char) /\ y \in Seq(Letter) /\ y \in Seq(Char) /\ z \in Seq(Char)
      /\ l.resume \in Separator \cup {NoKey}
  <2>1. x \in Seq(Char) /\ y \in Seq(Letter) /\ l.resume \in Separator \cup {NoKey}
    BY DEF Locals
  <2>2. QED
    BY <2>1, KeyTypes, OptionalLength
<1>2. Full(l) = (x \o y) \o z
  BY DEF Full
<1> HIDE DEF x, y, z
<1>3. Full(l) = x \o (y \o z)
  BY <1>1, <1>2, TripleLength
<1>4. /\ Len(Full(l)) = Len(x) + Len(y) + Len(z)
      /\ Len(x) \in Nat /\ Len(y) \in Nat /\ Len(z) \in Nat
      /\ Full(l) \in Seq(Char)
  BY <1>1, <1>3, TripleLength
<1>5. Len(Full(l)) \in Nat
  BY <1>4, LenProperties
<1>6. QED
  BY <1>1, <1>3, <1>4, <1>5, Zenon DEF x, y, z

\* What a drained window moves from the channel into the lists: all of it,
\* unless the correction grows suspicious.
LEMMA DrainCounts ==
  ASSUME TypeOK
  PROVE  /\ Len(Full(Take(c, Drain))) = Len(Full(c)) + Cost(c, Drain)
         /\ Len(wire) \in Nat /\ Len(Drain.rest) \in Nat /\ Len(Drain.words) \in Nat
         /\ Cost(c, Drain) \in Nat
         /\ PlainWire => /\ ~Drain.suspicious
                         /\ Len(wire) = Len(Drain.words) + Len(Optional(Drain.resume))
                                          + Len(Drain.rest)
                         /\ Cost(c, Drain) + Len(Drain.rest) <= Len(wire)
                         /\ ~Take(c, Drain).suspicious
                              => Cost(c, Drain) + Len(Drain.rest) = Len(wire)
<1> DEFINE l == Take(c, Drain)
           w == Drain.words
           r == Drain.resume
           e == Cost(c, Drain)
           R == Resumable(c, Drain)
           p == Drain.presses
           t == Drain.rest
<1>1. /\ c \in Locals /\ l \in Locals /\ w \in Seq(Letter) /\ r \in Separator \cup {NoKey}
      /\ t \in Seq(Sent) /\ p \in Seq(Sent) /\ e \in Nat
      /\ Len(wire) = Len(p) + Len(t)
  BY Typed DEF DrainTypes
<1>2. /\ l.target = c.target /\ l.tail = c.tail \o w
      /\ l.resume = (IF R THEN r ELSE c.resume)
      /\ ~l.suspicious => (r = NoKey \/ R)
  BY TakeFields
<1>3. /\ R => e = Len(w) + 1 /\ r # NoKey /\ c.resume = NoKey
      /\ ~R => e = Len(w) + 0
  BY DEF Cost, Resumable
<1>4. PlainWire => ~Drain.suspicious /\ Keys(p) = w \o Optional(r)
  BY Typed, DrainFields DEF DrainPlain
<1> HIDE DEF l, w, r, e, R, p, t
<1>5. /\ Len(w) \in Nat /\ Len(t) \in Nat /\ Len(p) \in Nat /\ w \in Seq(Char)
  BY <1>1, LenProperties, KeyTypes
<1>6. Len(Full(l)) = Len(Full(c)) + e
  <2> DEFINE A == Len(c.target)
             B == Len(c.tail)
             W == Len(w)
             O == Len(Optional(c.resume))
             P == Len(Optional(l.resume))
             X == Len(Full(l))
             Y == Len(Full(c))
  <2>1. /\ X = Len(l.target) + Len(l.tail) + P /\ Y = A + B + O
        /\ A \in Nat /\ B \in Nat /\ c.tail \in Seq(Char)
        /\ c.resume \in Separator \cup {NoKey}
    BY <1>1, FullLength
  <2>2. Len(c.tail \o w) = B + W
    BY <1>5, <2>1, ConcatProperties
  <2>3. X = A + (B + W) + P
    BY <1>2, <2>1, <2>2
  <2>4. W \in Nat /\ e \in Nat /\ (R => e = W + 1) /\ (~R => e = W + 0)
    BY <1>1, <1>3, <1>5
  <2>5. R => P = 1 /\ O = 0
    BY <1>1, <1>2, <1>3, OptionalLength
  <2>6. ~R => P = O /\ O \in Nat
    BY <1>2, <2>1, OptionalLength
  <2> HIDE DEF A, B, W, O, P, X, Y
  <2>7. CASE R
    <3>1. e = W + 1 /\ P = 1 /\ O = 0
      BY <2>4, <2>5, <2>7
    <3>2. X = A + (B + W) + 1 /\ Y = A + B + 0
          /\ A \in Nat /\ B \in Nat /\ W \in Nat
      BY <2>1, <2>3, <2>4, <3>1
    <3>3. X = Y + e
      BY <3>1, <3>2
    <3>4. QED
      BY <3>3, Zenon DEF X, Y
  <2>8. CASE ~R
    <3>1. e = W /\ P = O /\ O \in Nat
      BY <2>4, <2>6, <2>8
    <3>2. X = A + (B + W) + P /\ Y = A + B + O
          /\ A \in Nat /\ B \in Nat /\ W \in Nat
      BY <2>1, <2>3, <2>4, <3>1
    <3>3. X = Y + e
      BY <3>1, <3>2
    <3>4. QED
      BY <3>3, Zenon DEF X, Y
  <2>9. QED
    BY <2>7, <2>8
<1>7. ASSUME PlainWire
      PROVE  Len(p) = Len(w) + Len(Optional(r))
  <2>1. Len(Keys(p)) = Len(p)
    <3>1. \A x \in Sent : x.key \in Key
      BY DEF Sent
    <3>2. QED
      BY <1>1, <3>1, KeysFields
  <2>2. Optional(r) \in Seq(Char)
    BY <1>1, OptionalLength
  <2>3. Len(w \o Optional(r)) = Len(w) + Len(Optional(r))
    BY <1>5, <2>2, ConcatProperties
  <2>4. QED
    BY <1>4, <1>7, <2>1, <2>3
<1>8. Len(wire) \in Nat
  BY <1>1, <1>5
<1>9. ASSUME PlainWire
      PROVE  /\ Len(wire) = Len(w) + Len(Optional(r)) + Len(t)
             /\ e + Len(t) <= Len(wire)
             /\ ~l.suspicious => e + Len(t) = Len(wire)
  <2>1. Len(p) = Len(w) + Len(Optional(r)) /\ Len(Optional(r)) \in Nat
        /\ (r = NoKey => Len(Optional(r)) = 0) /\ (r # NoKey => Len(Optional(r)) = 1)
    BY <1>1, <1>7, <1>9, OptionalLength
  <2>2. Len(wire) = Len(w) + Len(Optional(r)) + Len(t)
    BY <1>1, <1>5, <2>1
  <2>3. CASE R
    <3>1. e = Len(w) + 1 /\ Len(Optional(r)) = 1
      BY <1>3, <2>1, <2>3
    <3>2. QED
      BY <1>5, <2>2, <3>1
  <2>4. CASE ~R
    <3>1. e = Len(w)
      BY <1>3, <1>5, <2>4
    <3>2. ~l.suspicious => Len(Optional(r)) = 0
      BY <1>2, <2>1, <2>4
    <3>3. QED
      BY <1>5, <2>1, <2>2, <3>1, <3>2
  <2>5. QED
    BY <2>3, <2>4
<1>10. QED
  BY <1>1, <1>4, <1>5, <1>6, <1>8, <1>9 DEF l, w, r, e, t

LEMMA WaitCounts ==
  ASSUME TypeOK, WaitProbe, PlainWire
  PROVE  /\ Len(Full(c')) + Len(wire') = Len(Full(c)) + Len(wire)
         /\ Full(c') = Full(c) \o Keys(Drain.presses)
         /\ ~c'.suspicious /\ c' \in Locals
<1> DEFINE w == Drain.words
           r == Drain.resume
           t == Drain.rest
           z == Optional(r)
<1>1. /\ c \in Locals /\ w \in Seq(Letter) /\ w \in Seq(Char) /\ z \in Seq(Char)
      /\ r \in Separator \cup {NoKey} /\ c.resume = NoKey /\ wire' = t
  BY Typed, KeyTypes, OptionalLength DEF DrainTypes, WaitProbe
<1>2. /\ ~Drain.suspicious /\ Keys(Drain.presses) = w \o z
      /\ Len(wire) = Len(w) + Len(z) + Len(t) /\ Len(t) \in Nat
  BY Typed, DrainFields, DrainCounts DEF DrainPlain
<1>3. /\ c' \in Locals /\ c'.target = c.target /\ c'.tail = c.tail \o w /\ c'.resume = r
      /\ ~c'.suspicious
  <2> DEFINE q == c.tail \o w
             b == Drain.suspicious
  <2>1. q \in Seq(Letter) /\ b = FALSE
    BY <1>1, <1>2, Typed, ConcatProperties
  <2>2. c' = [c EXCEPT !.tail = q, !.resume = r, !.suspicious = b]
    BY <1>1 DEF WaitProbe, Locals
  <2> HIDE DEF q, b, r
  <2>3. QED
    BY <1>1, <2>1, <2>2 DEF Locals, q
<1> DEFINE x == c.target
           y == c.tail
<1>4. /\ Full(c') = c'.target \o (c'.tail \o Optional(c'.resume))
      /\ Full(c) = x \o (y \o Optional(c.resume))
      /\ x \in Seq(Char) /\ y \in Seq(Char)
  BY <1>1, <1>3, FullLength
<1>5. Full(c') = x \o ((y \o w) \o z) /\ Full(c) = x \o y
  <2>1. y \o <<>> = y
    BY <1>4, ConcatEmptySeq
  <2>2. QED
    BY <1>1, <1>3, <1>4, <2>1, KeyTypes
<1> HIDE DEF w, z, t, x, y, r
<1>6. Full(c') = (x \o y) \o (w \o z)
  <2>1. (y \o w) \o z = y \o (w \o z) /\ w \o z \in Seq(Char)
    BY <1>1, <1>4, TripleLength, SMTT(30)
  <2>2. x \o (y \o (w \o z)) = (x \o y) \o (w \o z)
    <3> DEFINE q == w \o z
    <3>1. q \in Seq(Char)
      BY <2>1
    <3> HIDE DEF q
    <3>2. (x \o y) \o q = x \o (y \o q)
      BY <1>4, <3>1, Rejoined, SMTT(30)
    <3>3. QED
      BY <3>2 DEF q
  <2>3. QED
    BY <1>5, <2>1, <2>2
<1>7. Len(Full(c')) = Len(Full(c)) + (Len(w) + Len(z)) /\ Len(w) \in Nat /\ Len(z) \in Nat
      /\ Len(Full(c)) \in Nat
  <2>1. x \o y \in Seq(Char) /\ Len(x \o y) \in Nat
    BY <1>4, TripleLength
  <2> DEFINE q == x \o y
  <2> HIDE DEF q
  <2>2. Len(q \o (w \o z)) = Len(q) + Len(w) + Len(z)
        /\ Len(w) \in Nat /\ Len(z) \in Nat
    <3>1. q \in Seq(Char)
      BY <2>1 DEF q
    <3>2. QED
      BY <1>1, <3>1, TripleLength
  <2>3. Full(c') = q \o (w \o z) /\ Full(c) = q /\ Len(q) \in Nat
    BY <1>5, <1>6, <2>1 DEF q
  <2>4. QED
    BY <2>2, <2>3
<1>8. Len(Full(c')) + Len(wire') = Len(Full(c)) + Len(wire)
  BY <1>1, <1>2, <1>7
<1>9. QED
  BY <1>2, <1>3, <1>5, <1>6, <1>8 DEF w, z, r

-----------------------------------------------------------------------------
(* No deletion reaches the text in front. *)

LEMMA OwedCases ==
  ASSUME NEW p, NEW h \in BOOLEAN, NEW l \in Locals, NEW w, Len(w) \in Nat
  PROVE  LET o == OwedAt(p, h, l, w)
         IN  /\ p \in Early => o = Len(Full(l)) + Len(w)
             /\ p = "delete" /\ h => o = l.toDelete
             /\ p = "delete" /\ ~h => o = l.toDelete + Len(w)
             /\ p = "replay" /\ h => o = 0
             /\ p = "replay" /\ ~h => o = l.emitted - Len(l.out) + Len(w)
             /\ p = "probe" => o = l.emitted + l.intruders + Len(w)
             /\ p \in {"flush", "release", "sweep"} \cup Late3 => o = 0
<1>1. l.toDelete \in Nat
  BY DEF Locals
<1>2. CASE p \in Early
  BY <1>2, Zenon DEF OwedAt, Early, Late3
<1>3. CASE p = "delete"
  <2>1. OwedAt(p, h, l, w) = l.toDelete + (IF h THEN 0 ELSE Len(w))
    BY <1>3 DEF OwedAt, Early
  <2>2. (IF h THEN 0 ELSE Len(w)) = 0 \/ (~h /\ (IF h THEN 0 ELSE Len(w)) = Len(w))
    OBVIOUS
  <2>3. h => OwedAt(p, h, l, w) = l.toDelete + 0
    BY <2>1
  <2>4. ~h => OwedAt(p, h, l, w) = l.toDelete + Len(w)
    BY <2>1
  <2>5. QED
    BY <1>1, <1>3, <2>3, <2>4 DEF Early, Late3
<1>4. CASE p \notin Early /\ p # "delete"
  BY <1>4 DEF OwedAt, Late3
<1>5. QED
  BY <1>2, <1>3, <1>4

\* Text grows at the caret and is deleted from it.
LEMMA FrontKept ==
  ASSUME NEW t \in Seq(Cell), Front(t)
  PROVE  /\ Len(t) \in Nat
         /\ \A u \in Seq(Cell) : Front(t \o u) /\ Len(t \o u) = Len(t) + Len(u)
                                   /\ Len(u) \in Nat
         /\ \A k \in Char, lay \in {"from", "to"} :
              Front(Struck(t, lay, k)) /\ Len(Struck(t, lay, k)) = Len(t) + 1
         /\ Len(t) > Len(Before) => Front(RubOut(t)) /\ Len(RubOut(t)) = Len(t) - 1
<1> DEFINE n == Len(t)
           b == Len(Before)
           f == In("from", Before)
<1>1. /\ n \in Nat /\ b \in Nat /\ DOMAIN Before = 1..b /\ n >= b
      /\ \A i \in 1..b : t[i] = f[i]
  BY CorrectionAssumption DEF Front
<1>2. \A u : Front(u) <=> Len(u) >= b /\ \A i \in 1..b : u[i] = f[i]
  BY <1>1 DEF Front
<1> HIDE DEF n, b, f
<1>3. ASSUME NEW u \in Seq(Cell)
      PROVE  Front(t \o u) /\ Len(t \o u) = n + Len(u) /\ Len(u) \in Nat
  <2> DEFINE m == Len(u)
  <2>1. m \in Nat /\ Len(t) = n /\ Len(u) = m
    BY DEF n
  <2> HIDE DEF m
  <2>2. /\ Len(t \o u) = n + m
        /\ \A i \in 1..n + m : (t \o u)[i] = IF i <= n THEN t[i] ELSE u[i - n]
    BY <2>1, Joined
  <2>3. ASSUME NEW i \in 1..b PROVE (t \o u)[i] = f[i]
    <3>1. i \in 1..n + m /\ i <= n
      BY <1>1, <2>1
    <3>2. QED
      BY <1>1, <2>2, <3>1
  <2>4. n + m >= b
    BY <1>1, <2>1
  <2>5. QED
    BY <1>2, <2>1, <2>2, <2>3, <2>4
<1>4. ASSUME NEW k \in Char, NEW lay \in {"from", "to"}
      PROVE  Front(Struck(t, lay, k)) /\ Len(Struck(t, lay, k)) = n + 1
  <2>1. <<k>> \in Seq(Char) /\ Len(<<k>>) = 1
    OBVIOUS
  <2>2. In(lay, <<k>>) \in Seq(Cell) /\ Len(In(lay, <<k>>)) = 1
    BY <2>1, InFields
  <2>3. QED
    BY <1>3, <2>2 DEF Struck
<1>5. ASSUME n > b PROVE Front(RubOut(t)) /\ Len(RubOut(t)) = n - 1
  <2>1. t # <<>>
    BY <1>1, <1>5 DEF n
  <2>2. Len(RubOut(t)) = n - 1 /\ \A i \in 1..n - 1 : RubOut(t)[i] = t[i]
    BY <2>1, RubbedOut DEF n
  <2>3. n - 1 >= b /\ \A i \in 1..b : i \in 1..n - 1
    BY <1>1, <1>5
  <2>4. QED
    BY <1>1, <1>2, <2>2, <2>3
<1>6. QED
  BY <1>1, <1>3, <1>4, <1>5 DEF n, b

LEMMA PlainStrike ==
  ASSUME NEW t \in Seq(Cell), NEW k \in Char, NEW lay \in {"from", "to"}
  PROVE  Len(Struck(t, lay, k)) = Len(t) + 1
<1>1. <<k>> \in Seq(Char) /\ Len(<<k>>) = 1
  OBVIOUS
<1>2. In(lay, <<k>>) \in Seq(Cell) /\ Len(In(lay, <<k>>)) = 1
  BY <1>1, InFields
<1> DEFINE u == In(lay, <<k>>)
<1>3. Struck(t, lay, k) = t \o u
  BY DEF Struck
<1> HIDE DEF u
<1>4. u \in Seq(Cell) /\ Len(u) = 1
  BY <1>2 DEF u
<1>5. Len(t \o u) = Len(t) + Len(u)
  BY <1>4, ConcatProperties
<1>6. QED
  BY <1>3, <1>4, <1>5

\* The history only grows, and the channel holds no more than was typed.
LEMMA StillPlain ==
  ASSUME TypeOK, [Next]_vars, PlainTyping'
  PROVE  PlainTyping /\ (PlainWire => PlainWire')
<1>1. CASE \E k \in Key : Press(k)
  <2>1. PICK k \in Key : Press(k)
    BY <1>1
  <2>2. /\ typed' = Append(typed, k) /\ typed \in Seq(Key)
    BY <2>1, Typed DEF Press
  <2>3. /\ DOMAIN typed = 1..Len(typed) /\ DOMAIN typed' = 1..Len(typed) + 1
        /\ \A i \in 1..Len(typed) : typed'[i] = typed[i]
        /\ typed'[Len(typed) + 1] = k /\ Len(typed) \in Nat
    BY <2>2
  <2>4. PlainTyping /\ k \in Char
    BY <2>3 DEF PlainTyping
  <2>5. PlainWire => PlainWire'
    BY <2>1, <2>4, Pressed DEF PlainWire
  <2>6. QED
    BY <2>4, <2>5
<1>2. CASE wire' = wire /\ typed' = typed
  BY <1>2 DEF PlainTyping, PlainWire
<1>3. CASE wire' = Drain.rest /\ typed' = typed
  <2>1. PlainTyping
    BY <1>3 DEF PlainTyping
  <2>2. PlainWire => PlainWire'
    BY <1>3, FromWire DEF PlainWire
  <2>3. QED
    BY <2>1, <2>2
<1>4. CASE HandleKey
  <2>1. wire' = Tail(wire) /\ wire # <<>> /\ typed' = typed /\ wire \in Seq(Sent)
    BY <1>4, Typed DEF HandleKey
  <2>2. \A i \in DOMAIN wire' : i + 1 \in DOMAIN wire /\ wire'[i] = wire[i + 1]
    BY <2>1
  <2>3. QED
    BY <2>1, <2>2 DEF PlainTyping, PlainWire
<1>5. QED
  BY <1>1, <1>2, <1>3, <1>4 DEF Next, Engine, vars, LiftTrigger, DesktopPutsBack,
     WaitProbe, WaitGivesUp, WaitOver, PreflightFails, SwitchLayout, AbsorbProbe,
     AbsorbAborts, SwitchLost, StartBurst, DeleteOne, DeletedHeld, DeleteProbe,
     ReplayOne, ReplayDone, EmitFails, FlushProbe, Release, Sweep, IntrusionProbe,
     SettleProbe, Seed, Idle

\* The numbers Owed is made of, before and after a step.
LEMMA Numbers ==
  ASSUME TypeOK
  PROVE  /\ Len(wire) \in Nat /\ Len(Drain.rest) \in Nat /\ Len(screen) \in Nat
         /\ c.toDelete \in Nat /\ c.emitted \in Nat /\ c.intruders \in Nat
         /\ Len(c.out) \in Nat /\ Len(Full(c)) \in Nat /\ Len(Before) \in Nat
         /\ c \in Locals /\ held \in BOOLEAN
  BY Typed, LenProperties, CorrectionAssumption DEF DrainTypes

LEMMA OwedNow ==
  ASSUME TypeOK
  PROVE  /\ pc \in Early => Owed = Len(Full(c)) + Len(wire)
         /\ pc = "delete" /\ held => Owed = c.toDelete
         /\ pc = "delete" /\ ~held => Owed = c.toDelete + Len(wire)
         /\ pc = "replay" /\ held => Owed = 0
         /\ pc = "replay" /\ ~held => Owed = c.emitted - Len(c.out) + Len(wire)
         /\ pc = "probe" => Owed = c.emitted + c.intruders + Len(wire)
         /\ pc \in {"flush", "release", "sweep"} \cup Late3 => Owed = 0
  BY Numbers, OwedCases DEF Owed

LEMMA OwedThen ==
  ASSUME c' \in Locals, held' \in BOOLEAN, wire' \in Seq(Sent)
  PROVE  /\ pc' \in Early => Owed' = Len(Full(c')) + Len(wire')
         /\ pc' = "delete" /\ held' => Owed' = c'.toDelete
         /\ pc' = "delete" /\ ~held' => Owed' = c'.toDelete + Len(wire')
         /\ pc' = "replay" /\ held' => Owed' = 0
         /\ pc' = "replay" /\ ~held' => Owed' = c'.emitted - Len(c'.out) + Len(wire')
         /\ pc' = "probe" => Owed' = c'.emitted + c'.intruders + Len(wire')
         /\ pc' \in {"flush", "release", "sweep"} \cup Late3 => Owed' = 0
<1>1. Len(wire') \in Nat
  BY LenProperties
<1>2. QED
  BY <1>1, OwedCases DEF Owed

\* A step owes no more than it types, or what it deletes.
Pays ==
  \/ screen' = screen /\ Owed' <= Owed
  \/ \E u \in Seq(Cell) : screen' = screen \o u /\ (Owed' <= Owed + Len(u) \/ Owed' = 0)
  \/ screen' = RubOut(screen) /\ Owed >= 1 /\ Owed' <= Owed - 1

LEMMA PaysCounts ==
  ASSUME TypeOK, Front(screen), Len(screen) >= Len(Before) + Owed, Pays,
         Owed \in Int, Owed' \in Int
  PROVE  Front(screen') /\ Len(screen') >= Len(Before) + Owed'
<1>1. /\ screen \in Seq(Cell) /\ Len(screen) \in Nat /\ Len(Before) \in Nat
      /\ Len(screen) >= Len(Before)
  BY Typed, Numbers DEF Front
<1>2. CASE screen' = screen /\ Owed' <= Owed
  BY <1>1, <1>2
<1>3. CASE \E u \in Seq(Cell) : screen' = screen \o u
                                 /\ (Owed' <= Owed + Len(u) \/ Owed' = 0)
  <2>1. PICK u \in Seq(Cell) : screen' = screen \o u
                                 /\ (Owed' <= Owed + Len(u) \/ Owed' = 0)
    BY <1>3
  <2>2. Front(screen \o u) /\ Len(screen \o u) = Len(screen) + Len(u) /\ Len(u) \in Nat
    BY <1>1, FrontKept
  <2>3. Front(screen') /\ Len(screen') = Len(screen) + Len(u)
    BY <2>1, <2>2
  <2>4. QED
    BY <1>1, <2>1, <2>2, <2>3
<1>4. CASE screen' = RubOut(screen) /\ Owed >= 1 /\ Owed' <= Owed - 1
  <2>1. Len(screen) > Len(Before)
    BY <1>1, <1>4
  <2>2. Front(RubOut(screen)) /\ Len(RubOut(screen)) = Len(screen) - 1
    BY <1>1, <2>1, FrontKept
  <2>3. Front(screen') /\ Len(screen') = Len(screen) - 1
    BY <1>4, <2>2
  <2>4. QED
    BY <1>1, <1>4, <2>3
<1>5. QED
  BY <1>2, <1>3, <1>4 DEF Pays

LEMMA OwedInt ==
  ASSUME NEW p, NEW h \in BOOLEAN, NEW l \in Locals, NEW w \in Seq(Sent)
  PROVE  OwedAt(p, h, l, w) \in Int
<1>1. /\ l.toDelete \in Int /\ l.emitted \in Int /\ l.intruders \in Int
      /\ Len(l.out) \in Int /\ Len(w) \in Int /\ Len(Full(l)) \in Int
  <2>1. l.toDelete \in Nat /\ l.emitted \in Nat /\ l.intruders \in Nat /\ l.out \in Seq(Char)
    BY DEF Locals
  <2>2. Len(l.out) \in Nat /\ Len(w) \in Nat /\ Len(Full(l)) \in Nat
    BY <2>1, FullLength, LenProperties
  <2>3. QED
    BY <2>1, <2>2
<1> DEFINE a == Len(Full(l))
           b == Len(w)
           d == Len(l.out)
<1>2. OwedAt(p, h, l, w) \in {a + b, l.toDelete + 0, l.toDelete + b, l.emitted - d + b,
                              l.emitted + l.intruders + b, 0}
  BY Zenon DEF OwedAt
<1>3. a \in Int /\ b \in Int /\ d \in Int
  BY <1>1
<1> HIDE DEF a, b, d
<1>4. /\ a + b \in Int /\ l.toDelete + 0 \in Int /\ l.toDelete + b \in Int
      /\ l.emitted - d + b \in Int /\ l.emitted + l.intruders + b \in Int /\ 0 \in Int
  BY <1>1, <1>3, SMTT(30)
<1>5. QED
  BY <1>2, <1>4

LEMMA PressPays ==
  ASSUME TypeOK, TypeOK', Placed, NEW k \in Char, Press(k)
  PROVE  Pays
<1>1. /\ UNCHANGED <<pc, held, c>> /\ k \in Key
      /\ screen' = (IF held THEN screen ELSE Struck(screen, layout, k))
  BY KeyTypes DEF Press
<1>2. Len(wire') = Len(wire) + 1
  BY <1>1, Pressed
<1>3. pc \in Early \cup {"delete", "replay", "probe", "flush", "release", "sweep"} \cup Late3
  BY DEF TypeOK, Early, Late3
<1>4. c' \in Locals /\ held' \in BOOLEAN /\ wire' \in Seq(Sent)
  BY DEF TypeOK, Sent
<1>5. CASE held
  <2>1. pc \notin Early \cup {"probe", "sweep"} \cup Late3
    BY <1>5 DEF Placed
  <2>2. pc = "delete" \/ pc = "replay" \/ pc \in {"flush", "release"}
    BY <1>3, <2>1
  <2>3. Owed' = Owed /\ Owed \in Int
    <3>1. CASE pc = "delete"
      BY <1>1, <1>4, <1>5, <3>1, OwedNow, OwedThen, Numbers
    <3>2. CASE pc = "replay"
      BY <1>1, <1>4, <1>5, <3>2, OwedNow, OwedThen
    <3>3. CASE pc \in {"flush", "release"}
      BY <1>1, <1>4, <1>5, <3>3, OwedNow, OwedThen
    <3>4. QED
      BY <2>2, <3>1, <3>2, <3>3
  <2>4. QED
    BY <1>1, <1>5, <2>3 DEF Pays
<1>6. CASE ~held
  <2>1. PICK u \in Seq(Cell) : screen' = screen \o u /\ Len(u) = 1
    <3>1. <<k>> \in Seq(Char) /\ Len(<<k>>) = 1 /\ layout \in {"from", "to"}
      BY Typed
    <3>2. In(layout, <<k>>) \in Seq(Cell) /\ Len(In(layout, <<k>>)) = 1
      BY <3>1, InFields
    <3>3. screen' = screen \o In(layout, <<k>>)
      BY <1>1, <1>6 DEF Struck
    <3>4. QED
      BY <3>2, <3>3
  <2>2. Owed' <= Owed + 1 \/ Owed' = 0
    <3>1. CASE pc \in Early
      BY <1>1, <1>2, <1>4, <3>1, OwedNow, OwedThen, Numbers
    <3>2. CASE pc = "delete"
      BY <1>1, <1>2, <1>4, <1>6, <3>2, OwedNow, OwedThen, Numbers
    <3>3. CASE pc = "replay"
      BY <1>1, <1>2, <1>4, <1>6, <3>3, OwedNow, OwedThen, Numbers
    <3>4. CASE pc = "probe"
      BY <1>1, <1>2, <1>4, <3>4, OwedNow, OwedThen, Numbers
    <3>5. CASE pc \in {"flush", "release", "sweep"} \cup Late3
      BY <1>1, <1>4, <3>5, OwedThen
    <3>6. QED
      BY <1>3, <3>1, <3>2, <3>3, <3>4, <3>5
  <2>3. QED
    BY <2>1, <2>2 DEF Pays
<1>7. QED
  BY <1>5, <1>6

LEMMA EarlyPays ==
  ASSUME TypeOK, TypeOK', Placed, PlainWire,
         \/ LiftTrigger \/ DesktopPutsBack \/ WaitProbe \/ WaitGivesUp \/ WaitOver
         \/ PreflightFails \/ SwitchLayout \/ AbsorbProbe \/ AbsorbAborts \/ SwitchLost
         \/ StartBurst
  PROVE  Pays
<1>1. c' \in Locals /\ held' \in BOOLEAN /\ wire' \in Seq(Sent)
  BY DEF TypeOK, Sent
<1>2. Owed \in Int
  BY Typed, OwedInt DEF Owed
<1>3. CASE LiftTrigger \/ DesktopPutsBack
  BY <1>2, <1>3 DEF Pays, Owed, LiftTrigger, DesktopPutsBack
<1>4. CASE WaitProbe
  <2>1. pc \in Early /\ pc' \in Early /\ screen' = screen
    BY <1>4 DEF WaitProbe, Early
  <2>2. Len(Full(c')) + Len(wire') = Len(Full(c)) + Len(wire)
    BY <1>4, WaitCounts
  <2>3. Owed' = Owed
    BY <1>1, <2>1, <2>2, OwedNow, OwedThen
  <2>4. QED
    BY <1>2, <2>1, <2>3 DEF Pays
<1>5. CASE WaitGivesUp \/ PreflightFails \/ AbsorbAborts \/ SwitchLost
  <2>1. pc' \in Late3 /\ pc \in Early /\ screen' = screen
    BY <1>5 DEF WaitGivesUp, PreflightFails, AbsorbAborts, SwitchLost, Return, Late3, Early
  <2>2. Owed' = 0 /\ Owed = Len(Full(c)) + Len(wire)
    BY <1>1, <2>1, OwedNow, OwedThen
  <2>3. Owed' <= Owed
    BY <2>2, Numbers
  <2>4. QED
    BY <2>1, <2>3 DEF Pays
<1>6. CASE WaitOver \/ SwitchLayout
  <2>1. pc' \in Early /\ pc \in Early /\ screen' = screen /\ c' = c /\ wire' = wire
    BY <1>6 DEF WaitOver, SwitchLayout, Early
  <2>2. Owed' = Owed
    BY <1>1, <2>1, OwedNow, OwedThen
  <2>3. QED
    BY <1>2, <2>1, <2>2 DEF Pays
<1>7. CASE AbsorbProbe
  <2>1. pc' \in Early /\ pc \in Early /\ screen' = screen /\ c' = Take(c, Drain)
        /\ wire' = Drain.rest
    BY <1>7 DEF AbsorbProbe, Early
  <2>2. /\ Owed = Len(Full(c)) + Len(wire)
        /\ Owed' = Len(Full(Take(c, Drain))) + Len(Drain.rest)
    BY <1>1, <2>1, OwedNow, OwedThen
  <2>3. Owed' <= Owed
    BY <2>2, DrainCounts, Numbers, SMTT(30)
  <2>4. QED
    BY <2>1, <2>3 DEF Pays
<1>8. CASE StartBurst
  <2>1. pc' = "delete" /\ pc \in Early /\ screen' = screen /\ wire' = wire
        /\ c'.toDelete = Len(Full(c))
    BY <1>8, Typed DEF StartBurst, Early, Locals
  <2>2. Owed = Len(Full(c)) + Len(wire)
    BY <2>1, OwedNow
  <2>3. Owed' = Len(Full(c)) \/ Owed' = Len(Full(c)) + Len(wire)
    BY <1>1, <2>1, OwedThen
  <2>4. Owed' <= Owed
    BY <2>2, <2>3, Numbers
  <2>5. QED
    BY <2>1, <2>4 DEF Pays
<1>9. QED
  BY <1>3, <1>4, <1>5, <1>6, <1>7, <1>8

LEMMA BurstPays ==
  ASSUME TypeOK, TypeOK', Placed, PlainWire,
         DeleteOne \/ DeletedHeld \/ DeleteProbe \/ ReplayOne \/ ReplayDone \/ EmitFails
  PROVE  Pays
<1>1. c' \in Locals /\ held' \in BOOLEAN /\ wire' \in Seq(Sent)
  BY DEF TypeOK, Sent
<1>2. Len(wire) \in Nat /\ Len(Drain.rest) \in Nat /\ held \in BOOLEAN
  BY Numbers
<1>3. CASE DeleteOne
  <2>1. /\ pc = "delete" /\ pc' = "delete" /\ UNCHANGED <<held, wire>>
        /\ screen' = RubOut(screen) /\ c.toDelete > 0 /\ c'.toDelete = c.toDelete - 1
    BY <1>3, Typed DEF DeleteOne, Locals
  <2>2. CASE held
    BY <1>1, <2>1, <2>2, OwedNow, OwedThen, Numbers DEF Pays
  <2>3. CASE ~held
    BY <1>1, <2>1, <2>3, OwedNow, OwedThen, Numbers DEF Pays
  <2>4. QED
    BY <2>2, <2>3
<1>4. CASE DeletedHeld
  <2>1. pc = "delete" /\ pc' = "replay" /\ held /\ UNCHANGED <<held, screen>>
    BY <1>4 DEF DeletedHeld
  <2>2. QED
    BY <1>1, <2>1, OwedNow, OwedThen, Numbers DEF Pays
<1>5. CASE DeleteProbe
  <2> DEFINE l == Take(c, Drain)
             e == Cost(c, Drain)
  <2>1. /\ pc = "delete" /\ ~held /\ c.toDelete = 0 /\ UNCHANGED <<held, screen>>
        /\ wire' = Drain.rest
        /\ \/ pc' = "delete" /\ c'.toDelete = e
           \/ pc' = "replay" /\ c' = Replaying(l)
    <3>1. l \in Locals /\ e \in Nat
      BY Typed
    <3>2. [l EXCEPT !.toDelete = e, !.round = @ + 1].toDelete = e
      BY <3>1 DEF Locals
    <3>3. QED
      BY <1>5, <3>2 DEF DeleteProbe
  <2>2. Owed = Len(wire) /\ e + Len(Drain.rest) <= Len(wire) /\ e \in Nat
    BY <1>2, <2>1, OwedNow, DrainCounts
  <2> HIDE DEF e
  <2>3. CASE pc' = "delete" /\ c'.toDelete = e
    BY <1>1, <1>2, <2>1, <2>2, <2>3, OwedThen DEF Pays
  <2>4. CASE pc' = "replay" /\ c' = Replaying(l)
    <3>1. c'.out = Full(l) /\ c'.emitted = Len(Full(l)) /\ Len(Full(l)) \in Nat
      BY <2>4, Typed, ReplayingFields, LenProperties
    <3>2. Owed' = Len(Full(l)) - Len(Full(l)) + Len(Drain.rest)
      BY <1>1, <2>1, <2>4, <3>1, OwedThen
    <3>3. Owed' <= Owed
      BY <1>2, <2>2, <3>1, <3>2
    <3>4. QED
      BY <2>1, <3>3 DEF Pays
  <2>5. QED
    BY <2>1, <2>3, <2>4
<1>6. CASE ReplayOne
  <2>1. /\ pc = "replay" /\ pc' = "replay" /\ UNCHANGED <<held, wire>>
        /\ c'.out = Tail(c.out) /\ c'.emitted = c.emitted
        /\ c.out \in Seq(Char) /\ c.out # <<>>
        /\ screen' = Struck(screen, layout, Head(c.out))
    BY <1>6, Typed DEF ReplayOne, Locals
  <2>2. Head(c.out) \in Char /\ Len(Tail(c.out)) = Len(c.out) - 1
    BY <2>1, HeadTailProperties
  <2>3. PICK u \in Seq(Cell) : screen' = screen \o u /\ Len(u) = 1
    <3> DEFINE k == Head(c.out)
    <3>1. k \in Char /\ <<k>> \in Seq(Char) /\ Len(<<k>>) = 1 /\ layout \in {"from", "to"}
      BY <2>2, Typed
    <3>2. In(layout, <<k>>) \in Seq(Cell) /\ Len(In(layout, <<k>>)) = 1
      BY <3>1, InFields
    <3>3. screen' = screen \o In(layout, <<k>>)
      BY <2>1, <3>1 DEF Struck
    <3>4. QED
      BY <3>2, <3>3
  <2>4. Owed' <= Owed + 1 \/ Owed' = 0
    <3>1. CASE held
      BY <1>1, <2>1, <3>1, OwedThen
    <3>2. CASE ~held
      <4>1. Len(c'.out) = Len(c.out) - 1
        BY <2>1, <2>2
      <4>2. QED
        BY <1>1, <2>1, <3>2, <4>1, OwedNow, OwedThen, Numbers
    <3>3. QED
      BY <3>1, <3>2
  <2>5. QED
    BY <2>3, <2>4 DEF Pays
<1>7. CASE ReplayDone
  <2>1. /\ pc = "replay" /\ c.out = <<>> /\ UNCHANGED <<held, wire, screen>>
        /\ pc' = (IF held THEN "flush" ELSE IF c.suspicious THEN "settle" ELSE "probe")
        /\ c'.emitted = c.emitted /\ c'.intruders = 0
    BY <1>7, Typed DEF ReplayDone, Locals
  <2>2. Len(c.out) = 0
    BY <2>1
  <2>3. CASE held
    BY <1>1, <2>1, <2>3, OwedNow, OwedThen DEF Pays
  <2>4. CASE ~held
    <3>1. Owed = c.emitted + Len(wire)
      BY <2>1, <2>2, <2>4, OwedNow, Numbers
    <3>2. pc' = "settle" \/ pc' = "probe"
      BY <2>1, <2>4
    <3>3. Owed' <= Owed
      <4>1. CASE pc' = "settle"
        <5>1. Owed' = 0
          BY <1>1, <4>1, OwedThen DEF Late3
        <5>2. QED
          BY <3>1, <5>1, Numbers
      <4>2. CASE pc' = "probe"
        BY <1>1, <2>1, <3>1, <4>2, OwedThen, Numbers
      <4>3. QED
        BY <3>2, <4>1, <4>2
    <3>4. QED
      BY <2>1, <3>3 DEF Pays
  <2>5. QED
    BY <1>2, <2>3, <2>4
<1>8. CASE EmitFails
  <2>1. pc \in {"delete", "replay"} /\ pc' \in Late3 /\ screen' = screen
    BY <1>8 DEF EmitFails, Return, Late3
  <2>2. Owed' = 0
    BY <1>1, <2>1, OwedThen
  <2>3. Owed >= 0
    <3>1. CASE pc = "delete"
      BY <1>2, <3>1, OwedNow, Numbers
    <3>2. CASE pc = "replay"
      <4>1. Len(c.out) <= c.emitted
        BY <3>2 DEF Placed
      <4>2. QED
        BY <1>2, <3>2, <4>1, OwedNow, Numbers
    <3>3. QED
      BY <2>1, <3>1, <3>2
  <2>4. QED
    BY <2>1, <2>2, <2>3 DEF Pays
<1>9. QED
  BY <1>3, <1>4, <1>5, <1>6, <1>7, <1>8

LEMMA LaterPays ==
  ASSUME TypeOK, TypeOK', Placed, PlainWire,
         \/ FlushProbe \/ Release \/ Sweep \/ IntrusionProbe \/ SettleProbe
         \/ Seed \/ HandleKey \/ Idle \/ UNCHANGED vars
  PROVE  Pays
<1>1. c' \in Locals /\ held' \in BOOLEAN /\ wire' \in Seq(Sent)
  BY DEF TypeOK, Sent
<1>2. Len(wire) \in Nat /\ Len(Drain.rest) \in Nat /\ held \in BOOLEAN
  BY Numbers
<1>3. Owed \in Int
  BY Typed, OwedInt DEF Owed
<1>4. CASE FlushProbe \/ Sweep
  <2>1. /\ pc \in {"flush", "sweep"} /\ pc' \in {"flush", "release", "sweep"} \cup Late3
        /\ screen' = TypeOut(screen, Drain) \/ screen' = screen
    BY <1>4 DEF FlushProbe, Sweep, Late3
  <2>2. Owed = 0 /\ Owed' = 0
    BY <1>1, <2>1, OwedNow, OwedThen
  <2>3. CASE screen' = screen
    BY <2>2, <2>3 DEF Pays
  <2>4. CASE screen' = TypeOut(screen, Drain)
    <3> DEFINE ks == Drain.words \o Optional(Drain.resume)
    <3>1. ks \in Seq(Char) /\ layout \in {"from", "to"}
      <4>1. Drain.words \in Seq(Char) /\ Optional(Drain.resume) \in Seq(Char)
        BY Typed, KeyTypes, OptionalLength DEF DrainTypes
      <4>2. QED
        BY <4>1, Typed, ConcatProperties
    <3>2. Drain.stopper = NoKey /\ NoKey # Backspace
      BY Typed, DrainFields, KeyTypes DEF DrainPlain
    <3>3. screen' = screen \o In(layout, ks)
      BY <2>4, <3>2 DEF TypeOut
    <3> HIDE DEF ks
    <3>4. In(layout, ks) \in Seq(Cell)
      BY <3>1, InFields
    <3>5. QED
      BY <2>2, <3>3, <3>4 DEF Pays
  <2>5. QED
    BY <2>1, <2>3, <2>4
<1>5. CASE Release \/ SettleProbe \/ Seed \/ HandleKey
  <2>1. /\ pc \in {"flush", "release", "sweep"} \cup Late3 /\ screen' = screen
        /\ pc' \in {"flush", "release", "sweep"} \cup Late3
    BY <1>5 DEF Release, SettleProbe, Seed, HandleKey, Return, Late3
  <2>2. Owed = 0 /\ Owed' = 0
    BY <1>1, <2>1, OwedNow, OwedThen
  <2>3. QED
    BY <2>1, <2>2 DEF Pays
<1>6. CASE IntrusionProbe
  <2> DEFINE e == Cost(c, Drain)
             i == c.intruders
             m == c.emitted
  <2>1. /\ pc = "probe" /\ wire' = Drain.rest /\ UNCHANGED <<held, screen>> /\ ~held
        /\ \/ pc' = "settle"
           \/ pc' = "probe" /\ c'.emitted = m /\ c'.intruders = i + e
           \/ pc' = "delete" /\ c'.toDelete = m + (i + e)
    <3> DEFINE k == Take(c, Drain)
               l == [k EXCEPT !.intruders = @ + e]
    <3>1. k \in Locals /\ k.emitted = m /\ k.intruders = i
      BY Typed, TakeFields
    <3>2. l.emitted = m /\ l.intruders = i + e /\ Repair(l) = m + (i + e)
      BY <3>1 DEF Locals, Repair
    <3>3. \A x, y : [l EXCEPT !.repairs = x, !.toDelete = y].toDelete = y
      BY <3>1 DEF Locals
    <3> HIDE DEF l
    <3>4. /\ pc = "probe" /\ wire' = Drain.rest /\ UNCHANGED <<held, screen>>
          /\ \/ c' = l /\ pc' = "settle"
             \/ c' = l /\ pc' = "probe"
             \/ c' = [l EXCEPT !.repairs = @ - 1, !.toDelete = Repair(l)] /\ pc' = "delete"
             \/ pc' = "settle"
      BY <1>6 DEF IntrusionProbe, l
    <3>5. ~held
      BY <3>4 DEF Placed
    <3>6. QED
      BY <3>2, <3>3, <3>4, <3>5, ZenonT(30)
  <2>2. /\ Owed = m + i + Len(wire) /\ e + Len(Drain.rest) <= Len(wire)
        /\ e \in Nat /\ i \in Nat /\ m \in Nat
    BY <2>1, OwedNow, DrainCounts, Numbers
  <2> HIDE DEF e, i, m
  <2>3. m + (i + e) + Len(Drain.rest) <= Owed /\ 0 <= Owed
    <3> DEFINE x == Len(wire)
               y == Len(Drain.rest)
    <3>1. /\ Owed = m + i + x /\ e + y <= x /\ x \in Nat /\ y \in Nat
          /\ e \in Nat /\ i \in Nat /\ m \in Nat
      BY <1>2, <2>2
    <3> HIDE DEF x, y
    <3>2. m + (i + e) + y <= Owed /\ 0 <= Owed
      BY <3>1
    <3>3. QED
      BY <3>2 DEF y
  <2>4. CASE pc' = "settle"
    <3>1. Owed' = 0
      BY <1>1, <2>4, OwedThen DEF Late3
    <3>2. QED
      BY <2>1, <2>3, <3>1 DEF Pays
  <2>5. CASE pc' = "probe" /\ c'.emitted = m /\ c'.intruders = i + e
    <3>1. Owed' = m + (i + e) + Len(Drain.rest)
      BY <1>1, <2>1, <2>5, OwedThen
    <3>2. QED
      BY <2>1, <2>3, <3>1 DEF Pays
  <2>6. CASE pc' = "delete" /\ c'.toDelete = m + (i + e)
    <3>1. ~held' /\ pc' = "delete"
      BY <2>1, <2>6
    <3>2. Owed' = c'.toDelete + Len(wire')
      BY <1>1, <3>1, OwedThen
    <3>3. Owed' = m + (i + e) + Len(Drain.rest)
      BY <2>1, <2>6, <3>2
    <3>4. QED
      BY <2>1, <2>3, <3>3 DEF Pays
  <2>7. QED
    BY <2>1, <2>4, <2>5, <2>6
<1>7. CASE Idle \/ UNCHANGED vars
  BY <1>3, <1>7 DEF Pays, Owed, Idle, vars
<1>8. QED
  BY <1>4, <1>5, <1>6, <1>7

LEMMA CountedKept ==
  ASSUME TypeOK, TypeOK', Placed, Counted, [Next]_vars
  PROVE  Counted'
<1> SUFFICES ASSUME PlainTyping'
             PROVE  PlainWire' /\ Front(screen') /\ Len(screen') >= Len(Before) + Owed'
  BY DEF Counted, Front
<1>1. PlainTyping /\ (PlainWire => PlainWire')
  BY StillPlain
<1>2. PlainWire /\ Front(screen) /\ Len(screen) >= Len(Before) + Owed
  BY <1>1 DEF Counted
<1>3. Pays
  <2>1. CASE \E k \in Key : Press(k)
    <3>1. PICK k \in Key : Press(k)
      BY <2>1
    <3>2. k \in Char
      <4>1. typed' = Append(typed, k) /\ typed \in Seq(Key)
        BY <3>1, Typed DEF Press
      <4>2. Len(typed') \in DOMAIN typed' /\ typed'[Len(typed')] = k
        BY <4>1
      <4>3. QED
        BY <4>2 DEF PlainTyping
    <3>3. QED
      BY <3>1, <3>2, PressPays
  <2>2. CASE \/ LiftTrigger \/ DesktopPutsBack \/ WaitProbe \/ WaitGivesUp \/ WaitOver
             \/ PreflightFails \/ SwitchLayout \/ AbsorbProbe \/ AbsorbAborts
             \/ SwitchLost \/ StartBurst
    BY <1>2, <2>2, EarlyPays
  <2>3. CASE DeleteOne \/ DeletedHeld \/ DeleteProbe \/ ReplayOne \/ ReplayDone \/ EmitFails
    BY <1>2, <2>3, BurstPays
  <2>4. CASE \/ FlushProbe \/ Release \/ Sweep \/ IntrusionProbe \/ SettleProbe
             \/ Seed \/ HandleKey \/ Idle \/ UNCHANGED vars
    BY <1>2, <2>4, LaterPays
  <2>5. QED
    BY <2>1, <2>2, <2>3, <2>4 DEF Next, Engine
<1>4. Owed \in Int /\ Owed' \in Int
  <2>1. c' \in Locals /\ held' \in BOOLEAN /\ wire' \in Seq(Sent)
    BY DEF TypeOK, Sent
  <2>2. QED
    BY <2>1, Typed, OwedInt DEF Owed
<1>5. Front(screen') /\ Len(screen') >= Len(Before) + Owed'
  BY <1>2, <1>3, <1>4, PaysCounts
<1>6. QED
  BY <1>1, <1>2, <1>5

LEMMA InitTexts ==
  ASSUME Init
  PROVE  /\ Before \in Seq(Char) /\ c.target \in Seq(Char)
         /\ c \in Locals /\ c.tail = <<>> /\ c.resume = NoKey
         /\ wire = <<>> /\ typed = <<>> /\ pc = "wait"
         /\ screen = In("from", Before) \o In("from", c.target)
         /\ Keys(screen) = Before \o c.target
<1>1. c \in Locals /\ Before \in Seq(Char) /\ c.target \in Seq(Char)
  BY InitTypes, Typed, CorrectionAssumption
<1>2. \A t : Locals0(t).tail = <<>> /\ Locals0(t).resume = NoKey
  BY DEF Locals0
<1>3. c.tail = <<>> /\ c.resume = NoKey
  BY <1>2 DEF Init
<1>4. Before \o c.target \in Seq(Char)
  BY <1>1, ConcatProperties
<1>5. screen = In("from", Before \o c.target) /\ wire = <<>> /\ typed = <<>> /\ pc = "wait"
  BY DEF Init
<1>6. QED
  BY <1>1, <1>3, <1>4, <1>5, InConcat, KeysOfText

LEMMA InitOwed == Init => Owed = Len(c.target)
<1> SUFFICES ASSUME Init PROVE Owed = Len(c.target)
  OBVIOUS
<1>1. Owed = Len(Full(c)) + Len(wire)
  BY InitTypes, InitTexts, OwedNow DEF Early
<1>2. Len(wire) = 0 /\ Len(c.tail) = 0 /\ Len(Optional(c.resume)) = 0
  BY InitTexts, KeyTypes
<1>3. Len(Full(c)) = Len(c.target) + Len(c.tail) + Len(Optional(c.resume))
  BY InitTexts, FullLength
<1>4. Len(Full(c)) = Len(c.target) + 0 + 0
  BY <1>2, <1>3
<1>5. Len(c.target) \in Nat
  BY InitTexts
<1>6. QED
  BY <1>1, <1>2, <1>4, <1>5

LEMMA InitCounted == Init => Counted
<1> SUFFICES ASSUME Init PROVE Counted
  OBVIOUS
<1>1. TypeOK
  BY InitTypes
<1> DEFINE b == In("from", Before)
           t == In("from", c.target)
<1>2. /\ b \in Seq(Cell) /\ Len(b) = Len(Before) /\ t \in Seq(Cell) /\ Len(t) = Len(c.target)
      /\ Len(Before) \in Nat /\ Len(c.target) \in Nat /\ DOMAIN Before = 1..Len(Before)
  BY InitTexts, InFields, LenProperties
<1>3. Front(b)
  BY <1>2 DEF Front
<1> HIDE DEF b, t
<1>4. screen = b \o t
  BY InitTexts DEF b, t
<1>5. Front(screen) /\ Len(screen) = Len(b) + Len(t)
  BY <1>2, <1>3, <1>4, FrontKept
<1>6. Owed = Len(c.target)
  BY InitOwed
<1>7. PlainWire
  BY InitTexts DEF PlainWire
<1>8. QED
  BY <1>2, <1>5, <1>6, <1>7 DEF Counted

-----------------------------------------------------------------------------
(* What a correction that gives up leaves. *)

LEMMA InitUntouched == Init => Untouched
<1> SUFFICES ASSUME Init PROVE Untouched
  OBVIOUS
<1>1. (Before \o c.target) \o <<>> = Before \o c.target
  BY InitTexts, ConcatProperties, ConcatEmptySeq
<1>2. QED
  BY <1>1, InitTexts DEF Untouched

LEMMA UntouchedKept ==
  ASSUME TypeOK, TypeOK', Placed, Placed', Untouched, [Next]_vars
  PROVE  Untouched'
<1> DEFINE Bound == Before \o c.target
<1>1. PlainTyping' => PlainTyping
  BY StillPlain
<1>2. CASE \E k \in Key : Press(k)
  <2>1. PICK k \in Key : Press(k)
    BY <1>2
  <2> SUFFICES ASSUME PlainTyping',
                      pc' \in Early \/ (result' = "false" /\ "emitFailed" \notin slips')
               PROVE  Keys(screen') = Before \o c'.target \o typed'
    BY DEF Untouched
  <2>2. pc \in Early /\ c' = c /\ ~held /\ typed' = Append(typed, k) /\ typed \in Seq(Key)
        /\ screen' = Struck(screen, layout, k)
    <3>1. pc \in Early
      BY <2>1 DEF Press, Placed
    <3>2. QED
      BY <2>1, <3>1, Typed DEF Press, Placed
  <2>3. k \in Char
    <3>1. Len(typed') \in DOMAIN typed' /\ typed'[Len(typed')] = k
      BY <2>2
    <3>2. QED
      BY <3>1 DEF PlainTyping
  <2>4. Keys(screen) = Bound \o typed
    BY <1>1, <2>2 DEF Untouched
  <2> DEFINE one == <<k>>
  <2>5. Keys(screen') = Keys(screen) \o one
    <3> DEFINE u == In(layout, <<k>>)
    <3>1. <<k>> \in Seq(Char) /\ layout \in {"from", "to"}
      BY <2>3, Typed
    <3>2. u \in Seq(Cell) /\ Keys(u) = <<k>>
      BY <3>1, InFields, KeysOfText
    <3>3. screen' = screen \o u /\ screen \in Seq(Cell)
      BY <2>2, <2>3, Typed DEF Struck
    <3> HIDE DEF u
    <3>4. \A x \in Cell : x.key \in Char
      BY DEF Cell
    <3>5. Keys(screen \o u) = Keys(screen) \o Keys(u)
      BY <3>2, <3>3, <3>4, KeysConcat
    <3>6. QED
      BY <3>2, <3>3, <3>5
  <2>6. typed \o one = Append(typed, k) /\ one \in Seq(Key)
    BY <2>2, AppendIsConcat
  <2> HIDE DEF one
  <2>7. (Bound \o typed) \o one = Bound \o Append(typed, k)
    <3>1. Bound \in Seq(Char) /\ Seq(Char) \subseteq Seq(Key)
      BY Typed, KeyTypes, CorrectionAssumption, ConcatProperties
    <3> HIDE DEF Bound
    <3>2. Bound \in Seq(Key) /\ typed \in Seq(Key)
      BY <2>2, <3>1
    <3>3. (Bound \o typed) \o one = Bound \o (typed \o one)
      <4>1. one \in Seq(Key)
        BY <2>6
      <4>2. QED
        BY <3>2, <4>1, Rejoined, SMTT(30)
    <3>4. QED
      BY <2>6, <3>3
  <2>8. QED
    BY <2>2, <2>4, <2>5, <2>7
<1>3. CASE \/ WaitProbe \/ WaitGivesUp \/ WaitOver
           \/ PreflightFails \/ SwitchLayout \/ AbsorbProbe \/ AbsorbAborts \/ SwitchLost
  <2>1. screen' = screen /\ typed' = typed /\ pc \in Early
    BY <1>3 DEF WaitProbe, WaitGivesUp, WaitOver,
       PreflightFails, SwitchLayout, AbsorbProbe, AbsorbAborts, SwitchLost, Early
  <2>2. c'.target = c.target
    BY <1>3, Typed, TakeFields DEF WaitProbe, WaitGivesUp,
       WaitOver, PreflightFails, SwitchLayout, AbsorbProbe, AbsorbAborts, SwitchLost, Locals
  <2>3. QED
    BY <1>1, <2>1, <2>2 DEF Untouched
<1>4. CASE LiftTrigger \/ DesktopPutsBack \/ HandleKey \/ Idle \/ UNCHANGED vars
  BY <1>1, <1>4 DEF LiftTrigger, DesktopPutsBack, HandleKey, Idle, vars, Untouched
<1>5. CASE \/ StartBurst \/ DeleteOne \/ DeletedHeld \/ DeleteProbe \/ ReplayOne
           \/ ReplayDone \/ FlushProbe \/ Release \/ Sweep \/ IntrusionProbe \/ SettleProbe
  <2>1. pc' \notin Early \cup {"run"}
    BY <1>5 DEF StartBurst, DeleteOne, DeletedHeld, DeleteProbe, ReplayOne, ReplayDone,
       FlushProbe, Release, Sweep, IntrusionProbe, SettleProbe, Early
  <2>2. QED
    BY <2>1 DEF Placed, Untouched
<1>6. CASE Seed
  BY <1>6 DEF Seed, Return, Untouched, Early
<1>7. CASE EmitFails
  BY <1>7 DEF EmitFails, Return, Untouched, Early
<1>8. QED
  BY <1>2, <1>3, <1>4, <1>5, <1>6, <1>7 DEF Next, Engine

-----------------------------------------------------------------------------
(* Typed again, once and in order. *)

LEMMA FollowedTypes ==
  ASSUME NEW l \in Locals
  PROVE  /\ FollowedBy(l) \in Seq(Char) /\ Full(l) = l.target \o FollowedBy(l)
         /\ l.target \in Seq(Char)
<1>1. l.tail \in Seq(Char) /\ Optional(l.resume) \in Seq(Char) /\ l.target \in Seq(Char)
  BY FullLength
<1>2. FollowedBy(l) \in Seq(Char)
  BY <1>1, ConcatProperties DEF FollowedBy
<1>3. QED
  BY <1>1, <1>2, FullLength DEF FollowedBy

\* Words join the tail while nothing follows it, or nothing joins it.
LEMMA FollowedGrows ==
  ASSUME NEW l \in Locals, NEW k \in Locals, NEW w \in Seq(Char), NEW r \in Separator \cup {NoKey},
         k.tail = l.tail \o w,
         (l.resume = NoKey /\ k.resume = r) \/ (k.resume = l.resume /\ w = <<>> /\ r = NoKey)
  PROVE  FollowedBy(k) = FollowedBy(l) \o (w \o Optional(r))
<1> DEFINE t == l.tail
           z == Optional(r)
           y == Optional(l.resume)
<1>1. t \in Seq(Char) /\ z \in Seq(Char) /\ y \in Seq(Char) /\ Optional(NoKey) = <<>>
  BY FullLength, OptionalLength, KeyTypes
<1>2. FollowedBy(l) = t \o y /\ FollowedBy(k) = (t \o w) \o Optional(k.resume)
  BY DEF FollowedBy
<1> HIDE DEF t
<1>3. CASE l.resume = NoKey /\ k.resume = r
  <2>1. y = <<>> /\ t \o <<>> = t
    BY <1>1, <1>3, ConcatEmptySeq
  <2>2. FollowedBy(l) = t /\ FollowedBy(k) = (t \o w) \o z
    BY <1>2, <1>3, <2>1
  <2> HIDE DEF z, y
  <2>3. (t \o w) \o z = t \o (w \o z)
    BY <1>1, Rejoined, SMTT(30)
  <2>4. QED
    BY <2>2, <2>3 DEF z
<1>4. CASE k.resume = l.resume /\ w = <<>> /\ r = NoKey
  <2>1. w = <<>> /\ z = <<>> /\ t \o w = t
    BY <1>1, <1>4, ConcatEmptySeq
  <2>2. FollowedBy(k) = FollowedBy(l) /\ FollowedBy(l) \in Seq(Char)
    BY <1>2, <1>4, <2>1, FollowedTypes
  <2>3. w \o z = <<>>
    BY <2>1
  <2>4. QED
    BY <2>2, <2>3, ConcatEmptySeq
<1>5. QED
  BY <1>3, <1>4

\* What a window takes was typed before what it leaves.
LEMMA Splits ==
  ASSUME TypeOK, PlainWire
  PROVE  LET d == Drain.words \o Optional(Drain.resume)
         IN  /\ Keys(wire) = d \o Keys(Drain.rest)
             /\ d \in Seq(Char) /\ Keys(Drain.rest) \in Seq(Key)
             /\ Drain.words \in Seq(Char) /\ Drain.resume \in Separator \cup {NoKey}
<1> DEFINE p == Drain.presses
           r == Drain.rest
           d == Drain.words \o Optional(Drain.resume)
<1>1. p \in Seq(Sent) /\ r \in Seq(Sent) /\ wire = p \o r
  BY Typed DEF DrainTypes
<1>2. Keys(p) = d
  BY Typed, DrainFields DEF DrainPlain
<1>3. Drain.words \in Seq(Char) /\ Drain.resume \in Separator \cup {NoKey}
      /\ Optional(Drain.resume) \in Seq(Char)
  BY Typed, KeyTypes, OptionalLength DEF DrainTypes
<1>4. d \in Seq(Char)
  BY <1>3, ConcatProperties
<1> HIDE DEF p, r, d
<1>5. \A x \in Sent : x.key \in Key
  BY DEF Sent
<1>6. Keys(p \o r) = Keys(p) \o Keys(r) /\ Keys(r) \in Seq(Key)
  BY <1>1, <1>5, KeysConcat, KeysFields
<1>7. Keys(wire) = d \o Keys(r)
  BY <1>1, <1>2, <1>6
<1>8. QED
  BY <1>3, <1>4, <1>6, <1>7 DEF d, r

LEMMA TakeFollows ==
  ASSUME TypeOK, PlainWire, ~Take(c, Drain).suspicious, Late(c.resume, Drain) = {}
  PROVE  /\ FollowedBy(Take(c, Drain)) = Followed \o (Drain.words \o Optional(Drain.resume))
         /\ Followed \o Keys(wire) = FollowedBy(Take(c, Drain)) \o Keys(Drain.rest)
<1> DEFINE l == Take(c, Drain)
           w == Drain.words
           r == Drain.resume
           d == w \o Optional(r)
           t == Keys(Drain.rest)
<1>1. /\ l \in Locals /\ c \in Locals /\ w \in Seq(Char) /\ r \in Separator \cup {NoKey}
      /\ d \in Seq(Char) /\ t \in Seq(Key) /\ Keys(wire) = d \o t
  BY Typed, Splits
<1>2. /\ l.tail = c.tail \o w
      /\ l.resume = (IF Resumable(c, Drain) THEN r ELSE c.resume)
      /\ r = NoKey \/ Resumable(c, Drain)
  BY TakeFields
<1>3. (c.resume = NoKey /\ l.resume = r) \/ (l.resume = c.resume /\ w = <<>> /\ r = NoKey)
  BY <1>2 DEF Late, Resumable
<1>4. FollowedBy(l) = Followed \o d
  BY <1>1, <1>2, <1>3, FollowedGrows DEF Followed
<1>5. Followed \in Seq(Key) /\ d \in Seq(Key)
  BY <1>1, FollowedTypes, KeyTypes DEF Followed
<1> HIDE DEF l, d, t
<1>6. Followed \o (d \o t) = (Followed \o d) \o t
  BY <1>1, <1>5, Rejoined, SMTT(30)
<1>7. Followed \o Keys(wire) = FollowedBy(l) \o t
  BY <1>1, <1>4, <1>6
<1>8. QED
  BY <1>4, <1>7 DEF l, d, t

\* A window that costs nothing found the channel empty.
LEMMA Nothing ==
  ASSUME TypeOK, PlainWire, ~Take(c, Drain).suspicious, Cost(c, Drain) = 0
  PROVE  /\ wire = <<>> /\ Drain.rest = <<>> /\ Drain.words = <<>> /\ Drain.resume = NoKey
         /\ FollowedBy(Take(c, Drain)) = Followed /\ Len(Drain.rest) = 0 /\ Len(wire) = 0
<1>1. /\ Drain.words \in Seq(Letter) /\ wire \in Seq(Sent)
      /\ Drain.rest \in Seq(Sent) /\ Drain.presses \in Seq(Sent)
      /\ Len(wire) = Len(Drain.presses) + Len(Drain.rest)
      /\ Drain.presses = <<>> => wire = <<>>
  BY Typed DEF DrainTypes
<1>2. Cost(c, Drain) + Len(Drain.rest) = Len(wire)
  BY DrainCounts
<1>3. Len(Drain.presses) = 0
  <2> DEFINE x == Len(Drain.presses)
             y == Len(Drain.rest)
             z == Len(wire)
  <2>1. x \in Nat /\ y \in Nat /\ z \in Nat /\ z = x + y /\ z = 0 + y
    BY <1>1, <1>2, LenProperties
  <2> HIDE DEF x, y, z
  <2>2. x = 0
    BY <2>1
  <2>3. QED
    BY <2>2 DEF x
<1>4. wire = <<>> /\ Len(wire) = 0
  BY <1>1, <1>3
<1>5. /\ Len(Drain.rest) = 0 /\ Drain.rest = <<>>
  <2>1. Len(Drain.rest) = 0
    <3> DEFINE y == Len(Drain.rest)
    <3>1. y \in Nat /\ 0 = 0 + y
      BY <1>1, <1>2, <1>4, LenProperties
    <3> HIDE DEF y
    <3>2. y = 0
      BY <3>1
    <3>3. QED
      BY <3>2 DEF y
  <2>2. QED
    BY <1>1, <2>1
<1>6. Drain.words = <<>> /\ Drain.resume = NoKey
  <2> DEFINE x == Len(Drain.words)
             y == Len(Optional(Drain.resume))
  <2>1. /\ x \in Nat /\ y \in Nat /\ 0 = x + y + 0
        /\ Drain.resume # NoKey => y = 1
    <3>1. Len(wire) = x + y + Len(Drain.rest) /\ x \in Nat
      BY DrainCounts
    <3>2. y \in Nat /\ (Drain.resume # NoKey => y = 1)
      BY Typed, OptionalLength DEF DrainTypes
    <3>3. QED
      BY <1>4, <1>5, <3>1, <3>2
  <2> HIDE DEF x, y
  <2>2. x = 0 /\ y = 0
    BY <2>1
  <2>3. QED
    BY <1>1, <2>1, <2>2 DEF x
<1>7. FollowedBy(Take(c, Drain)) = Followed
  <2>1. Late(c.resume, Drain) = {}
    BY <1>6 DEF Late
  <2>2. FollowedBy(Take(c, Drain)) = Followed \o (<<>> \o <<>>)
    BY <1>6, <2>1, TakeFollows, KeyTypes
  <2>3. <<>> \o <<>> = <<>> /\ Followed \in Seq(Char)
    BY Typed, FollowedTypes DEF Followed
  <2>4. QED
    BY <2>2, <2>3, ConcatEmptySeq
<1>8. QED
  BY <1>4, <1>5, <1>6, <1>7

LEMMA OutcomeTypes ==
  ASSUME NEW t \in Seq(Char), NEW s \in Seq(Char)
  PROVE  /\ In("from", Before) \o In("to", t \o s) \in Seq(Cell)
         /\ \A u \in Seq(Char) :
              In("from", Before) \o In("to", t \o (s \o u))
                = (In("from", Before) \o In("to", t \o s)) \o In("to", u)
<1> DEFINE b == In("from", Before)
<1>1. b \in Seq(Cell)
  BY CorrectionAssumption, InFields
<1> HIDE DEF b
<1>2. t \o s \in Seq(Char)
  BY ConcatProperties
<1>3. In("to", t \o s) \in Seq(Cell)
  BY <1>2, InFields
<1>4. ASSUME NEW u \in Seq(Char)
      PROVE  b \o In("to", t \o (s \o u)) = (b \o In("to", t \o s)) \o In("to", u)
  <2>1. t \o (s \o u) = (t \o s) \o u
    BY Rejoined
  <2>2. In("to", (t \o s) \o u) = In("to", t \o s) \o In("to", u)
    BY <1>2, InConcat
  <2>3. In("to", u) \in Seq(Cell)
    BY InFields
  <2>4. b \o (In("to", t \o s) \o In("to", u)) = (b \o In("to", t \o s)) \o In("to", u)
    BY <1>1, <1>3, <2>3, Rejoined, SMTT(30)
  <2>5. QED
    BY <2>1, <2>2, <2>4
<1>5. QED
  BY <1>1, <1>3, <1>4, ConcatProperties DEF b

LEMMA FrontOnly ==
  ASSUME NEW t \in Seq(Cell), Front(t), Len(t) = Len(Before)
  PROVE  t = In("from", Before)
<1> DEFINE b == In("from", Before)
<1>1. b \in Seq(Cell) /\ Len(b) = Len(Before) /\ DOMAIN Before = 1..Len(Before)
  BY CorrectionAssumption, InFields
<1>2. \A i \in 1..Len(Before) : t[i] = b[i]
  BY <1>1 DEF Front
<1> HIDE DEF b
<1>3. t = b
  BY <1>1, <1>2, SeqEqual
<1>4. QED
  BY <1>3 DEF b

\* What a window adds to the locals, whatever else the step does to them.
LEMMA DrainedFields ==
  ASSUME TypeOK, AbsorbProbe \/ DeleteProbe \/ FlushProbe \/ Sweep \/ IntrusionProbe
  PROVE  LET l == Take(c, Drain)
         IN  /\ c'.target = c.target /\ c'.tail = l.tail /\ c'.resume = l.resume
             /\ c'.postTail = c.postTail /\ c'.postResume = c.postResume
             /\ l.suspicious => c'.suspicious
<1> DEFINE l == Take(c, Drain)
           Extends(k) == /\ k.target = l.target /\ k.tail = l.tail /\ k.resume = l.resume
                         /\ k.postTail = l.postTail /\ k.postResume = l.postResume
                         /\ l.suspicious => k.suspicious
<1>1. l \in Locals
  BY Typed
<1>2. l.target = c.target /\ l.postTail = c.postTail /\ l.postResume = c.postResume
  BY TakeFields
<1>3. CASE AbsorbProbe \/ FlushProbe \/ Sweep
  BY <1>2, <1>3 DEF AbsorbProbe, FlushProbe, Sweep
<1>4. CASE DeleteProbe
  <2> DEFINE e == Cost(c, Drain)
  <2>1. c' = [l EXCEPT !.toDelete = e, !.round = @ + 1] \/ c' = Replaying(l)
    BY <1>4 DEF DeleteProbe
  <2> HIDE DEF l, e
  <2>2. CASE c' = [l EXCEPT !.toDelete = e, !.round = @ + 1]
    <3>1. Extends(c')
      BY <1>1, <2>2 DEF Locals
    <3>2. QED
      BY <1>2, <3>1 DEF l
  <2>3. CASE c' = Replaying(l)
    <3>1. Extends(c')
      BY <1>1, <2>3, ReplayingFields
    <3>2. QED
      BY <1>2, <3>1 DEF l
  <2>4. QED
    BY <2>1, <2>2, <2>3
<1>5. CASE IntrusionProbe
  <2>1. PICK n : LET k == [l EXCEPT !.intruders = n]
                 IN  \/ c' = k
                     \/ c' = [k EXCEPT !.repairs = @ - 1, !.toDelete = Repair(k)]
                     \/ c' = [k EXCEPT !.suspicious = TRUE]
    <3>1. LET k == [l EXCEPT !.intruders = l.intruders + Cost(c, Drain)]
          IN  \/ c' = k
              \/ c' = [k EXCEPT !.repairs = @ - 1, !.toDelete = Repair(k)]
              \/ c' = [k EXCEPT !.suspicious = TRUE]
      BY <1>5 DEF IntrusionProbe
    <3>2. QED
      BY <3>1
  <2> HIDE DEF l
  <2> DEFINE k == [l EXCEPT !.intruders = n]
             m == Repair(k)
  <2>2. /\ k \in [DOMAIN l -> {k[x] : x \in DOMAIN l}] /\ k.suspicious = l.suspicious
        /\ {"suspicious", "target", "tail", "resume", "postTail", "postResume"}
             \subseteq DOMAIN l
        /\ Extends(k)
    BY <1>1 DEF Locals
  <2>3. c' = k \/ c' = [k EXCEPT !.repairs = @ - 1, !.toDelete = m]
          \/ c' = [k EXCEPT !.suspicious = TRUE]
    BY <2>1
  <2> HIDE DEF k, m
  <2>4. Extends(c')
    <3>1. CASE c' = k
      BY <2>2, <3>1
    <3>2. CASE c' = [k EXCEPT !.repairs = @ - 1, !.toDelete = m]
      BY <2>2, <3>2
    <3>3. CASE c' = [k EXCEPT !.suspicious = TRUE]
      BY <2>2, <3>3
    <3>4. QED
      BY <2>3, <3>1, <3>2, <3>3
  <2>5. QED
    BY <1>2, <2>4 DEF l
<1>6. QED
  BY <1>3, <1>4, <1>5

\* A window that leaves no suspicion behind found none.
LEMMA DrainedClean ==
  ASSUME TypeOK, AbsorbProbe \/ DeleteProbe \/ FlushProbe \/ Sweep \/ IntrusionProbe,
         ~c'.suspicious
  PROVE  ~Take(c, Drain).suspicious /\ ~c.suspicious /\ ~Drain.suspicious
BY DrainedFields, TakeFields

LEMMA SlipsGrow ==
  ASSUME [Next]_vars, slips' = {}
  PROVE  slips = {}
BY DEF Next, Engine, vars, Press, LiftTrigger, DesktopPutsBack, WaitProbe, WaitGivesUp,
   WaitOver, PreflightFails, SwitchLayout, AbsorbProbe, AbsorbAborts, SwitchLost,
   StartBurst, DeleteOne, DeletedHeld, DeleteProbe, ReplayOne, ReplayDone, EmitFails,
   FlushProbe, Release, Sweep, IntrusionProbe, SettleProbe, Seed, HandleKey, Idle

\* What a step of the engine that drains nothing may do to the locals.
Steady ==
  /\ c'.target = c.target /\ c'.suspicious = c.suspicious
  /\ c'.postTail = c.postTail /\ c'.postResume = c.postResume

LEMMA SteadySteps ==
  ASSUME TypeOK,
         \/ UNCHANGED c
         \/ WaitGivesUp \/ WaitOver \/ PreflightFails \/ SwitchLayout \/ AbsorbAborts
         \/ SwitchLost \/ StartBurst \/ DeleteOne \/ DeletedHeld \/ ReplayOne
         \/ ReplayDone \/ EmitFails \/ Release \/ Seed \/ HandleKey
  PROVE  Steady
<1>1. CASE DeletedHeld
  BY <1>1, Typed, ReplayingFields DEF DeletedHeld, Steady
<1>2. CASE ~DeletedHeld
  BY <1>2, Typed DEF Steady, Locals, WaitGivesUp, WaitOver, PreflightFails,
     SwitchLayout, AbsorbAborts, SwitchLost, StartBurst, DeleteOne, ReplayOne,
     ReplayDone, EmitFails, Release, Seed, HandleKey
<1>3. QED
  BY <1>1, <1>2

\* Suspicion is never dropped.
LEMMA SuspicionStays ==
  ASSUME TypeOK, [Next]_vars, ~c'.suspicious
  PROVE  ~c.suspicious
<1>1. CASE Steady
  BY <1>1 DEF Steady
<1>2. CASE AbsorbProbe \/ DeleteProbe \/ FlushProbe \/ Sweep \/ IntrusionProbe
  BY <1>2, DrainedClean
<1>3. CASE WaitProbe \/ SettleProbe
  BY <1>3, Typed DEF WaitProbe, SettleProbe, Locals
<1>4. QED
  BY <1>1, <1>2, <1>3, SteadySteps DEF Next, Engine, vars, Press, LiftTrigger,
     DesktopPutsBack, Idle

\* A run that is clean after a step was clean before it.
LEMMA StillClean ==
  ASSUME TypeOK, [Next]_vars, slips' = {}, ~c'.suspicious
  PROVE  slips = {} /\ ~c.suspicious
BY SlipsGrow, SuspicionStays

LEMMA PlainHistory ==
  ASSUME TypeOK, PlainTyping
  PROVE  typed \in Seq(Char)
<1>1. /\ typed \in Seq(Key) /\ DOMAIN typed = 1..Len(typed)
  BY Typed
<1>2. \A i \in 1..Len(typed) : typed[i] \in Char
  BY <1>1 DEF PlainTyping
<1>3. QED
  BY <1>1, <1>2

LEMMA PressExact ==
  ASSUME TypeOK, TypeOK', Placed, PlainWire, PlainTyping, Exact, NEW k \in Char, Press(k)
  PROVE  Exact'
<1> DEFINE one == <<k>>
<1>1. /\ UNCHANGED <<pc, held, c, result, layout>> /\ k \in Key /\ pc # "run"
      /\ screen' = (IF held THEN screen ELSE Struck(screen, layout, k))
      /\ typed' = Append(typed, k) /\ wire' = Append(wire, [key |-> k, shown |-> ~held])
  BY KeyTypes DEF Press
<1>2. Len(wire') = Len(wire) + 1 /\ wire' # <<>> /\ Len(wire) \in Nat
      /\ wire \in Seq(Sent) /\ wire' \in Seq(Sent) /\ typed \in Seq(Key)
      /\ typed \in Seq(Char) /\ screen \in Seq(Cell) /\ one \in Seq(Char) /\ one \in Seq(Key)
  <2>1. Len(wire') = Len(wire) + 1 /\ Len(wire) \in Nat
    BY <1>1, Pressed, Numbers
  <2>2. Len(wire') # 0
    BY <2>1
  <2>3. wire' # <<>>
    BY <2>2
  <2>4. QED
    BY <1>1, <2>1, <2>3, Typed, PlainHistory DEF TypeOK, Sent
<1>3. typed' = typed \o one
  BY <1>1, <1>2, AppendIsConcat
<1>4. Keys(wire') = Keys(wire) \o one /\ Keys(wire) \in Seq(Key)
  <2> DEFINE v == <<[key |-> k, shown |-> ~held]>>
  <2>1. v \in Seq(Sent) /\ wire' = wire \o v /\ Keys(v) = one
    <3>1. held \in BOOLEAN /\ [key |-> k, shown |-> ~held] \in Sent
      BY <1>1, Typed DEF Sent
    <3>2. wire' = wire \o v
      BY <1>1, <1>2, <3>1, AppendIsConcat
    <3>3. Keys(v) = one
      BY DEF Keys
    <3>4. QED
      BY <3>1, <3>2, <3>3
  <2> HIDE DEF v, one
  <2>2. \A x \in Sent : x.key \in Key
    BY DEF Sent
  <2>3. Keys(wire \o v) = Keys(wire) \o Keys(v) /\ Keys(wire) \in Seq(Key)
    BY <1>2, <2>1, <2>2, KeysConcat, KeysFields
  <2>4. QED
    BY <2>1, <2>3
<1>5. Unshown' => held /\ Unshown
  BY <1>1, Pressed DEF Unshown
<1>6. Shown' => ~held /\ Shown
  BY <1>1, Pressed DEF Shown
<1>7. ~held => screen' = screen \o In(layout, one) /\ Len(screen') = Len(screen) + 1
  <2>1. (~held => screen' = screen \o In(layout, one)) /\ In(layout, one) \in Seq(Cell)
        /\ Len(In(layout, one)) = 1
    <3>1. Len(one) = 1 /\ layout \in {"from", "to"}
      BY Typed
    <3>2. In(layout, one) \in Seq(Cell) /\ Len(In(layout, one)) = 1
      BY <1>2, <3>1, InFields
    <3>3. ~held => screen' = screen \o In(layout, one)
      BY <1>1 DEF Struck
    <3>4. QED
      BY <3>2, <3>3
  <2> HIDE DEF one
  <2>2. Len(screen \o In(layout, one)) = Len(screen) + 1
    <3>1. screen \in Seq(Cell)
      BY <1>2
    <3>2. Len(screen \o In(layout, one)) = Len(screen) + Len(In(layout, one))
      BY <2>1, <3>1, ConcatProperties
    <3>3. QED
      BY <2>1, <3>2
  <2>3. QED
    BY <2>1, <2>2
<1> HIDE DEF one
<1>8. Followed' = Followed /\ Followed \in Seq(Char) /\ Followed \in Seq(Key)
  BY <1>1, Typed, FollowedTypes, KeyTypes DEF Followed
<1>9. pc \notin Late3 => typed' = Followed' \o Keys(wire')
  <2>1. Followed \o (Keys(wire) \o one) = (Followed \o Keys(wire)) \o one
    <3>1. Followed \in Seq(Key) /\ Keys(wire) \in Seq(Key) /\ one \in Seq(Key)
      BY <1>2, <1>4, <1>8
    <3>2. QED
      BY <3>1, Rejoined
  <2>2. QED
    BY <1>3, <1>4, <1>8, <2>1 DEF Exact
<1>10. c' \in Locals /\ held' \in BOOLEAN /\ wire' \in Seq(Sent) /\ Len(screen) \in Nat
       /\ Len(Before) \in Nat
  BY <1>2, Numbers DEF TypeOK
<1>11. pc \in Early \/ (pc \in {"delete", "replay", "probe"} /\ ~held)
         => Len(screen') = Len(Before) + Owed'
  <2>1. ASSUME pc \in Early \/ (pc \in {"delete", "replay", "probe"} /\ ~held)
        PROVE  Len(screen') = Len(screen) + 1 /\ Len(screen) = Len(Before) + Owed
    BY <1>7, <2>1 DEF Exact, Placed
  <2>2. ASSUME pc \in Early \/ (pc \in {"delete", "replay", "probe"} /\ ~held)
        PROVE  Owed' = Owed + 1 /\ Owed \in Int
    <3>1. CASE pc \in Early
      BY <1>1, <1>2, <1>10, <3>1, OwedNow, OwedThen, Numbers
    <3>2. CASE pc = "delete" /\ ~held
      <4> DEFINE a == c.toDelete
                 n == Len(wire)
                 m == Len(wire')
      <4>1. Owed = a + n /\ Owed' = a + m
        BY <1>1, <1>10, <3>2, OwedNow, OwedThen
      <4>2. a \in Int /\ n \in Nat /\ m = n + 1
        BY <1>2, Numbers
      <4> HIDE DEF a, n, m
      <4>3. QED
        BY <4>1, <4>2
    <3>3. CASE pc = "replay" /\ ~held
      <4> DEFINE a == c.emitted - Len(c.out)
                 n == Len(wire)
                 m == Len(wire')
      <4>1. Owed = a + n /\ Owed' = a + m
        BY <1>1, <1>10, <3>3, OwedNow, OwedThen
      <4>2. a \in Int /\ n \in Nat /\ m = n + 1
        BY <1>2, Numbers
      <4> HIDE DEF a, n, m
      <4>3. QED
        BY <4>1, <4>2
    <3>4. CASE pc = "probe"
      <4> DEFINE a == c.emitted + c.intruders
                 n == Len(wire)
                 m == Len(wire')
      <4>1. Owed = a + n /\ Owed' = a + m
        BY <1>1, <1>10, <3>4, OwedNow, OwedThen
      <4>2. a \in Int /\ n \in Nat /\ m = n + 1
        BY <1>2, Numbers
      <4> HIDE DEF a, n, m
      <4>3. QED
        BY <4>1, <4>2
    <3>5. QED
      BY <2>2, <3>1, <3>2, <3>3, <3>4
  <2>3. QED
    BY <1>10, <2>1, <2>2
<1>12. pc = "delete" /\ held /\ Unshown' => Len(screen') = Len(Before) + Owed'
  BY <1>1, <1>5, <1>10, OwedNow, OwedThen DEF Exact
<1>13. pc \in Late3 /\ result # "false" /\ Shown' => screen' = Outcome(typed')
  <2> SUFFICES ASSUME pc \in Late3, result # "false", Shown'
               PROVE  screen' = Outcome(typed')
    OBVIOUS
  <2>1. ~held /\ Shown /\ layout = "to"
    BY <1>1, <1>6 DEF Late3, Placed
  <2>2. screen = Outcome(typed)
    BY <2>1 DEF Exact
  <2>3. screen' = Outcome(typed) \o In("to", one)
    BY <1>7, <2>1, <2>2
  <2>4. Outcome(typed') = In("from", Before) \o In("to", c.target \o (typed \o one))
    BY <1>1, <1>3 DEF Outcome
  <2>5. c.target \in Seq(Char)
    BY Typed
  <2>6. QED
    BY <1>2, <2>3, <2>4, <2>5, OutcomeTypes DEF Outcome
<1>14. \A keys : Outcome(keys)' = Outcome(keys)
  BY <1>1 DEF Outcome
<1>15. pc = "replay" /\ (IF held THEN Unshown' ELSE wire' = <<>>)
         => screen' \o In("to", c'.out) = In("from", Before) \o In("to", c.target \o Followed)
  BY <1>1, <1>2, <1>5 DEF Exact, Outcome
<1>16. pc \in {"flush", "release", "sweep"} /\ Unshown'
         => screen' = In("from", Before) \o In("to", c.target \o Followed)
  BY <1>1, <1>5 DEF Exact, Outcome
<1>17. QED
  BY <1>1, <1>2, <1>8, <1>9, <1>11, <1>12, <1>13, <1>15, <1>16 DEF Exact, Outcome

LEMMA SameExact ==
  ASSUME Exact, UNCHANGED <<pc, screen, wire, typed, held, c, result>>
  PROVE  Exact'
<1>1. Followed' = Followed /\ Owed' = Owed /\ Unshown' = Unshown /\ Shown' = Shown
  BY DEF Followed, Owed, Unshown, Shown
<1>2. Outcome(Followed)' = Outcome(Followed) /\ Outcome(typed)' = Outcome(typed)
  BY <1>1 DEF Outcome
<1>3. QED
  BY <1>1, <1>2 DEF Exact

LEMMA EarlyExact ==
  ASSUME TypeOK, TypeOK', Placed, PlainWire, Exact, slips' = {}, ~c'.suspicious,
         \/ LiftTrigger \/ DesktopPutsBack \/ WaitProbe \/ WaitGivesUp \/ WaitOver
         \/ PreflightFails \/ SwitchLayout \/ AbsorbProbe \/ AbsorbAborts \/ SwitchLost
         \/ StartBurst
  PROVE  Exact'
<1>1. c' \in Locals /\ held' \in BOOLEAN /\ wire' \in Seq(Sent)
  BY DEF TypeOK, Sent
<1>2. ASSUME pc' \in Early, typed' = Followed' \o Keys(wire'),
             Len(screen') = Len(Before) + Owed'
      PROVE  Exact'
  BY <1>2 DEF Exact, Early, Late3
<1>3. pc \in Early => typed = Followed \o Keys(wire) /\ Len(screen) = Len(Before) + Owed
  BY DEF Exact, Early, Late3
<1>4. CASE LiftTrigger \/ DesktopPutsBack
  <2>1. UNCHANGED <<pc, screen, wire, typed, held, c, result>>
    BY <1>4 DEF LiftTrigger, DesktopPutsBack
  <2>2. QED
    BY <2>1, SameExact
<1>5. CASE WaitProbe
  <2>1. /\ pc \in Early /\ pc' \in Early /\ screen' = screen /\ typed' = typed
        /\ wire' = Drain.rest /\ c.resume = NoKey
        /\ c'.tail = c.tail \o Drain.words /\ c'.resume = Drain.resume
    BY <1>5, Typed DEF WaitProbe, Early, Locals
  <2>2. Len(Full(c')) + Len(wire') = Len(Full(c)) + Len(wire)
    BY <1>5, WaitCounts
  <2>3. Owed' = Owed
    BY <1>1, <2>1, <2>2, OwedNow, OwedThen
  <2> DEFINE d == Drain.words \o Optional(Drain.resume)
             t == Keys(Drain.rest)
  <2>4. Keys(wire) = d \o t /\ d \in Seq(Char) /\ t \in Seq(Key) /\ d \in Seq(Key)
    BY Splits, KeyTypes
  <2>5. Followed' = Followed \o d /\ Followed \in Seq(Key)
    <3>1. c \in Locals /\ Drain.words \in Seq(Char) /\ Drain.resume \in Separator \cup {NoKey}
      BY Typed, Splits
    <3>2. FollowedBy(c') = FollowedBy(c) \o d
      BY <1>1, <2>1, <3>1, FollowedGrows
    <3>3. QED
      BY <3>1, <3>2, FollowedTypes, KeyTypes DEF Followed
  <2> HIDE DEF d, t
  <2>6. Followed \o (d \o t) = (Followed \o d) \o t
    <3>1. Followed \in Seq(Key) /\ d \in Seq(Key) /\ t \in Seq(Key)
      BY <2>4, <2>5
    <3>2. QED
      BY <3>1, Rejoined
  <2>7. typed' = Followed' \o Keys(wire')
    BY <1>3, <2>1, <2>4, <2>5, <2>6 DEF t
  <2>8. QED
    BY <1>2, <1>3, <2>1, <2>3, <2>7
<1>6. CASE WaitGivesUp \/ PreflightFails \/ AbsorbAborts \/ SwitchLost
  <2>1. pc' = "run" /\ result' = "false"
    BY <1>6 DEF WaitGivesUp, PreflightFails, AbsorbAborts, SwitchLost, Return
  <2>2. QED
    BY <2>1 DEF Exact, Late3, Early
<1>7. CASE WaitOver \/ SwitchLayout
  <2>1. pc' \in Early /\ pc \in Early /\ UNCHANGED <<screen, typed, c, wire>>
    BY <1>7 DEF WaitOver, SwitchLayout, Early
  <2>2. Owed' = Owed /\ Followed' = Followed
    BY <1>1, <2>1, OwedNow, OwedThen DEF Followed
  <2>3. QED
    BY <1>2, <1>3, <2>1, <2>2
<1>8. CASE AbsorbProbe
  <2>1. /\ pc' \in Early /\ pc \in Early /\ c' = Take(c, Drain)
        /\ wire' = Drain.rest /\ Late(c.resume, Drain) = {} /\ UNCHANGED <<screen, typed>>
    BY <1>8 DEF AbsorbProbe, Early
  <2>2. ~Take(c, Drain).suspicious
    BY <2>1
  <2>3. Owed' = Owed
    <3> DEFINE f == Len(Full(c))
               e == Cost(c, Drain)
               x == Len(wire)
               y == Len(Drain.rest)
               z == Len(Full(Take(c, Drain)))
    <3>1. Owed = f + x /\ Owed' = z + y
      BY <1>1, <2>1, OwedNow, OwedThen
    <3>2. z = f + e /\ e + y = x
      BY <2>2, DrainCounts
    <3>3. f \in Nat /\ e \in Nat /\ y \in Nat
      BY Numbers, DrainCounts
    <3> HIDE DEF f, e, x, y, z
    <3>4. QED
      BY <3>1, <3>2, <3>3
  <2>4. Followed \o Keys(wire) = Followed' \o Keys(wire')
    BY <2>1, <2>2, TakeFollows DEF Followed
  <2>5. QED
    BY <1>2, <1>3, <2>1, <2>3, <2>4
<1>9. CASE StartBurst
  <2>1. /\ pc' = "delete" /\ pc \in Early /\ UNCHANGED <<screen, wire, typed>>
        /\ c'.toDelete = Len(Full(c)) /\ c'.tail = c.tail /\ c'.resume = c.resume
    BY <1>9, Typed DEF StartBurst, Early, Locals
  <2>2. Owed = Len(Full(c)) + Len(wire) /\ Followed' = Followed
    BY <2>1, OwedNow DEF Followed, FollowedBy
  <2>3. ~held' => Owed' = Owed
    BY <1>1, <2>1, <2>2, OwedThen
  <2>4. held' /\ Unshown' => Owed' = Owed
    <3> SUFFICES ASSUME held', Unshown' PROVE Owed' = Owed
      OBVIOUS
    <3>1. Shown /\ Unshown
      BY <2>1 DEF Placed, Unshown
    <3>2. Len(wire) = 0
      <4>1. wire \in Seq(Sent) /\ DOMAIN wire = 1..Len(wire) /\ Len(wire) \in Nat
        BY Typed
      <4>2. \A i \in 1..Len(wire) : FALSE
        BY <3>1, <4>1 DEF Shown, Unshown
      <4>3. QED
        BY <4>1, <4>2
    <3>3. Owed' = Len(Full(c))
      BY <1>1, <2>1, OwedThen
    <3>4. QED
      BY <2>2, <3>2, <3>3, Numbers
  <2>5. QED
    BY <1>3, <2>1, <2>2, <2>3, <2>4 DEF Exact, Early, Late3
<1>10. QED
  BY <1>4, <1>5, <1>6, <1>7, <1>8, <1>9

\* With nothing left to delete, what is about to be replayed completes the text.
LEMMA ReplayCompletes ==
  ASSUME NEW l \in Locals, l.target = c.target, Front(screen), screen \in Seq(Cell),
         Len(screen) = Len(Before)
  PROVE  screen \o In("to", Full(l)) = In("from", Before) \o In("to", c.target \o FollowedBy(l))
<1>1. Full(l) = c.target \o FollowedBy(l)
  BY FollowedTypes
<1>2. screen = In("from", Before)
  BY FrontOnly
<1>3. QED
  BY <1>1, <1>2

LEMMA DeleteOneExact ==
  ASSUME TypeOK, TypeOK', Placed, Front(screen), Exact, DeleteOne
  PROVE  Exact'
<1>1. c' \in Locals /\ held' \in BOOLEAN /\ wire' \in Seq(Sent)
  BY DEF TypeOK, Sent
<1>2. /\ pc = "delete" /\ pc' = "delete" /\ UNCHANGED <<wire, held, typed>>
      /\ screen' = RubOut(screen) /\ c.toDelete > 0 /\ c'.toDelete = c.toDelete - 1
      /\ c'.tail = c.tail /\ c'.resume = c.resume
  BY Typed DEF DeleteOne, Locals
<1>3. Followed' = Followed /\ Unshown' = Unshown
  BY <1>2 DEF Followed, FollowedBy, Unshown
<1>4. typed' = Followed' \o Keys(wire')
  BY <1>2, <1>3 DEF Exact, Late3
<1>5. ASSUME ~held \/ Unshown PROVE Len(screen') = Len(Before) + Owed'
  <2>1. Len(screen) = Len(Before) + Owed
    BY <1>2, <1>5, Numbers DEF Exact, Early
  <2> DEFINE a == IF held THEN 0 ELSE Len(wire)
             d == c.toDelete
  <2>2. a \in Nat /\ d \in Nat
    BY Numbers
  <2>3. Owed = d + a /\ Owed' = (d - 1) + a
    <3>1. CASE held
      BY <1>1, <1>2, <3>1, OwedNow, OwedThen, Numbers
    <3>2. CASE ~held
      BY <1>1, <1>2, <3>2, OwedNow, OwedThen
    <3>3. QED
      BY <3>1, <3>2, Numbers
  <2> HIDE DEF a, d
  <2>4. d > 0 /\ Len(Before) \in Nat /\ Len(screen) \in Nat
    BY <1>2, Numbers DEF d
  <2>5. Len(screen) > Len(Before)
    BY <2>1, <2>2, <2>3, <2>4
  <2>6. Len(screen') = Len(screen) - 1
    BY <1>2, <2>5, Typed, FrontKept
  <2>7. QED
    BY <2>1, <2>2, <2>3, <2>4, <2>6
<1>6. QED
  BY <1>2, <1>3, <1>4, <1>5 DEF Exact, Early, Late3

LEMMA DeletedHeldExact ==
  ASSUME TypeOK, TypeOK', Placed, Front(screen), Exact, DeletedHeld
  PROVE  Exact'
<1>1. /\ pc = "delete" /\ pc' = "replay" /\ held /\ UNCHANGED <<wire, held, typed, screen>>
      /\ c' = Replaying(c) /\ c.toDelete = 0
  BY DEF DeletedHeld
<1>2. /\ c'.target = c.target /\ c'.tail = c.tail /\ c'.resume = c.resume
      /\ c'.out = Full(c) /\ c'.emitted = Len(Full(c)) /\ Full(c') = Full(c)
  BY <1>1, Typed, ReplayingFields
<1>3. Followed' = Followed /\ Unshown' = Unshown
  BY <1>1, <1>2 DEF Followed, FollowedBy, Unshown
<1>4. typed' = Followed' \o Keys(wire')
  BY <1>1, <1>3 DEF Exact, Late3
<1>5. ASSUME Unshown PROVE screen' \o In("to", c'.out) = Outcome(Followed)'
  <2>1. Len(screen) = Len(Before) + Owed /\ Owed = 0
    BY <1>1, <1>5, OwedNow DEF Exact
  <2>2. Len(screen) = Len(Before)
    BY <2>1, Numbers
  <2>3. screen \o In("to", Full(c)) = Outcome(Followed)
    BY <2>2, Typed, ReplayCompletes DEF Outcome, Followed
  <2>4. QED
    BY <1>1, <1>2, <1>3, <2>3 DEF Outcome
<1>6. QED
  BY <1>1, <1>2, <1>3, <1>4, <1>5 DEF Exact, Early, Late3

LEMMA DeleteProbeExact ==
  ASSUME TypeOK, TypeOK', Placed, PlainWire, Front(screen), Exact, DeleteProbe,
         slips' = {}, ~c'.suspicious
  PROVE  Exact'
<1> DEFINE l == Take(c, Drain)
           e == Cost(c, Drain)
           x == Len(wire)
           y == Len(Drain.rest)
<1>1. c' \in Locals /\ held' \in BOOLEAN /\ wire' \in Seq(Sent) /\ l \in Locals
  BY Typed DEF TypeOK, Sent
<1>2. /\ pc = "delete" /\ c.toDelete = 0 /\ ~held /\ UNCHANGED <<held, typed, screen>>
      /\ wire' = Drain.rest /\ Late(c.resume, Drain) = {}
      /\ \/ pc' = "delete" /\ c' = [l EXCEPT !.toDelete = e, !.round = @ + 1]
         \/ pc' = "replay" /\ c' = Replaying(l) /\ ~(e > 0)
  BY DEF DeleteProbe
<1>3. e \in Nat /\ x \in Nat /\ y \in Nat
  BY Numbers, DrainCounts
<1>4. Len(screen) = Len(Before) + x
  <2>1. Len(screen) = Len(Before) + Owed /\ Owed = c.toDelete + Len(wire)
    BY <1>2, OwedNow DEF Exact
  <2>2. QED
    BY <1>2, <1>3, <2>1
<1>5. CASE pc' = "delete" /\ c' = [l EXCEPT !.toDelete = e, !.round = @ + 1]
  <2>1. /\ c'.tail = l.tail /\ c'.resume = l.resume /\ c'.toDelete = e
        /\ c'.suspicious = l.suspicious
    <3> HIDE DEF l, e
    <3>1. QED
      BY <1>1, <1>5 DEF Locals
  <2>2. ~Take(c, Drain).suspicious
    BY <2>1
  <2>3. Followed' = FollowedBy(l)
    BY <2>1 DEF Followed, FollowedBy
  <2>4. Followed \o Keys(wire) = FollowedBy(l) \o Keys(Drain.rest)
    BY <1>2, <2>2, TakeFollows
  <2>5. typed' = Followed' \o Keys(wire')
    BY <1>2, <2>3, <2>4 DEF Exact, Late3
  <2>6. Owed' = e + y /\ e + y = x
    BY <1>1, <1>2, <1>5, <2>1, <2>2, OwedThen, DrainCounts
  <2>7. Len(screen') = Len(Before) + Owed'
    BY <1>2, <1>4, <2>6
  <2>8. QED
    BY <1>2, <1>5, <2>5, <2>7 DEF Exact, Early, Late3
<1>6. CASE pc' = "replay" /\ c' = Replaying(l) /\ ~(e > 0)
  <2>1. /\ c'.target = l.target /\ c'.tail = l.tail /\ c'.resume = l.resume
        /\ c'.out = Full(l) /\ c'.emitted = Len(Full(l)) /\ Full(c') = Full(l)
        /\ c'.suspicious = l.suspicious
    BY <1>1, <1>6, ReplayingFields
  <2>2. ~Take(c, Drain).suspicious
    BY <2>1
  <2>3. e = 0
    BY <1>3, <1>6
  <2>4. /\ wire = <<>> /\ Drain.rest = <<>> /\ FollowedBy(l) = Followed /\ x = 0 /\ y = 0
    BY <2>2, <2>3, Nothing
  <2>5. Followed' = Followed
    BY <2>1, <2>4 DEF Followed, FollowedBy
  <2>6. typed' = Followed' \o Keys(wire')
    BY <1>2, <2>4, <2>5 DEF Exact, Late3
  <2>7. Len(screen) = Len(Before)
    BY <1>4, <2>4, Numbers
  <2>8. l.target = c.target /\ screen \in Seq(Cell)
    BY Typed, TakeFields
  <2>9. screen \o In("to", Full(l)) = In("from", Before) \o In("to", c.target \o FollowedBy(l))
    BY <1>1, <2>7, <2>8, ReplayCompletes
  <2>10. screen' \o In("to", c'.out) = Outcome(Followed)'
    BY <1>2, <2>1, <2>4, <2>5, <2>8, <2>9 DEF Outcome
  <2>11. Owed' = 0
    <3>1. Owed' = Len(Full(l)) - Len(Full(l)) + Len(Drain.rest)
      BY <1>1, <1>2, <1>6, <2>1, OwedThen
    <3>2. Len(Full(l)) \in Nat
      BY <1>1, FullLength
    <3>3. QED
      BY <2>4, <3>1, <3>2
  <2>12. Len(screen') = Len(Before) + Owed'
    BY <1>2, <2>7, <2>11, Numbers
  <2>13. QED
    BY <1>2, <1>6, <2>1, <2>6, <2>10, <2>12 DEF Exact, Early, Late3
<1>7. QED
  BY <1>2, <1>5, <1>6

LEMMA ReplayOneExact ==
  ASSUME TypeOK, TypeOK', Placed, Exact, ReplayOne
  PROVE  Exact'
<1>1. c' \in Locals /\ held' \in BOOLEAN /\ wire' \in Seq(Sent)
  BY DEF TypeOK, Sent
<1> DEFINE k == Head(c.out)
           one == <<k>>
           z == Tail(c.out)
<1>2. /\ pc = "replay" /\ pc' = "replay" /\ UNCHANGED <<held, wire, typed>>
      /\ c'.out = z /\ c'.emitted = c.emitted
      /\ c.out \in Seq(Char) /\ c.out # <<>>
      /\ screen' = Struck(screen, layout, k) /\ layout = "to"
      /\ c'.target = c.target /\ c'.tail = c.tail /\ c'.resume = c.resume
  BY Typed DEF ReplayOne, Locals, Placed
<1>3. /\ k \in Char /\ Len(z) = Len(c.out) - 1 /\ z \in Seq(Char) /\ one \in Seq(Char)
      /\ c.out = one \o z
  BY <1>2, HeadTailProperties
<1>4. screen' = screen \o In("to", one)
  BY <1>2, <1>3 DEF Struck
<1> HIDE DEF k, one, z
<1>5. /\ Followed' = Followed /\ Unshown' = Unshown /\ Full(c') = Full(c)
      /\ Outcome(Followed)' = Outcome(Followed)
  BY <1>2 DEF Followed, FollowedBy, Unshown, Full, Outcome
<1>6. typed' = Followed' \o Keys(wire')
  BY <1>2, <1>5 DEF Exact, Late3
<1>7. ~held => Len(screen') = Len(Before) + Owed'
  <2> SUFFICES ASSUME ~held PROVE Len(screen') = Len(Before) + Owed'
    OBVIOUS
  <2> DEFINE m == c.emitted
             x == Len(c.out)
             y == Len(z)
             w == Len(wire)
  <2>1. Len(screen) = Len(Before) + Owed /\ Owed = m - x + w
    BY <1>2, OwedNow DEF Exact
  <2>2. Owed' = m - y + w /\ y = x - 1
    BY <1>1, <1>2, <1>3, OwedThen
  <2>3. m \in Nat /\ x \in Nat /\ w \in Nat /\ Len(Before) \in Nat
    BY Numbers
  <2>4. Len(screen') = Len(screen) + 1
    BY <1>2, <1>3, Typed, PlainStrike
  <2> HIDE DEF m, x, y, w
  <2>5. QED
    BY <2>1, <2>2, <2>3, <2>4
<1>8. screen' \o In("to", c'.out) = screen \o In("to", c.out)
  <2>1. In("to", one \o z) = In("to", one) \o In("to", z)
    BY <1>3, InConcat
  <2>2. In("to", one) \in Seq(Cell) /\ In("to", z) \in Seq(Cell) /\ screen \in Seq(Cell)
    BY <1>3, InFields, Typed
  <2>3. screen \o (In("to", one) \o In("to", z)) = (screen \o In("to", one)) \o In("to", z)
    BY <2>2, Rejoined
  <2>4. QED
    BY <1>2, <1>3, <1>4, <2>1, <2>3
<1>9. QED
  BY <1>2, <1>5, <1>6, <1>7, <1>8 DEF Exact, Early, Late3

LEMMA ReplayDoneExact ==
  ASSUME TypeOK, TypeOK', Placed, Exact, ReplayDone, ~c'.suspicious
  PROVE  Exact'
<1>1. c' \in Locals /\ held' \in BOOLEAN /\ wire' \in Seq(Sent)
  BY DEF TypeOK, Sent
<1>2. /\ pc = "replay" /\ c.out = <<>> /\ UNCHANGED <<held, wire, screen, typed>>
      /\ pc' = IF held THEN "flush" ELSE IF c.suspicious THEN "settle" ELSE "probe"
      /\ c'.emitted = c.emitted /\ c'.intruders = 0 /\ c'.suspicious = c.suspicious
      /\ c'.target = c.target /\ c'.tail = c.tail /\ c'.resume = c.resume
  BY Typed DEF ReplayDone, Locals
<1>3. /\ Followed' = Followed /\ Unshown' = Unshown /\ Full(c') = Full(c)
      /\ Outcome(Followed)' = Outcome(Followed)
  BY <1>2 DEF Followed, FollowedBy, Unshown, Full, Outcome
<1>4. typed' = Followed' \o Keys(wire')
  BY <1>2, <1>3 DEF Exact, Late3
<1>5. screen \o In("to", c.out) = screen
  <2>1. In("to", c.out) = <<>>
    BY <1>2 DEF In
  <2>2. QED
    BY <2>1, Typed, ConcatEmptySeq
<1>6. CASE held
  BY <1>2, <1>3, <1>4, <1>5, <1>6 DEF Exact, Early, Late3
<1>7. CASE ~held
  <2>1. pc' = "probe"
    BY <1>2, <1>7
  <2>2. c'.emitted + c'.intruders = Len(Full(c'))
    BY <1>2, <1>3, Numbers DEF Exact
  <2>3. Len(screen') = Len(Before) + Owed'
    <3>1. Len(screen) = Len(Before) + Owed /\ Owed = c.emitted - Len(c.out) + Len(wire)
      BY <1>2, <1>7, OwedNow DEF Exact
    <3>2. Len(c.out) = 0
      BY <1>2
    <3>3. Owed' = c'.emitted + c'.intruders + Len(wire')
      BY <1>1, <2>1, OwedThen
    <3>4. Owed' = Owed
      BY <1>2, <3>1, <3>2, <3>3, Numbers
    <3>5. QED
      BY <1>2, <3>1, <3>4
  <2>4. QED
    BY <1>2, <1>3, <1>4, <1>5, <1>7, <2>1, <2>2, <2>3 DEF Exact, Early, Late3
<1>8. QED
  BY <1>6, <1>7, Numbers

\* What the gate kept is typed out behind the rest.
LEMMA TypesOut ==
  ASSUME TypeOK, PlainWire, ~Take(c, Drain).suspicious, Late(c.resume, Drain) = {},
         layout = "to", screen = Outcome(Followed)
  PROVE  TypeOut(screen, Drain)
           = In("from", Before) \o In("to", c.target \o FollowedBy(Take(c, Drain)))
<1> DEFINE d == Drain.words \o Optional(Drain.resume)
<1>1. d \in Seq(Char)
  BY Splits
<1>2. TypeOut(screen, Drain) = screen \o In("to", d)
  BY Typed, DrainFields, KeyTypes DEF DrainPlain, TypeOut
<1>3. FollowedBy(Take(c, Drain)) = Followed \o d
  BY TakeFollows
<1> HIDE DEF d
<1>4. Followed \in Seq(Char) /\ c.target \in Seq(Char)
  BY Typed, FollowedTypes DEF Followed
<1>5. In("from", Before) \o In("to", c.target \o (Followed \o d))
        = (In("from", Before) \o In("to", c.target \o Followed)) \o In("to", d)
  BY <1>1, <1>4, OutcomeTypes
<1>6. QED
  BY <1>2, <1>3, <1>5 DEF Outcome

LEMMA FlushExact ==
  ASSUME TypeOK, TypeOK', Placed, PlainWire, PlainTyping, Exact, FlushProbe \/ Sweep,
         slips' = {}, ~c'.suspicious
  PROVE  Exact'
<1> DEFINE l == Take(c, Drain)
<1>1. /\ pc \in {"flush", "sweep"} /\ layout = "to" /\ c' = l /\ typed' = typed
      /\ wire' = Drain.rest /\ pc' \in {"flush", "release", "settle"}
      /\ screen' = TypeOut(screen, Drain)
      /\ Late(c.resume, Drain) = {} /\ Raced = {}
  BY DEF FlushProbe, Sweep, Placed
<1>2. ~Take(c, Drain).suspicious
  BY <1>1
<1>3. Unshown
  BY <1>1 DEF Raced, Unshown
<1>4. screen = Outcome(Followed) /\ typed = Followed \o Keys(wire)
  BY <1>1, <1>3 DEF Exact, Late3
<1>5. screen' = In("from", Before) \o In("to", c.target \o FollowedBy(l))
  BY <1>1, <1>2, <1>4, TypesOut
<1>6. typed = FollowedBy(l) \o Keys(Drain.rest)
  BY <1>1, <1>2, <1>4, TakeFollows
<1>7. c'.target = c.target
  BY <1>1, TakeFields
<1>8. Followed' = FollowedBy(l)
  BY <1>1 DEF Followed
<1>9. Unshown'
  BY <1>1, <1>3, FromWire DEF Unshown
<1>10. Shown' => typed = FollowedBy(l)
  <2> SUFFICES ASSUME Shown' PROVE typed = FollowedBy(l)
    OBVIOUS
  <2>1. Drain.rest \in Seq(Sent) /\ DOMAIN Drain.rest = 1..Len(Drain.rest)
    BY Typed DEF DrainTypes
  <2>2. \A i \in 1..Len(Drain.rest) : FALSE
    BY <1>1, <1>9, <2>1 DEF Shown, Unshown
  <2>3. Drain.rest = <<>>
    BY <2>1, <2>2
  <2>4. Keys(Drain.rest) = <<>> /\ FollowedBy(l) \in Seq(Char)
    BY <2>3, Typed, FollowedTypes DEF Keys
  <2>5. QED
    BY <1>6, <2>4, ConcatEmptySeq
<1> HIDE DEF l
<1>11. QED
  BY <1>1, <1>5, <1>6, <1>7, <1>8, <1>10 DEF Exact, Early, Late3, Outcome

LEMMA ReleaseExact ==
  ASSUME Exact, Release
  PROVE  Exact'
<1>1. /\ pc = "release" /\ pc' = "sweep" /\ UNCHANGED <<wire, screen, typed, c, result>>
  BY DEF Release
<1>2. /\ Followed' = Followed /\ Unshown' = Unshown
      /\ Outcome(Followed)' = Outcome(Followed)
  BY <1>1 DEF Followed, Unshown, Outcome
<1>3. QED
  BY <1>1, <1>2 DEF Exact, Early, Late3

LEMMA ProbeExact ==
  ASSUME TypeOK, TypeOK', Placed, PlainWire, PlainTyping, Exact, IntrusionProbe,
         slips' = {}, ~c'.suspicious
  PROVE  Exact'
<1> DEFINE k == Take(c, Drain)
           e == Cost(c, Drain)
           m == c.emitted
           i == c.intruders
           x == Len(wire)
           y == Len(Drain.rest)
           l == [k EXCEPT !.intruders = i + e]
           q == Repair(l)
<1>1. c' \in Locals /\ held' \in BOOLEAN /\ wire' \in Seq(Sent) /\ k \in Locals
      /\ k.target = c.target /\ k.emitted = m /\ k.intruders = i
  BY Typed, TakeFields DEF TypeOK, Sent
<1>2. /\ pc = "probe" /\ ~held /\ UNCHANGED <<held, typed, screen, result>>
      /\ wire' = Drain.rest /\ Late(c.resume, Drain) = {}
      /\ \/ c' = l /\ pc' = "settle" /\ (l.suspicious \/ l.intruders = 0)
         \/ c' = l /\ pc' = "probe"
         \/ c' = [l EXCEPT !.repairs = @ - 1, !.toDelete = q] /\ pc' = "delete"
         \/ c' = [l EXCEPT !.suspicious = TRUE]
  BY <1>1 DEF IntrusionProbe, Placed
<1>3. /\ e \in Nat /\ x \in Nat /\ y \in Nat /\ m \in Nat /\ i \in Nat
      /\ Len(Full(c)) \in Nat /\ Len(Before) \in Nat
  BY Numbers, DrainCounts
<1>4. /\ l \in Locals /\ l.tail = k.tail /\ l.resume = k.resume /\ l.target = c.target
      /\ l.emitted = m /\ l.intruders = i + e /\ l.suspicious = k.suspicious
      /\ FollowedBy(l) = FollowedBy(k) /\ Full(l) = Full(k) /\ q = m + (i + e)
  <2>1. i + e \in Nat
    BY <1>3
  <2> HIDE DEF k, e, i, m
  <2>2. /\ l \in Locals /\ l.tail = k.tail /\ l.resume = k.resume /\ l.target = k.target
        /\ l.emitted = k.emitted /\ l.intruders = i + e /\ l.suspicious = k.suspicious
    BY <1>1, <2>1 DEF Locals
  <2> HIDE DEF l
  <2>3. QED
    BY <1>1, <2>2 DEF FollowedBy, Full, Repair, q
<1>5. screen = screen' /\ Len(screen) = Len(Before) + (m + i + x) /\ m + i = Len(Full(c))
      /\ typed = Followed \o Keys(wire)
  BY <1>2, OwedNow DEF Exact, Late3
<1> HIDE DEF l, q
<1>6. /\ c'.suspicious = l.suspicious /\ FollowedBy(c') = FollowedBy(l)
      /\ Full(c') = Full(l) /\ c'.target = l.target
  <2>1. CASE c' = l
    BY <2>1
  <2>2. CASE c' = [l EXCEPT !.repairs = @ - 1, !.toDelete = q]
    BY <1>4, <2>2 DEF Locals, FollowedBy, Full
  <2>3. CASE c' = [l EXCEPT !.suspicious = TRUE]
    <3>1. c'.suspicious
      BY <1>4, <2>3 DEF Locals
    <3>2. QED
      BY <3>1
  <2>4. QED
    BY <1>2, <2>1, <2>2, <2>3
<1>7. ~Take(c, Drain).suspicious /\ ~l.suspicious
  BY <1>4, <1>6
<1>8. /\ e + y = x /\ Len(Full(c')) = Len(Full(c)) + e
  BY <1>4, <1>6, <1>7, DrainCounts
<1>9. Followed' = FollowedBy(k)
  BY <1>4, <1>6 DEF Followed
<1>10. typed' = Followed' \o Keys(wire')
  BY <1>2, <1>5, <1>7, <1>9, TakeFollows
<1>11. ASSUME i + e = 0
       PROVE  /\ wire = <<>> /\ wire' = <<>> /\ Followed' = Followed
              /\ screen = Outcome(Followed) /\ typed = Followed
  <2>1. i = 0 /\ e = 0
    BY <1>3, <1>11
  <2>2. wire = <<>> /\ Drain.rest = <<>> /\ FollowedBy(k) = Followed
    BY <1>7, <2>1, Nothing
  <2>3. screen = Outcome(Followed)
    BY <1>2, <2>1, <2>2 DEF Exact
  <2>4. Keys(wire) = <<>> /\ Followed \in Seq(Char)
    BY <2>2, Typed, FollowedTypes DEF Keys, Followed
  <2>5. Followed \o <<>> = Followed
    BY <2>4, ConcatEmptySeq
  <2>6. QED
    BY <1>2, <1>5, <1>9, <2>2, <2>3, <2>4, <2>5
<1>12. CASE c' = l /\ pc' = "settle" /\ (l.suspicious \/ l.intruders = 0)
  <2>1. i + e = 0
    BY <1>4, <1>7, <1>12
  <2>2. screen' = Outcome(typed)'
    BY <1>2, <1>4, <1>6, <1>11, <2>1 DEF Outcome
  <2>3. QED
    BY <1>12, <2>2 DEF Exact, Early, Late3
<1>13. CASE c' = l /\ pc' = "probe"
  <2>1. c'.emitted + c'.intruders = m + (i + e)
    BY <1>4, <1>13
  <2>2. Owed' = m + (i + e) + y
    BY <1>1, <1>2, <1>13, <2>1, OwedThen
  <2> HIDE DEF k, e, m, i, x, y
  <2>3. m + (i + e) + y = m + i + x /\ m + (i + e) = Len(Full(c'))
    BY <1>3, <1>5, <1>8
  <2>4. Len(screen') = Len(Before) + Owed'
    BY <1>5, <2>2, <2>3
  <2>5. c'.intruders = 0 => screen' = Outcome(Followed)'
    BY <1>2, <1>4, <1>6, <1>11, <1>13 DEF Outcome
  <2>6. QED
    BY <1>10, <1>13, <2>1, <2>3, <2>4, <2>5 DEF Exact, Early, Late3
<1>14. CASE c' = [l EXCEPT !.repairs = @ - 1, !.toDelete = q] /\ pc' = "delete"
  <2>1. c'.toDelete = q
    BY <1>4, <1>14 DEF Locals
  <2>2. Owed' = m + (i + e) + y
    BY <1>1, <1>2, <1>4, <1>14, <2>1, OwedThen
  <2> HIDE DEF k, e, m, i, x, y
  <2>3. m + (i + e) + y = m + i + x
    BY <1>3, <1>8
  <2>4. Len(screen') = Len(Before) + Owed'
    BY <1>5, <2>2, <2>3
  <2>5. QED
    BY <1>2, <1>10, <1>14, <2>4 DEF Exact, Early, Late3
<1>15. ~(c' = [l EXCEPT !.suspicious = TRUE])
  BY <1>4 DEF Locals
<1>16. QED
  BY <1>2, <1>12, <1>13, <1>14, <1>15

LEMMA LateExact ==
  ASSUME TypeOK, TypeOK', Placed, PlainWire, Exact, slips' = {}, ~c'.suspicious,
         SettleProbe \/ Seed \/ HandleKey
  PROVE  Exact'
<1>1. /\ pc \in Late3 /\ pc' \in Late3 /\ UNCHANGED <<screen, typed>>
      /\ c'.target = c.target /\ (result' # "false" => result # "false")
  BY Typed DEF SettleProbe, Seed, HandleKey, Return, Late3, Locals, Placed
<1>2. Shown' => Shown
  <2>1. CASE SettleProbe
    <3>1. wire' = Drain.rest /\ Swallowed(Drain) = {}
      BY <2>1 DEF SettleProbe
    <3>2. \A i \in DOMAIN Drain.presses :
            Drain.presses[i].key \in Char => Drain.presses[i].shown
      BY <3>1 DEF Swallowed
    <3>3. QED
      BY <3>1, <3>2, FromWire DEF Shown, PlainWire
  <2>2. CASE Seed
    BY <2>2 DEF Seed, Shown
  <2>3. CASE HandleKey
    <3>1. wire' = Tail(wire) /\ wire # <<>> /\ wire \in Seq(Sent)
          /\ Swallowed([presses |-> <<Head(wire)>>]) = {}
      BY <2>3, Typed DEF HandleKey
    <3>2. Head(wire).key \in Char => Head(wire).shown
      BY <3>1 DEF Swallowed
    <3>3. /\ Head(wire) = wire[1] /\ 1 \in DOMAIN wire
          /\ \A i \in DOMAIN wire : i = 1 \/ (i - 1 \in DOMAIN Tail(wire)
                                               /\ Tail(wire)[i - 1] = wire[i])
      BY <3>1
    <3>4. QED
      BY <3>1, <3>2, <3>3 DEF Shown, PlainWire
  <2>4. QED
    BY <2>1, <2>2, <2>3
<1>3. Outcome(typed)' = Outcome(typed)
  BY <1>1 DEF Outcome
<1>4. QED
  BY <1>1, <1>2, <1>3 DEF Exact, Early, Late3

LEMMA InitExact == Init => Exact
<1> SUFFICES ASSUME Init PROVE Exact
  OBVIOUS
<1>1. /\ wire = <<>> /\ typed = <<>> /\ c.tail = <<>> /\ c.resume = NoKey /\ pc = "wait"
  BY InitTexts
<1>2. typed = Followed \o Keys(wire)
  BY <1>1, KeyTypes DEF Followed, FollowedBy, Keys
<1>3. Len(screen) = Len(Before) + Owed
  <2> DEFINE b == In("from", Before)
             t == In("from", c.target)
  <2>1. /\ b \in Seq(Cell) /\ Len(b) = Len(Before) /\ t \in Seq(Cell) /\ Len(t) = Len(c.target)
    BY InitTexts, InFields
  <2> HIDE DEF b, t
  <2>2. screen = b \o t
    BY InitTexts DEF b, t
  <2>3. Len(screen) = Len(b) + Len(t)
    BY <2>1, <2>2, ConcatProperties
  <2>4. QED
    BY <2>1, <2>3, InitOwed
<1>4. QED
  BY <1>1, <1>2, <1>3 DEF Exact, Early, Late3

LEMMA ChronicleKept ==
  ASSUME TypeOK, TypeOK', Placed, Counted, Chronicle, [Next]_vars
  PROVE  Chronicle'
<1> SUFFICES ASSUME PlainTyping', slips' = {}, ~c'.suspicious PROVE Exact'
  BY DEF Chronicle
<1>1. PlainTyping /\ PlainWire /\ Front(screen) /\ Exact
  BY StillPlain, StillClean DEF Counted, Chronicle
<1>2. CASE \E k \in Key : Press(k)
  <2>1. PICK k \in Key : Press(k)
    BY <1>2
  <2>2. k \in Char
    <3>1. typed' = Append(typed, k) /\ typed \in Seq(Key)
      BY <2>1, Typed DEF Press
    <3>2. Len(typed') \in DOMAIN typed' /\ typed'[Len(typed')] = k
      BY <3>1
    <3>3. QED
      BY <3>2 DEF PlainTyping
  <2>3. QED
    BY <1>1, <2>1, <2>2, PressExact
<1>3. CASE \/ LiftTrigger \/ DesktopPutsBack \/ WaitProbe \/ WaitGivesUp \/ WaitOver
           \/ PreflightFails \/ SwitchLayout \/ AbsorbProbe \/ AbsorbAborts \/ SwitchLost
           \/ StartBurst
  BY <1>1, <1>3, EarlyExact
<1>4. CASE DeleteOne \/ DeletedHeld
  BY <1>1, <1>4, DeleteOneExact, DeletedHeldExact
<1>5. CASE DeleteProbe
  BY <1>1, <1>5, DeleteProbeExact
<1>6. CASE ReplayOne \/ ReplayDone
  BY <1>1, <1>6, ReplayOneExact, ReplayDoneExact
<1>7. CASE EmitFails
  BY <1>7 DEF EmitFails
<1>8. CASE FlushProbe \/ Sweep
  BY <1>1, <1>8, FlushExact
<1>9. CASE Release
  BY <1>1, <1>9, ReleaseExact
<1>10. CASE IntrusionProbe
  BY <1>1, <1>10, ProbeExact
<1>11. CASE SettleProbe \/ Seed \/ HandleKey
  BY <1>1, <1>11, LateExact
<1>12. CASE Idle \/ UNCHANGED vars
  <2>1. UNCHANGED <<pc, screen, wire, typed, held, c, result>>
    BY <1>12 DEF Idle, vars
  <2>2. QED
    BY <1>1, <2>1, SameExact
<1>13. QED
  BY <1>2, <1>3, <1>4, <1>5, <1>6, <1>7, <1>8, <1>9, <1>10, <1>11, <1>12 DEF Next, Engine

-----------------------------------------------------------------------------
IInv == TypeOK /\ Placed /\ Counted /\ Untouched /\ Chronicle

LEMMA InitIInv == Init => IInv
  BY InitTypes, InitPlaced, InitCounted, InitUntouched, InitExact DEF IInv, Chronicle

LEMMA IInvKept == IInv /\ [Next]_vars => IInv'
<1> SUFFICES ASSUME IInv, [Next]_vars PROVE IInv'
  OBVIOUS
<1>1. TypeOK /\ Placed /\ Counted /\ Untouched /\ Chronicle
  BY DEF IInv
<1>2. TypeOK'
  BY <1>1, TypesKept
<1>3. Placed'
  BY <1>1, PlacedKept
<1>4. Counted'
  BY <1>1, <1>2, CountedKept
<1>5. Untouched'
  BY <1>1, <1>2, <1>3, UntouchedKept
<1>6. Chronicle'
  BY <1>1, <1>2, ChronicleKept
<1>7. QED
  BY <1>2, <1>3, <1>4, <1>5, <1>6 DEF IInv

LEMMA CorrectionInvariant == Spec => []IInv
<1>1. Init => IInv
  BY InitIInv
<1>2. IInv /\ [Next]_vars => IInv'
  BY IInvKept
<1>3. QED
  BY <1>1, <1>2, PTL DEF Spec

\* The locals of apply_correction(), the channel and the buffer keep their
\* types through every interleaving of the burst with the user's presses.
THEOREM CorrectionTypes == Spec => []TypeOK
<1>1. IInv => TypeOK
  BY DEF IInv
<1>2. QED
  BY <1>1, CorrectionInvariant, PTL

\* However many presses land between the backspaces, rounds and repairs of a
\* correction, none of its deletions reaches the text in front of the word.
THEOREM TextInFrontIsSafe == Spec => []BeforeUntouched
<1>1. IInv => BeforeUntouched
  <2> SUFFICES ASSUME IInv, PlainTyping
               PROVE  Len(screen) >= Len(Before) /\ SubSeq(Keys(screen), 1, Len(Before)) = Before
    BY DEF BeforeUntouched
  <2> DEFINE n == Len(Before)
             x == Keys(screen)
  <2>1. TypeOK /\ Front(screen) /\ screen \in Seq(Cell)
    BY Typed DEF IInv, Counted
  <2>2. /\ Before \in Seq(Char) /\ n \in Nat /\ DOMAIN Before = 1..n /\ Len(screen) \in Nat
    BY <2>1, CorrectionAssumption
  <2>3. Len(screen) >= n /\ \A i \in 1..n : screen[i] = [key |-> Before[i], layout |-> "from"]
    BY <2>1, <2>2, InFields DEF Front
  <2>4. \A y \in Cell : y.key \in Char
    BY DEF Cell
  <2>5. /\ x \in Seq(Char) /\ Len(x) = Len(screen)
        /\ \A i \in 1..Len(screen) : x[i] = screen[i].key
    BY <2>1, <2>4, KeysFields
  <2>6. ASSUME NEW i \in 1..n PROVE Before[i] \in Char
    BY <2>2, ElementOfSeq
  <2> HIDE DEF n, x
  <2>7. \A i \in 1..n : i \in 1..Len(screen) /\ x[i] = Before[i] /\ x[i] \in Char
    <3>1. ASSUME NEW i \in 1..n PROVE i \in 1..Len(screen) /\ x[i] = Before[i] /\ x[i] \in Char
      <4>1. i \in 1..Len(screen)
        BY <2>2, <2>3
      <4>2. screen[i].key = Before[i]
        <5>1. screen[i] = [key |-> Before[i], layout |-> "from"]
          BY <2>3
        <5>2. QED
          BY <5>1
      <4>3. Before[i] \in Char
        BY <2>6
      <4>4. QED
        BY <2>5, <4>1, <4>2, <4>3
    <3>2. QED
      BY <3>1
  <2>8. /\ SubSeq(x, 1, n) \in Seq(Char) /\ Len(SubSeq(x, 1, n)) = n
        /\ \A i \in 1..n : SubSeq(x, 1, n)[i] = x[i]
    BY <2>2, <2>7, SubSeqProperties
  <2>9. Len(Before) = n
    BY DEF n
  <2>10. SubSeq(x, 1, n) = Before
    BY <2>2, <2>7, <2>8, <2>9, SeqEqual
  <2>11. QED
    BY <2>3, <2>10 DEF n, x
<1>2. QED
  BY <1>1, CorrectionInvariant, PTL

\* A correction that returns false has changed no character and lost none,
\* unless it was the emitter that failed.
THEOREM GivingUpIsHarmless == Spec => []AbortLeavesText
<1>1. IInv => AbortLeavesText
  BY DEF IInv, Untouched, AbortLeavesText
<1>2. QED
  BY <1>1, CorrectionInvariant, PTL

\* A correction that returns true and suspects nothing has typed the word and
\* everything pressed meanwhile again, once, in order and in the new layout.
THEOREM TypedAgainInOrder == Spec => []RetypedInOrder
<1>1. IInv => RetypedInOrder
  <2> SUFFICES ASSUME IInv, Over, result = "true", ~c.suspicious, PlainTyping, slips = {}
               PROVE  screen = In("from", Before) \o In("to", c.target \o typed)
    BY DEF RetypedInOrder
  <2>1. Exact
    BY DEF IInv, Chronicle
  <2>2. pc \in Late3 /\ Shown /\ result # "false"
    BY DEF Over, Late3, Shown
  <2>3. QED
    BY <2>1, <2>2 DEF Exact, Outcome
<1>2. QED
  BY <1>1, CorrectionInvariant, PTL
-----------------------------------------------------------------------------
(* The text behind the channel: what the presses on it did to it. *)

Strike(t, k) ==
  IF k \in Char THEN Append(t, k) ELSE IF k = Backspace THEN RubOut(t) ELSE t

\* The presses w, one after the other, made u of t.
Leads(w, t, u) ==
  \E S \in [0..Len(w) -> Seq(Char)] :
    /\ S[0] = t /\ S[Len(w)] = u
    /\ \A i \in 1..Len(w) : S[i] = Strike(S[i - 1], w[i].key)

LEMMA StrikeTypes ==
  ASSUME NEW t \in Seq(Char), NEW k
  PROVE  Strike(t, k) \in Seq(Char)
BY RubbedOut DEF Strike

LEMMA LeadsNowhere ==
  ASSUME NEW t \in Seq(Char), NEW u
  PROVE  Leads(<<>>, t, u) <=> u = t
<1>1. Len(<<>>) = 0 /\ 1..0 = {}
  OBVIOUS
<1>2. ASSUME u = t PROVE Leads(<<>>, t, u)
  <2> DEFINE S == [i \in 0..0 |-> t]
  <2>1. S \in [0..0 -> Seq(Char)] /\ S[0] = t
    OBVIOUS
  <2>2. QED
    BY <1>1, <1>2, <2>1 DEF Leads
<1>3. ASSUME Leads(<<>>, t, u) PROVE u = t
  BY <1>1, <1>3 DEF Leads
<1>4. QED
  BY <1>2, <1>3

LEMMA LeadsTypes ==
  ASSUME NEW w \in Seq(Sent), NEW t, NEW u, Leads(w, t, u)
  PROVE  t \in Seq(Char) /\ u \in Seq(Char)
<1>1. Len(w) \in Nat /\ 0 \in 0..Len(w) /\ Len(w) \in 0..Len(w)
  OBVIOUS
<1>2. QED
  BY <1>1 DEF Leads

LEMMA LeadsPress ==
  ASSUME NEW w \in Seq(Sent), NEW t, NEW u, Leads(w, t, u), NEW p \in Sent
  PROVE  Leads(Append(w, p), t, Strike(u, p.key))
<1> DEFINE n == Len(w)
           x == Append(w, p)
           v == Strike(u, p.key)
<1>1. /\ n \in Nat /\ Len(x) = n + 1 /\ x[n + 1] = p
      /\ \A i \in 1..n : x[i] = w[i]
  OBVIOUS
<1>2. PICK S \in [0..n -> Seq(Char)] :
             S[0] = t /\ S[n] = u /\ \A i \in 1..n : S[i] = Strike(S[i - 1], w[i].key)
  BY DEF Leads
<1>3. v \in Seq(Char)
  BY LeadsTypes, StrikeTypes
<1> HIDE DEF n, x, v
<1> DEFINE R == [i \in 0..n + 1 |-> IF i <= n THEN S[i] ELSE v]
<1>4. R \in [0..n + 1 -> Seq(Char)] /\ R[0] = t /\ R[n + 1] = v
  <2>1. \A i \in 0..n + 1 : i <= n => i \in 0..n
    BY <1>1
  <2>2. 0 \in 0..n + 1 /\ n + 1 \in 0..n + 1 /\ ~(n + 1 <= n) /\ 0 <= n
    BY <1>1
  <2>3. QED
    BY <1>2, <1>3, <2>1, <2>2
<1>5. ASSUME NEW i \in 1..n + 1 PROVE R[i] = Strike(R[i - 1], x[i].key)
  <2>1. i \in 0..n + 1 /\ i - 1 \in 0..n + 1 /\ i - 1 <= n
    BY <1>1
  <2>2. CASE i <= n
    <3>1. i \in 1..n
      BY <1>1, <2>2
    <3>2. S[i] = Strike(S[i - 1], w[i].key) /\ x[i] = w[i]
      BY <1>1, <1>2, <3>1
    <3>3. R[i] = S[i] /\ R[i - 1] = S[i - 1]
      BY <2>1, <2>2
    <3>4. QED
      BY <3>2, <3>3
  <2>3. CASE ~(i <= n)
    <3>1. i = n + 1 /\ i - 1 = n
      BY <1>1, <2>3
    <3>2. R[i] = v /\ R[i - 1] = S[n] /\ x[i] = p
      BY <1>1, <2>1, <2>3, <3>1
    <3>3. QED
      BY <1>2, <3>2 DEF v
  <2>4. QED
    BY <2>2, <2>3
<1> HIDE DEF R
<1>6. QED
  BY <1>1, <1>4, <1>5 DEF Leads, x, v

LEMMA LeadsSplit ==
  ASSUME NEW x \in Seq(Sent), NEW y \in Seq(Sent), NEW t, NEW u, Leads(x \o y, t, u)
  PROVE  \E v \in Seq(Char) : Leads(x, t, v) /\ Leads(y, v, u)
<1> DEFINE n == Len(x)
           m == Len(y)
           w == x \o y
<1>1. /\ n \in Nat /\ m \in Nat /\ Len(w) = n + m
      /\ \A i \in 1..n + m : w[i] = IF i <= n THEN x[i] ELSE y[i - n]
  BY ConcatProperties
<1> HIDE DEF w
<1>2. PICK S \in [0..n + m -> Seq(Char)] :
             S[0] = t /\ S[n + m] = u
             /\ \A i \in 1..n + m : S[i] = Strike(S[i - 1], w[i].key)
  BY <1>1 DEF Leads, w
<1> HIDE DEF n, m
<1>3. S[n] \in Seq(Char)
  BY <1>1, <1>2
<1>4. Leads(x, t, S[n])
  <2> DEFINE R == [i \in 0..n |-> S[i]]
  <2>1. R \in [0..n -> Seq(Char)] /\ R[0] = t /\ R[n] = S[n]
    <3>1. \A i \in 0..n : i \in 0..n + m
      BY <1>1
    <3>2. 0 \in 0..n /\ n \in 0..n
      BY <1>1
    <3>3. QED
      BY <1>2, <3>1, <3>2
  <2>2. ASSUME NEW i \in 1..n PROVE R[i] = Strike(R[i - 1], x[i].key)
    <3>1. i \in 1..n + m /\ i <= n /\ i \in 0..n /\ i - 1 \in 0..n
      BY <1>1
    <3>2. S[i] = Strike(S[i - 1], w[i].key) /\ w[i] = x[i]
      BY <1>1, <1>2, <3>1
    <3>3. QED
      BY <3>1, <3>2
  <2> HIDE DEF R
  <2>3. QED
    BY <2>1, <2>2 DEF Leads, n
<1>5. Leads(y, S[n], u)
  <2> DEFINE R == [i \in 0..m |-> S[n + i]]
  <2>1. R \in [0..m -> Seq(Char)] /\ R[0] = S[n] /\ R[m] = u
    <3>1. \A i \in 0..m : n + i \in 0..n + m
      BY <1>1
    <3>2. 0 \in 0..m /\ m \in 0..m /\ n + 0 = n
      BY <1>1
    <3>3. QED
      BY <1>2, <3>1, <3>2
  <2>2. ASSUME NEW i \in 1..m PROVE R[i] = Strike(R[i - 1], y[i].key)
    <3>1. /\ n + i \in 1..n + m /\ ~(n + i <= n) /\ n + i - n = i
          /\ i \in 0..m /\ i - 1 \in 0..m /\ n + i - 1 = n + (i - 1)
      BY <1>1
    <3>2. S[n + i] = Strike(S[n + i - 1], w[n + i].key) /\ w[n + i] = y[i]
      BY <1>1, <1>2, <3>1
    <3>3. R[i] = S[n + i] /\ R[i - 1] = S[n + (i - 1)]
      BY <3>1
    <3>4. QED
      BY <3>1, <3>2, <3>3
  <2> HIDE DEF R
  <2>3. QED
    BY <2>1, <2>2 DEF Leads, m
<1>6. QED
  BY <1>3, <1>4, <1>5

\* Characters are appended.
LEMMA LeadsPlain ==
  ASSUME NEW w \in Seq(Sent), NEW t, NEW u, Leads(w, t, u), Keys(w) \in Seq(Char)
  PROVE  u = t \o Keys(w)
<1> DEFINE n == Len(w)
           d == Keys(w)
<1>1. /\ n \in Nat /\ Len(d) = n /\ d \in Seq(Char)
      /\ \A i \in 1..n : d[i] = w[i].key /\ d[i] \in Char
  <2>1. \A x \in Sent : x.key \in Key
    BY DEF Sent
  <2>2. Len(d) = n /\ \A i \in 1..n : d[i] = w[i].key
    BY <2>1, KeysFields
  <2>3. n \in Nat /\ d \in Seq(Char)
    OBVIOUS
  <2>4. QED
    BY <2>2, <2>3, ElementOfSeq
<1>2. PICK S \in [0..n -> Seq(Char)] :
             S[0] = t /\ S[n] = u /\ \A i \in 1..n : S[i] = Strike(S[i - 1], w[i].key)
  BY DEF Leads
<1> HIDE DEF n, d
<1>3. t \in Seq(Char)
  BY <1>1, <1>2
<1> DEFINE T == {i \in 0..n : S[i] = t \o Keep(d, i)}
<1>4. 0 \in T
  <2>1. Keep(d, 0) = <<>>
    BY <1>1 DEF Keep
  <2>2. QED
    BY <1>1, <1>2, <1>3, <2>1, ConcatEmptySeq
<1>5. ASSUME NEW i \in 1..n, i - 1 \in T PROVE i \in T
  <2>1. S[i - 1] = t \o Keep(d, i - 1) /\ d[i] \in Char /\ S[i] = Strike(S[i - 1], d[i])
    BY <1>1, <1>2, <1>5
  <2>2. S[i] = Append(t \o Keep(d, i - 1), d[i])
    BY <2>1 DEF Strike
  <2>3. Keep(d, i - 1) \in Seq(Char) /\ Append(Keep(d, i - 1), d[i]) = Keep(d, i)
    <3>1. i - 1 \in 0..Len(d) /\ i \in 0..Len(d)
      BY <1>1
    <3> DEFINE a == Keep(d, i - 1)
               b == Keep(d, i)
    <3>2. /\ a \in Seq(Char) /\ Len(a) = i - 1 /\ \A j \in 1..i - 1 : a[j] = d[j]
          /\ b \in Seq(Char) /\ Len(b) = i /\ \A j \in 1..i : b[j] = d[j]
      BY <1>1, <3>1, KeepFields
    <3> HIDE DEF a, b
    <3>3. Append(a, d[i]) = b
      <4> DEFINE z == Append(a, d[i])
      <4>1. /\ z \in Seq(Char) /\ Len(z) = i /\ z[i] = d[i]
            /\ \A j \in 1..i - 1 : z[j] = d[j]
        BY <1>1, <2>1, <3>2
      <4> HIDE DEF z
      <4>2. \A j \in 1..i : z[j] = b[j]
        <5>1. ASSUME NEW j \in 1..i PROVE j \in 1..i - 1 \/ j = i
          BY <1>1
        <5>2. QED
          BY <3>2, <4>1, <5>1
      <4>3. z = b
        BY <3>2, <4>1, <4>2, SeqEqual
      <4>4. QED
        BY <4>3 DEF z
    <3>4. QED
      BY <3>2, <3>3 DEF a, b
  <2>4. t \o Append(Keep(d, i - 1), d[i]) = Append(t \o Keep(d, i - 1), d[i])
    BY <1>3, <2>1, <2>3, ConcatAppend
  <2>5. i \in 0..n
    BY <1>1
  <2>6. QED
    BY <2>2, <2>3, <2>4, <2>5
<1>6. n \in T
  <2> HIDE DEF T
  <2>1. \A i \in 0..n : i \in T
    BY <1>1, <1>4, <1>5, StepByStep
  <2>2. QED
    BY <1>1, <2>1
<1>7. Keep(d, n) = d
  BY <1>1, SubSeqFull DEF Keep
<1>8. QED
  BY <1>2, <1>6, <1>7 DEF d

LEMMA LeadsOne ==
  ASSUME NEW p \in Sent, NEW t, NEW u, Leads(<<p>>, t, u)
  PROVE  u = Strike(t, p.key)
<1>1. Len(<<p>>) = 1 /\ <<p>>[1] = p /\ 1 \in 1..1 /\ 1 - 1 = 0
  OBVIOUS
<1>2. QED
  BY <1>1 DEF Leads

LEMMA KeysStruck ==
  ASSUME NEW t \in Seq(Cell), NEW lay \in {"from", "to"}, NEW k \in Key
  PROVE  Keys(Struck(t, lay, k)) = Strike(Keys(t), k) /\ Keys(t) \in Seq(Char)
<1>1. /\ Keys(t) \in Seq(Char) /\ Len(Keys(t)) = Len(t) /\ Len(t) \in Nat
      /\ \A i \in 1..Len(t) : Keys(t)[i] = t[i].key
  <2>1. \A x \in Cell : x.key \in Char
    BY DEF Cell
  <2>2. Len(t) \in Nat
    OBVIOUS
  <2>3. /\ Keys(t) \in Seq(Char) /\ Len(Keys(t)) = Len(t)
        /\ \A i \in 1..Len(t) : Keys(t)[i] = t[i].key
    BY <2>1, KeysFields
  <2>4. QED
    BY <2>2, <2>3
<1>2. CASE k \in Char
  <2> DEFINE u == In(lay, <<k>>)
  <2>1. <<k>> \in Seq(Char)
    BY <1>2
  <2>2. u \in Seq(Cell) /\ Keys(u) = <<k>>
    BY <2>1, InFields, KeysOfText
  <2> HIDE DEF u
  <2>3. \A x \in Cell : x.key \in Char
    BY DEF Cell
  <2>4. Keys(t \o u) = Keys(t) \o Keys(u)
    BY <2>2, <2>3, KeysConcat
  <2>5. Keys(t) \o <<k>> = Append(Keys(t), k)
    BY <1>1, <1>2, AppendIsConcat
  <2>6. QED
    BY <1>1, <1>2, <2>2, <2>4, <2>5 DEF Struck, Strike, u
<1>3. CASE k = Backspace
  <2>1. Struck(t, lay, k) = RubOut(t) /\ Strike(Keys(t), k) = RubOut(Keys(t))
    BY <1>3, CorrectionAssumption DEF Struck, Strike
  <2>2. CASE t = <<>>
    <3>1. Keys(t) = <<>>
      BY <2>2 DEF Keys
    <3>2. QED
      BY <1>1, <2>1, <2>2, <3>1 DEF RubOut
  <2>3. CASE t # <<>>
    <3> DEFINE a == RubOut(t)
               b == RubOut(Keys(t))
               n == Len(t)
    <3>1. n # 0 /\ Keys(t) # <<>>
      BY <1>1, <2>3
    <3>2. /\ a \in Seq(Cell) /\ Len(a) = n - 1 /\ \A i \in 1..n - 1 : a[i] = t[i]
          /\ b \in Seq(Char) /\ Len(b) = n - 1 /\ \A i \in 1..n - 1 : b[i] = Keys(t)[i]
      BY <1>1, <2>3, <3>1, RubbedOut
    <3> HIDE DEF a, b
    <3>3. /\ Keys(a) \in Seq(Char) /\ Len(Keys(a)) = n - 1
          /\ \A i \in 1..n - 1 : Keys(a)[i] = a[i].key
      <4>1. \A x \in Cell : x.key \in Char
        BY DEF Cell
      <4>2. QED
        BY <3>2, <4>1, KeysFields
    <3> HIDE DEF n
    <3>4. \A i \in 1..n - 1 : Keys(a)[i] = b[i]
      <4>1. ASSUME NEW i \in 1..n - 1 PROVE i \in 1..n
        BY <1>1 DEF n
      <4>2. \A i \in 1..n : Keys(t)[i] = t[i].key
        BY <1>1 DEF n
      <4>3. QED
        BY <3>2, <3>3, <4>1, <4>2
    <3>5. Keys(a) = b
      BY <3>2, <3>3, <3>4, SeqEqual
    <3>6. QED
      BY <1>1, <2>1, <3>5 DEF a, b
  <2>4. QED
    BY <2>2, <2>3
<1>4. CASE k \notin Char /\ k # Backspace
  BY <1>1, <1>4 DEF Struck, Strike
<1>5. QED
  BY <1>2, <1>3, <1>4

LEMMA PressLeads ==
  ASSUME TypeOK, NEW k \in Key, Press(k), ~held, NEW t, Leads(wire, t, Keys(screen))
  PROVE  Leads(wire', t, Keys(screen'))
<1> DEFINE p == [key |-> k, shown |-> ~held]
<1>1. p \in Sent /\ p.key = k /\ wire' = Append(wire, p) /\ wire \in Seq(Sent)
      /\ screen' = Struck(screen, layout, k)
  BY Typed DEF Press, Sent
<1> HIDE DEF p
<1>2. Keys(screen') = Strike(Keys(screen), k)
  BY <1>1, Typed, KeysStruck
<1>3. QED
  BY <1>1, <1>2, LeadsPress

\* What a window takes is the text up to what it leaves.
LEMMA DrainLeads ==
  ASSUME TypeOK, NEW t, NEW u, Leads(wire, t, u)
  PROVE  \E v \in Seq(Char) :
           /\ Leads(Drain.rest, v, u)
           /\ ~Drain.suspicious => v = t \o (Drain.words \o Optional(Drain.resume))
<1> DEFINE p == Drain.presses
           r == Drain.rest
           d == Drain.words \o Optional(Drain.resume)
<1>1. p \in Seq(Sent) /\ r \in Seq(Sent) /\ wire = p \o r
  BY Typed DEF DrainTypes
<1>2. ~Drain.suspicious => Keys(p) = d
  BY Typed, DrainFields DEF DrainPlain
<1>3. d \in Seq(Char)
  <2>1. Drain.words \in Seq(Char) /\ Optional(Drain.resume) \in Seq(Char)
    BY Typed, KeyTypes, OptionalLength DEF DrainTypes
  <2>2. QED
    BY <2>1, ConcatProperties
<1> HIDE DEF p, r, d
<1>4. PICK v \in Seq(Char) : Leads(p, t, v) /\ Leads(r, v, u)
  BY <1>1, LeadsSplit
<1>5. ~Drain.suspicious => v = t \o d
  BY <1>1, <1>2, <1>3, <1>4, LeadsPlain
<1>6. QED
  BY <1>4, <1>5 DEF r, d

-----------------------------------------------------------------------------
(* The buffer the engine seeds. *)

\* Tainted at any moment, the buffer still recovers at the next boundary.
Taintable(b) == b.prevWord # <<>> \/ b.boundaryRun = <<>>

LEMMA SeedDescribed ==
  ASSUME NEW b \in Buffer, NEW tail \in Seq(Letter), NEW t \in Seq(Char), Described(b, t)
  PROVE  /\ SeedBuffer(b, tail) \in Buffer
         /\ Described(SeedBuffer(b, tail), t \o tail)
         /\ Taintable(b) => Taintable(SeedBuffer(b, tail))
<1> DEFINE n == Len(tail)
           fed == CHOOSE f : f = [i \in 0..n |->
                                    IF i = 0 THEN b ELSE FeedWord(f[i - 1], tail[i])]
<1>1. n \in Nat /\ n \in 0..n /\ tail \in Seq(Char) /\ \A i \in 1..n : tail[i] \in Letter
  BY KeyTypes, ElementOfSeq
<1>2. SeedBuffer(b, tail) = fed[n]
  BY DEF SeedBuffer
<1>3. fed = [i \in 0..n |-> IF i = 0 THEN b ELSE FeedWord(fed[i - 1], tail[i])]
  <2> HIDE DEF n
  <2>1. n \in Nat /\ n \in 0..n
    BY <1>1
  <2>2. QED
    BY <2>1, SeededTo, SMTT(30)
<1> HIDE DEF fed
<1> DEFINE T == {m \in 0..n : /\ fed[m] \in Buffer /\ Described(fed[m], t \o Keep(tail, m))
                              /\ Taintable(b) => Taintable(fed[m])}
<1>4. 0 \in T
  <2>1. Keep(tail, 0) = <<>> /\ 0 \in 0..n
    BY <1>1 DEF Keep
  <2>2. fed[0] = b
    BY <1>3, <2>1
  <2>3. t \o <<>> = t
    BY ConcatEmptySeq
  <2>4. QED
    BY <2>1, <2>2, <2>3
<1>5. ASSUME NEW i \in 1..n, i - 1 \in T PROVE i \in T
  <2> DEFINE g == fed[i - 1]
             a == Keep(tail, i - 1)
             k == tail[i]
  <2>1. /\ g \in Buffer /\ Described(g, t \o a) /\ k \in Letter /\ k \in Char
        /\ Taintable(b) => Taintable(g)
    BY <1>1, <1>5, KeyTypes
  <2>2. fed[i] = FeedWord(g, k)
    <3>1. i \in 0..n /\ i # 0
      BY <1>1
    <3>2. QED
      BY <1>3, <3>1
  <2>3. a \in Seq(Char) /\ Append(a, k) = Keep(tail, i)
    <3>1. i \in 1..Len(tail) /\ Len(tail) \in Nat
      BY <1>1
    <3> HIDE DEF n
    <3>2. i - 1 \in 0..Len(tail) /\ i \in 1..Len(tail) /\ 1 \in 1..Len(tail)
      BY <3>1
    <3>3. a \in Seq(Char)
      BY <1>1, <3>2, KeepFields
    <3>4. SubSeq(tail, 1, i) = SubSeq(tail, 1, i - 1) \o <<tail[i]>>
      <4>1. i \in 1..Len(tail) /\ 1 \in 1..Len(tail)
        BY <3>2
      <4>2. QED
        BY <1>1, <4>1, SubSeqRecursiveSecond
    <3>5. Append(a, k) = a \o <<k>>
      BY <2>1, <3>3, AppendIsConcat
    <3>6. QED
      BY <3>3, <3>4, <3>5 DEF Keep
  <2>4. t \o a \in Seq(Char)
    BY <2>3, ConcatProperties
  <2>5. t \o Keep(tail, i) = Append(t \o a, k)
    BY <2>1, <2>3, ConcatAppend
  <2> HIDE DEF g, a, k
  <2>6. FeedWord(g, k) \in Buffer /\ Described(FeedWord(g, k), Append(t \o a, k))
    BY <2>1, <2>4, DescribedLetter
  <2>7. Taintable(g) => Taintable(FeedWord(g, k))
    BY <2>1, FeedWordFields DEF Holds, Taintable
  <2>8. i \in 0..n
    BY <1>1
  <2>9. QED
    BY <2>1, <2>2, <2>5, <2>6, <2>7, <2>8
<1>6. n \in T
  <2> HIDE DEF T, n
  <2>1. \A i \in 0..n : i \in T
    BY <1>1, <1>4, <1>5, StepByStep
  <2>2. QED
    BY <1>1, <2>1
<1>7. Keep(tail, n) = tail
  BY <1>1, SubSeqFull DEF Keep
<1>8. QED
  BY <1>2, <1>6, <1>7

LEMMA OptionalDescribed ==
  ASSUME NEW b \in Buffer, NEW s \in Separator \cup {NoKey}, NEW t \in Seq(Char),
         Described(b, t)
  PROVE  /\ FeedOptional(b, s) \in Buffer /\ t \o Optional(s) \in Seq(Char)
         /\ Described(FeedOptional(b, s), t \o Optional(s))
<1>1. CASE s = NoKey
  BY <1>1, ConcatEmptySeq DEF FeedOptional, Optional
<1>2. CASE s # NoKey
  <2>1. s \in Separator /\ s \in Char /\ Optional(s) = <<s>>
    BY <1>2, KeyTypes
  <2>2. t \o <<s>> = Append(t, s) /\ Append(t, s) \in Seq(Char)
    BY <2>1, AppendIsConcat
  <2>3. QED
    BY <1>2, <2>1, <2>2, DescribedSeparator DEF FeedOptional
<1>3. QED
  BY <1>1, <1>2

\* A correction that gives up taints what it was following.
LEMMA GivenUp ==
  ASSUME NEW b \in Buffer, NEW tail \in Seq(Letter), NEW t \in Seq(Char), Described(b, t),
         Taintable(b), NEW u
  PROVE  Described(Poison(SeedBuffer(b, tail)), u)
BY SeedDescribed, DescribedPoisoned DEF Taintable

\* The buffer a correction starts with is behind the word, and no boundary of
\* its run is without the word in front of it.
LEMMA InitDescribed ==
  ASSUME Init
  PROVE  Described(buf, Before \o c.target) /\ Taintable(buf)
<1>1. /\ Word \in Seq(Letter) /\ Word \in Seq(Char) /\ Word # <<>> /\ Before \in Seq(Char)
      /\ FreshBuffer \in Buffer
  BY CorrectionAssumption, KeyTypes, FreshFields DEF Holds
<1> DEFINE x == Before \o Word
           n == Len(x)
<1>2. x \in Seq(Char) /\ n \in Nat /\ EndsAt(x, n, Word)
  BY <1>1, ConcatProperties, EndsConcat
<1> HIDE DEF x, n
<1>3. CASE /\ c = Locals0(Word)
           /\ buf = [FreshBuffer EXCEPT !.keys = Word]
  <2>1. /\ buf.keys = Word /\ buf.prevWord = <<>> /\ buf.boundaryRun = <<>>
        /\ buf.prevLead = NoKey /\ ~buf.poisoned /\ c.target = Word
    BY <1>3 DEF FreshBuffer, Locals0
  <2> DEFINE e == n - Len(Word)
  <2>2. e \in Nat /\ e - 0 = e /\ Len(<<>>) = 0
    BY <1>1, <1>2 DEF EndsAt
  <2>3. EndsAt(x, e, <<>>)
    BY <2>2, EndsEmpty
  <2>4. Tracks(buf, x)
    BY <1>2, <2>1, <2>2, <2>3 DEF Tracks, n
  <2>5. QED
    BY <2>1, <2>4 DEF Described, Taintable, x
<1>4. ASSUME NEW s \in Separator, c = Locals0(Append(Word, s)),
             buf = [FreshBuffer EXCEPT !.prevWord = Word, !.lead = s, !.boundaryRun = <<s>>]
      PROVE  Described(buf, Before \o c.target) /\ Taintable(buf)
  <2>1. /\ buf.keys = <<>> /\ buf.prevWord = Word /\ buf.boundaryRun = <<s>>
        /\ buf.prevLead = NoKey /\ ~buf.poisoned /\ c.target = Append(Word, s)
    BY <1>4 DEF FreshBuffer, Locals0
  <2> DEFINE y == Append(x, s)
  <2>2. s \in Char /\ Before \o c.target = y
    BY <1>1, <2>1, KeyTypes, ConcatAppend DEF x
  <2>3. y \in Seq(Char) /\ Len(y) = n + 1 /\ y[n + 1] = s
    BY <1>2, <2>2 DEF n
  <2>4. EndsAt(y, n, Word)
    <3>1. n \in 0..Len(x)
      BY <1>2 DEF n
    <3>2. QED
      BY <1>1, <1>2, <2>2, <3>1, EndsInLonger
  <2> HIDE DEF y
  <2>5. EndsAt(y, n + 1, <<s>>) /\ EndsAt(y, n + 1, <<>>)
    <3>1. EndsAt(y, n + 1, <<>>)
      BY <1>2, EndsEmpty
    <3>2. n + 1 - 1 + 1 = n + 1 /\ Len(<<s>>) = 1 /\ <<s>>[1] = s /\ 1 <= n + 1
      BY <1>2
    <3>3. QED
      BY <2>3, <3>1, <3>2 DEF EndsAt
  <2>6. n + 1 - 0 = n + 1 /\ n + 1 - 0 - 1 = n /\ Len(<<>>) = 0 /\ Len(<<s>>) = 1
    BY <1>2
  <2>7. Tracks(buf, y)
    <3> DEFINE l == Len(y)
               k == Len(buf.keys)
               r == Len(buf.boundaryRun)
    <3>1. l = n + 1 /\ k = 0 /\ r = 1
      BY <2>1, <2>3, <2>6
    <3> HIDE DEF l, k, r
    <3>2. l - k = n + 1 /\ l - k - r = n
      BY <1>2, <3>1
    <3>3. EndsAt(y, l, buf.keys) /\ EndsAt(y, l - k, buf.boundaryRun)
      BY <2>1, <2>5, <3>1, <3>2
    <3>4. EndsAt(y, l - k - r, buf.prevWord)
      BY <2>1, <2>4, <3>2
    <3>5. QED
      BY <3>3, <3>4 DEF Tracks, l, k, r
  <2>8. <<s>> # <<>>
    OBVIOUS
  <2>9. buf.prevWord # <<>> /\ buf.boundaryRun # <<>>
    BY <1>1, <2>1, <2>8
  <2>10. Described(buf, y)
    BY <2>1, <2>7, <2>9 DEF Described
  <2>11. QED
    BY <2>2, <2>9, <2>10 DEF Taintable
<1>5. QED
  BY <1>3, <1>4 DEF Init, x

-----------------------------------------------------------------------------
(***************************************************************************)
(* The buffer the run loop takes over.  A correction that gives up leaves  *)
(* it behind the text it started with, or tainted; one that goes on knows  *)
(* the text up to the channel when it settles.                             *)
(***************************************************************************)

SettledBy(l) == ((Before \o Full(l)) \o l.postTail) \o Optional(l.postResume)

\* Suspicion tells of every press that was no character.
Told == pc # "run" /\ ~c.suspicious /\ PlainWire => PlainTyping

Ahead ==
  /\ pc # "run" => Described(buf, Before \o c.target) /\ Taintable(buf)
  /\ pc \notin Late3 => c.postTail = <<>> /\ c.postResume = NoKey

Followable ==
  /\ pc \in Early =>
       \E t \in Seq(Char) : /\ Leads(wire, t, Keys(screen))
                            /\ ~Absorbed => t = Before \o c.target
  /\ pc \in {"settle", "seed"} /\ ~c.suspicious =>
       \/ Leads(wire, SettledBy(c), Keys(screen))
       \/ pc = "settle" /\ wire # <<>> /\ ~wire[1].shown
  /\ pc = "seed" => \E t \in Seq(Char) : Leads(wire, t, Keys(screen))
  /\ pc = "run" =>
       \E t \in Seq(Char) : Leads(wire, t, Keys(screen)) /\ Described(buf, t)

Trackable == slips = {} => Followable

LEMMA KeysOfScreen ==
  ASSUME NEW t \in Seq(Cell)
  PROVE  Keys(t) \in Seq(Char)
<1>1. \A x \in Cell : x.key \in Char
  BY DEF Cell
<1>2. QED
  BY <1>1, KeysFields

LEMMA InitTrackable == Init => Told /\ Ahead /\ Trackable
<1> SUFFICES ASSUME Init PROVE Told /\ Ahead /\ Trackable
  OBVIOUS
<1>1. pc = "wait" /\ wire = <<>> /\ typed = <<>> /\ c.postTail = <<>> /\ c.postResume = NoKey
  <2>1. pc = "wait" /\ wire = <<>> /\ typed = <<>> /\ \E t : c = Locals0(t)
    BY DEF Init
  <2>2. QED
    BY <2>1 DEF Locals0
<1>2. Told
  BY <1>1 DEF Told, PlainTyping
<1>3. Ahead
  BY <1>1, InitDescribed DEF Ahead
<1>4. Before \o c.target \in Seq(Char) /\ screen = In("from", Before \o c.target)
  BY InitTexts, ConcatProperties DEF Init
<1>5. Leads(wire, Before \o c.target, Keys(screen))
  <2>1. Keys(screen) = Before \o c.target
    BY <1>4, KeysOfText
  <2>2. QED
    BY <1>1, <1>4, <2>1, LeadsNowhere
<1>6. Followable
  BY <1>1, <1>4, <1>5 DEF Followable, Early
<1>7. QED
  BY <1>2, <1>3, <1>6 DEF Trackable

\* A window without suspicion took characters only.
LEMMA TakenPlain ==
  ASSUME TypeOK, ~Drain.suspicious
  PROVE  \A i \in DOMAIN Drain.presses : Drain.presses[i].key \in Char
<1> DEFINE p == Drain.presses
           d == Drain.words \o Optional(Drain.resume)
<1>1. p \in Seq(Sent) /\ Keys(p) = d
  BY Typed, DrainFields DEF DrainPlain, DrainTypes
<1>2. d \in Seq(Char)
  <2>1. Drain.words \in Seq(Char) /\ Optional(Drain.resume) \in Seq(Char)
    BY Typed, KeyTypes, OptionalLength DEF DrainTypes
  <2>2. QED
    BY <2>1, ConcatProperties
<1> HIDE DEF d, p
<1>3. DOMAIN p = 1..Len(p) /\ Len(p) \in Nat /\ Len(Keys(p)) = Len(p)
      /\ \A i \in 1..Len(p) : Keys(p)[i] = p[i].key
  <2>1. \A x \in Sent : x.key \in Key
    BY DEF Sent
  <2>2. Len(Keys(p)) = Len(p) /\ \A i \in 1..Len(p) : Keys(p)[i] = p[i].key
    BY <1>1, <2>1, KeysFields
  <2>3. DOMAIN p = 1..Len(p) /\ Len(p) \in Nat
    BY <1>1
  <2>4. QED
    BY <2>2, <2>3
<1>4. \A i \in 1..Len(d) : d[i] \in Char
  BY <1>2, ElementOfSeq
<1>5. \A i \in DOMAIN p : p[i].key \in Char
  BY <1>1, <1>3, <1>4
<1>6. QED
  BY <1>5 DEF p

LEMMA Unsuspicious ==
  ASSUME TypeOK, ~Drain.suspicious, \A i \in DOMAIN Drain.rest : Drain.rest[i].key \in Char
  PROVE  PlainWire
BY TakenPlain, FromWire DEF PlainWire

LEMMA ToldKept ==
  ASSUME TypeOK, Told, [Next]_vars
  PROVE  Told'
<1> SUFFICES ASSUME pc' # "run", ~c'.suspicious, PlainWire'
             PROVE  PlainTyping'
  BY DEF Told
<1>1. ~c.suspicious
  BY SuspicionStays
<1>2. CASE \E k \in Key : Press(k)
  <2>1. PICK k \in Key : Press(k)
    BY <1>2
  <2>2. k \in Char /\ PlainWire
    BY <2>1, Pressed DEF PlainWire
  <2>3. PlainTyping
    BY <1>1, <2>1, <2>2 DEF Press, Told
  <2>4. typed' = Append(typed, k) /\ typed \in Seq(Key)
    BY <2>1, Typed DEF Press
  <2>5. \A i \in DOMAIN typed' :
          \/ i \in DOMAIN typed /\ typed'[i] = typed[i]
          \/ typed'[i] = k
    BY <2>4
  <2>6. QED
    BY <2>2, <2>3, <2>5 DEF PlainTyping
<1>3. CASE WaitProbe \/ AbsorbProbe \/ DeleteProbe \/ FlushProbe \/ Sweep
           \/ IntrusionProbe \/ SettleProbe
  <2>1. ~Drain.suspicious
    <3>1. CASE WaitProbe \/ SettleProbe
      BY <3>1, Typed DEF WaitProbe, SettleProbe, Locals
    <3>2. CASE AbsorbProbe \/ DeleteProbe \/ FlushProbe \/ Sweep \/ IntrusionProbe
      BY <3>2, DrainedClean
    <3>3. QED
      BY <1>3, <3>1, <3>2
  <2>2. wire' = Drain.rest /\ typed' = typed /\ pc # "run"
    BY <1>3 DEF WaitProbe, AbsorbProbe, DeleteProbe, FlushProbe, Sweep, IntrusionProbe,
       SettleProbe
  <2>3. PlainWire
    BY <2>1, <2>2, Unsuspicious DEF PlainWire
  <2>4. QED
    BY <1>1, <2>2, <2>3 DEF Told, PlainTyping
<1>4. CASE wire' = wire /\ typed' = typed /\ pc # "run"
  BY <1>1, <1>4 DEF Told, PlainTyping, PlainWire
<1>5. CASE LiftTrigger \/ DesktopPutsBack \/ Idle \/ UNCHANGED vars
  <2>1. wire' = wire /\ typed' = typed /\ pc # "run"
    BY <1>5 DEF LiftTrigger, DesktopPutsBack, Idle, vars
  <2>2. QED
    BY <1>4, <2>1
<1>6. CASE HandleKey
  BY <1>6 DEF HandleKey
<1>7. QED
  BY <1>2, <1>3, <1>4, <1>5, <1>6 DEF Next, Engine, WaitGivesUp, WaitOver,
     PreflightFails, SwitchLayout, AbsorbAborts, SwitchLost, StartBurst, DeleteOne,
     DeletedHeld, ReplayOne, ReplayDone, EmitFails, Release, Seed

LEMMA AheadKept ==
  ASSUME TypeOK, Ahead, [Next]_vars
  PROVE  Ahead'
<1>1. CASE \/ \E k \in Key : Press(k)
           \/ LiftTrigger \/ DesktopPutsBack \/ Idle \/ UNCHANGED vars
  <2>1. UNCHANGED <<pc, c, buf>>
    BY <1>1 DEF Press, LiftTrigger, DesktopPutsBack, Idle, vars
  <2>2. QED
    BY <2>1 DEF Ahead, Taintable
<1>2. CASE WaitGivesUp \/ AbsorbAborts \/ Seed \/ HandleKey
  <2>1. pc' = "run"
    BY <1>2 DEF WaitGivesUp, AbsorbAborts, Seed, HandleKey, Return
  <2>2. QED
    BY <2>1 DEF Ahead, Late3
<1>3. ASSUME buf' = buf, c'.target = c.target, pc # "run",
             c'.postTail = c.postTail, c'.postResume = c.postResume,
             pc' \notin Late3 => pc \notin Late3
      PROVE  Ahead'
  BY <1>3 DEF Ahead, Taintable
<1>4. CASE WaitOver \/ PreflightFails \/ SwitchLayout \/ SwitchLost \/ StartBurst
           \/ DeleteOne \/ DeletedHeld \/ ReplayOne \/ ReplayDone \/ EmitFails \/ Release
  <2>1. Steady
    BY <1>4, SteadySteps
  <2>2. buf' = buf /\ pc # "run" /\ pc \notin Late3
    BY <1>4 DEF WaitOver, PreflightFails, SwitchLayout, SwitchLost, StartBurst,
       DeleteOne, DeletedHeld, ReplayOne, ReplayDone, EmitFails, Release, Late3
  <2>3. QED
    BY <1>3, <2>1, <2>2 DEF Steady
<1>5. CASE AbsorbProbe \/ DeleteProbe \/ FlushProbe \/ Sweep \/ IntrusionProbe
  <2>1. buf' = buf /\ pc # "run" /\ pc \notin Late3
    BY <1>5 DEF AbsorbProbe, DeleteProbe, FlushProbe, Sweep, IntrusionProbe, Late3
  <2>2. QED
    BY <1>3, <1>5, <2>1, DrainedFields
<1>6. CASE WaitProbe
  BY <1>3, <1>6, Typed DEF WaitProbe, Locals
<1>7. CASE SettleProbe
  <2>1. buf' = buf /\ c'.target = c.target /\ pc # "run" /\ pc' \in Late3
    BY <1>7, Typed DEF SettleProbe, Locals, Late3
  <2>2. QED
    BY <2>1 DEF Ahead, Taintable
<1>8. QED
  BY <1>1, <1>2, <1>4, <1>5, <1>6, <1>7 DEF Next, Engine

LEMMA SettledTypes ==
  ASSUME NEW l \in Locals
  PROVE  /\ SettledBy(l) \in Seq(Char) /\ Before \o Full(l) \in Seq(Char)
         /\ l.postTail \in Seq(Char) /\ Optional(l.postResume) \in Seq(Char)
<1>1. /\ l.postTail \in Seq(Letter) /\ l.postResume \in Separator \cup {NoKey}
      /\ Before \in Seq(Char)
  BY CorrectionAssumption DEF Locals
<1>2. Full(l) \in Seq(Char)
  BY FollowedTypes, ConcatProperties
<1>3. l.postTail \in Seq(Char) /\ Optional(l.postResume) \in Seq(Char)
  BY <1>1, KeyTypes
<1>4. Before \o Full(l) \in Seq(Char)
  BY <1>1, <1>2, ConcatProperties
<1>5. (Before \o Full(l)) \o l.postTail \in Seq(Char)
  BY <1>3, <1>4, ConcatProperties
<1>6. QED
  BY <1>3, <1>4, <1>5, ConcatProperties DEF SettledBy

\* Nothing of Followable is lost where neither text, channel nor place is.
LEMMA SameFollowable ==
  ASSUME Followable, UNCHANGED <<pc, wire, screen, c, buf>>
  PROVE  Followable'
<1>1. /\ pc' = pc /\ wire' = wire /\ screen' = screen /\ c' = c /\ buf' = buf
      /\ Absorbed' = Absorbed
  BY DEF Absorbed
<1>2. QED
  BY <1>1 DEF Followable

LEMMA PressFollowable ==
  ASSUME TypeOK, Placed, Followable, NEW k \in Key, Press(k)
  PROVE  Followable'
<1>1. pc' = pc /\ c' = c /\ pc # "run"
  BY DEF Press
<1>2. pc \in Early \cup Late3 => ~held
  BY DEF Placed
<1>3. ASSUME NEW t \in Seq(Char), Leads(wire, t, Keys(screen)), pc \in Early \cup Late3
      PROVE  Leads(wire', t, Keys(screen'))
  BY <1>2, <1>3, PressLeads
<1>4. wire # <<>> => wire' # <<>> /\ wire'[1] = wire[1]
  <2>1. wire # <<>> => 1 \in DOMAIN wire
    BY Typed
  <2>2. QED
    BY <2>1, Pressed
<1>5. pc \in Early =>
        \E t \in Seq(Char) : /\ Leads(wire', t, Keys(screen'))
                             /\ ~Absorbed => t = Before \o c.target
  BY <1>3 DEF Followable
<1>6. SettledBy(c) \in Seq(Char)
  BY Typed, SettledTypes
<1>7. pc \in {"settle", "seed"} /\ ~c.suspicious =>
        \/ Leads(wire', SettledBy(c), Keys(screen'))
        \/ pc = "settle" /\ wire' # <<>> /\ ~wire'[1].shown
  BY <1>3, <1>4, <1>6 DEF Followable, Late3
<1>8. pc = "seed" => \E t \in Seq(Char) : Leads(wire', t, Keys(screen'))
  BY <1>3 DEF Followable, Late3
<1>9. Absorbed' = Absorbed /\ SettledBy(c)' = SettledBy(c)
  BY <1>1 DEF Absorbed, SettledBy, Full
<1>10. QED
  BY <1>1, <1>5, <1>7, <1>8, <1>9 DEF Followable

\* The keys collected before the first deletion have moved the text.
LEMMA EarlyFollowable ==
  ASSUME TypeOK, Followable, WaitProbe \/ AbsorbProbe
  PROVE  Followable'
<1>1. /\ pc \in Early /\ pc' \in Early /\ wire' = Drain.rest /\ screen' = screen
  BY DEF WaitProbe, AbsorbProbe, Early
<1>2. PICK t \in Seq(Char) : Leads(wire, t, Keys(screen)) /\ (~Absorbed => t = Before \o c.target)
  BY <1>1 DEF Followable
<1>3. PICK v \in Seq(Char) :
        /\ Leads(Drain.rest, v, Keys(screen))
        /\ ~Drain.suspicious => v = t \o (Drain.words \o Optional(Drain.resume))
  BY <1>2, DrainLeads
<1>4. c'.target = c.target
  BY Typed, DrainedFields DEF WaitProbe, Locals
<1>5. ASSUME ~Absorbed'
      PROVE  ~Absorbed /\ ~Drain.suspicious /\ Drain.words = <<>> /\ Drain.resume = NoKey
  <2> DEFINE x == c.tail
             w == Drain.words
  <2>1. x \in Seq(Letter) /\ w \in Seq(Letter)
    BY Typed DEF DrainTypes, Locals
  <2>2. c'.tail = x \o w /\ c'.tail = <<>> /\ c'.resume = NoKey /\ ~c'.suspicious
    <3>1. c'.tail = x \o w
      BY Typed, DrainedFields, TakeFields DEF WaitProbe, Locals
    <3>2. QED
      BY <1>5, <3>1 DEF Absorbed
  <2>3. x = <<>> /\ w = <<>>
    <3>1. Len(x \o w) = Len(x) + Len(w) /\ Len(<<>>) = 0
      BY <2>1, ConcatProperties
    <3> HIDE DEF x, w
    <3>2. Len(x) \in Nat /\ Len(w) \in Nat /\ Len(x) + Len(w) = 0
      BY <2>1, <2>2, <3>1
    <3>3. Len(x) = 0 /\ Len(w) = 0
      BY <3>2
    <3>4. QED
      BY <2>1, <3>3
  <2>4. c.resume = NoKey /\ ~c.suspicious /\ ~Drain.suspicious /\ Drain.resume = NoKey
    <3>1. CASE WaitProbe
      BY <2>2, <3>1, Typed DEF WaitProbe, Locals
    <3>2. CASE AbsorbProbe
      <4>1. ~Take(c, Drain).suspicious /\ Take(c, Drain).resume = NoKey
        BY <2>2, <3>2, DrainedFields
      <4>2. QED
        BY <4>1, TakeFields DEF Resumable
    <3>3. QED
      BY <3>1, <3>2
  <2>5. QED
    BY <2>3, <2>4 DEF Absorbed
<1>6. ~Absorbed' => v = Before \o c.target
  <2> SUFFICES ASSUME ~Absorbed' PROVE v = Before \o c.target
    OBVIOUS
  <2>1. t = Before \o c.target /\ v = t \o (<<>> \o <<>>)
    BY <1>2, <1>3, <1>5, KeyTypes
  <2>2. <<>> \o <<>> = <<>> /\ t \o <<>> = t
    BY ConcatEmptySeq
  <2>3. QED
    BY <2>1, <2>2
<1>7. \E s \in Seq(Char) : /\ Leads(wire', s, Keys(screen'))
                           /\ ~Absorbed' => s = Before \o c'.target
  BY <1>1, <1>3, <1>4, <1>6
<1>8. pc' \notin {"settle", "seed", "run"}
  BY <1>1 DEF Early
<1>9. QED
  BY <1>7, <1>8 DEF Followable

\* Giving up: untouched, or tainted.
LEMMA AbortFollowable ==
  ASSUME TypeOK, Ahead, Followable, slips' = {},
         WaitGivesUp \/ AbsorbAborts \/ PreflightFails \/ SwitchLost
  PROVE  Followable'
<1>1. /\ pc \in Early /\ pc' = "run" /\ wire' = wire /\ screen' = screen
      /\ buf' = Poison(SeedBuffer(buf, c.tail)) \/ (buf' = buf /\ ~Absorbed)
  BY DEF WaitGivesUp, AbsorbAborts, PreflightFails, SwitchLost, Untracked, Early, Return
<1>2. PICK t \in Seq(Char) : Leads(wire, t, Keys(screen)) /\ (~Absorbed => t = Before \o c.target)
  BY <1>1 DEF Followable
<1>3. Described(buf, Before \o c.target) /\ Taintable(buf) /\ Before \o c.target \in Seq(Char)
      /\ buf \in Buffer /\ c.tail \in Seq(Letter)
  <2>1. Before \in Seq(Char) /\ c.target \in Seq(Char)
    BY Typed, CorrectionAssumption DEF Locals
  <2>2. QED
    BY <1>1, <2>1, Typed, ConcatProperties DEF Ahead, Early, Locals
<1>4. Described(buf', t)
  <2>1. CASE buf' = Poison(SeedBuffer(buf, c.tail))
    BY <1>3, <2>1, GivenUp
  <2>2. CASE buf' = buf /\ ~Absorbed
    BY <1>2, <1>3, <2>2
  <2>3. QED
    BY <1>1, <2>1, <2>2
<1>5. QED
  BY <1>1, <1>2, <1>4 DEF Followable, Early

\* Steps that leave the channel alone, before the deletion and during it.
LEMMA QuietFollowable ==
  ASSUME TypeOK, Followable,
         \/ WaitOver \/ SwitchLayout \/ StartBurst \/ DeleteOne \/ DeletedHeld
         \/ DeleteProbe \/ ReplayOne \/ ReplayDone \/ FlushProbe \/ Release
  PROVE  Followable'
<1>1. CASE WaitOver \/ SwitchLayout
  <2>1. pc \in Early /\ pc' \in Early /\ UNCHANGED <<wire, screen, c>>
    BY <1>1 DEF WaitOver, SwitchLayout, Early
  <2>2. PICK t \in Seq(Char) : Leads(wire, t, Keys(screen)) /\ (~Absorbed => t = Before \o c.target)
    BY <2>1 DEF Followable
  <2>3. Absorbed' = Absorbed
    BY <2>1 DEF Absorbed
  <2>4. pc' \notin {"settle", "seed", "run"}
    BY <2>1 DEF Early
  <2>5. QED
    BY <2>1, <2>2, <2>3, <2>4 DEF Followable
<1>2. CASE StartBurst \/ DeleteOne \/ DeletedHeld \/ DeleteProbe \/ ReplayOne
           \/ FlushProbe \/ Release
  <2>1. pc' \notin Early \cup Late3
    BY <1>2 DEF StartBurst, DeleteOne, DeletedHeld, DeleteProbe, ReplayOne, FlushProbe,
       Release, Early, Late3
  <2>2. QED
    BY <2>1 DEF Followable, Late3
<1>3. CASE ReplayDone
  <2>1. c'.suspicious = c.suspicious
    BY <1>3, SteadySteps DEF Steady
  <2>2. pc' \notin Early \cup {"seed", "run"} /\ (pc' = "settle" => c'.suspicious)
    BY <1>3, <2>1 DEF ReplayDone, Early
  <2>3. QED
    BY <2>2 DEF Followable
<1>4. QED
  BY <1>1, <1>2, <1>3

LEMMA SweepCosts ==
  ASSUME Sweep, slips' = {}
  PROVE  Raced = {} /\ Late(c.resume, Drain) = {}
BY DEF Sweep

LEMMA IdleProbe ==
  ASSUME TypeOK, IntrusionProbe, pc' = "settle", slips' = {}, ~c'.suspicious
  PROVE  Cost(c, Drain) = 0 /\ Late(c.resume, Drain) = {}
<1> DEFINE k == Take(c, Drain)
           e == Cost(c, Drain)
           l == [k EXCEPT !.intruders = c.intruders + e]
<1>1. k \in Locals /\ k.intruders = c.intruders /\ ~k.suspicious
  BY Typed, TakeFields, DrainedClean
<1>2. /\ Late(c.resume, Drain) = {}
      /\ \/ l.suspicious \/ l.intruders = 0
         \/ c' = [l EXCEPT !.suspicious = TRUE]
  BY <1>1 DEF IntrusionProbe
<1>3. e \in Nat /\ c.intruders \in Nat
  BY Typed, DrainCounts, Numbers
<1> HIDE DEF k, e
<1>4. /\ l.suspicious = k.suspicious /\ l.intruders = c.intruders + e
      /\ "suspicious" \in DOMAIN l
  BY <1>1 DEF Locals
<1> HIDE DEF l
<1>5. c' # [l EXCEPT !.suspicious = TRUE]
  BY <1>4
<1>6. c.intruders + e = 0
  BY <1>1, <1>2, <1>4, <1>5
<1>7. e = 0
  BY <1>3, <1>6
<1>8. QED
  BY <1>2, <1>7 DEF e

\* A correction settles on the text it has typed, unless a press the gate kept
\* from the application is left, which will say so.
LEMMA Arrives ==
  ASSUME TypeOK, TypeOK', Placed, Placed', Told, Chronicle, Chronicle',
         Sweep \/ IntrusionProbe, pc' = "settle", slips = {}, slips' = {}, ~c'.suspicious
  PROVE  \/ wire' = <<>> /\ Keys(screen') = Before \o Full(c')
         \/ wire' # <<>> /\ ~wire'[1].shown
<1> DEFINE l == Take(c, Drain)
<1>1. /\ pc \in {"sweep", "probe"} /\ wire' = Drain.rest /\ typed' = typed
      /\ Late(c.resume, Drain) = {}
  BY SweepCosts, IdleProbe DEF Sweep, IntrusionProbe
<1>2. /\ ~l.suspicious /\ ~c.suspicious /\ ~Drain.suspicious
      /\ c'.target = c.target /\ c'.tail = l.tail /\ c'.resume = l.resume
  BY DrainedClean, DrainedFields
<1>3. Drain.rest \in Seq(Sent) /\ Drain.presses \in Seq(Sent) /\ c' \in Locals
  BY Typed DEF DrainTypes, TypeOK
<1>4. CASE Drain.rest = <<>>
  <2>1. PlainWire
    BY <1>2, <1>4, Unsuspicious
  <2>2. PlainTyping /\ PlainTyping'
    BY <1>1, <1>2, <2>1 DEF Told, PlainTyping
  <2>3. Exact /\ Exact'
    BY <1>2, <2>2 DEF Chronicle
  <2>4. screen' = Outcome(typed)'
    <3>1. Shown'
      BY <1>1, <1>4 DEF Shown
    <3>2. result' # "false" /\ pc' \in Late3
      BY DEF Placed, Late3
    <3>3. QED
      BY <2>3, <3>1, <3>2 DEF Exact
  <2>5. typed = FollowedBy(l)
    <3>1. typed = Followed \o Keys(wire)
      BY <1>1, <2>3 DEF Exact, Late3
    <3>2. typed = FollowedBy(l) \o Keys(Drain.rest)
      BY <1>1, <1>2, <2>1, <3>1, TakeFollows
    <3>3. Keys(Drain.rest) = <<>> /\ FollowedBy(l) \in Seq(Char)
      BY <1>4, Typed, FollowedTypes DEF Keys
    <3>4. QED
      BY <3>2, <3>3, ConcatEmptySeq
  <2>6. FollowedBy(c') = FollowedBy(l)
    BY <1>2 DEF FollowedBy
  <2>7. /\ FollowedBy(c') \in Seq(Char) /\ Full(c') = c'.target \o FollowedBy(c')
        /\ c'.target \in Seq(Char)
    BY <1>3, FollowedTypes
  <2> HIDE DEF l
  <2> DEFINE f == Full(c')
             x == In("from", Before)
             y == In("to", f)
  <2>8. f \in Seq(Char) /\ screen' = x \o y
    <3>1. typed' = FollowedBy(c')
      BY <1>1, <2>5, <2>6
    <3>2. QED
      BY <2>4, <2>7, <3>1, ConcatProperties DEF Outcome
  <2>9. x \in Seq(Cell) /\ y \in Seq(Cell) /\ Keys(x) = Before /\ Keys(y) = f
    BY <2>8, CorrectionAssumption, InFields, KeysOfText
  <2> HIDE DEF x, y, f
  <2>10. \A z \in Cell : z.key \in Char
    BY DEF Cell
  <2>11. Keys(x \o y) = Keys(x) \o Keys(y)
    BY <2>9, <2>10, KeysConcat
  <2>12. QED
    BY <1>1, <1>4, <2>8, <2>9, <2>11 DEF f
<1>5. CASE Drain.rest # <<>>
  <2>1. CASE Sweep
    <3>1. Raced = {}
      BY <2>1, SweepCosts
    <3>2. Unshown
      BY <3>1 DEF Raced, Unshown
    <3>3. 1 \in DOMAIN Drain.rest
      BY <1>3, <1>5
    <3>4. QED
      BY <1>1, <1>5, <3>2, <3>3, FromWire DEF Unshown
  <2>2. CASE IntrusionProbe
    <3>1. Cost(c, Drain) = 0
      BY <2>2, IdleProbe
    <3>2. Drain.words = <<>> /\ Drain.resume = NoKey
      <4>1. Drain.resume = NoKey \/ Resumable(c, Drain)
        BY <1>2, TakeFields
      <4>2. Drain.words \in Seq(Letter)
        BY Typed DEF DrainTypes
      <4>3. Len(Drain.words) \in Nat
        BY <4>2
      <4>4. Len(Drain.words) = 0 /\ ~Resumable(c, Drain)
        <5> DEFINE n == Len(Drain.words)
        <5>1. /\ Resumable(c, Drain) => n + 1 = 0
              /\ ~Resumable(c, Drain) => n + 0 = 0
          BY <3>1 DEF Cost
        <5> HIDE DEF n
        <5>2. n = 0 /\ ~Resumable(c, Drain)
          BY <4>3, <5>1 DEF n
        <5>3. QED
          BY <5>2 DEF n
      <4>5. QED
        BY <4>1, <4>2, <4>4
    <3>3. Keys(Drain.presses) = <<>>
      <4>1. Keys(Drain.presses) = Drain.words \o Optional(Drain.resume)
        BY <1>2, Typed, DrainFields DEF DrainPlain
      <4>2. <<>> \o <<>> = <<>>
        OBVIOUS
      <4>3. QED
        BY <3>2, <4>1, <4>2, KeyTypes
    <3>4. Len(Drain.presses) = 0
      <4>1. \A x \in Sent : x.key \in Key
        BY DEF Sent
      <4>2. Len(Keys(Drain.presses)) = Len(Drain.presses)
        BY <1>3, <4>1, KeysFields
      <4>3. QED
        BY <3>3, <4>2
    <3>5. wire = <<>>
      <4>1. Drain.presses = <<>>
        BY <1>3, <3>4
      <4>2. QED
        BY <4>1, Typed DEF DrainTypes
    <3>6. FALSE
      <4>1. 1 \in DOMAIN Drain.rest
        BY <1>3, <1>5
      <4>2. \E j \in DOMAIN wire : TRUE
        BY <4>1, FromWire
      <4>3. QED
        BY <3>5, <4>2
    <3>7. QED
      BY <3>6
  <2>3. QED
    BY <2>1, <2>2
<1>6. QED
  BY <1>4, <1>5

LEMMA ArrivalFollowable ==
  ASSUME TypeOK, TypeOK', Placed, Placed', Told, Ahead, Chronicle, Chronicle',
         Sweep \/ IntrusionProbe, slips = {}, slips' = {}
  PROVE  Followable'
<1>1. pc' \in {"settle", "probe", "delete"}
  BY DEF Sweep, IntrusionProbe
<1>2. ASSUME pc' = "settle", ~c'.suspicious
      PROVE  Leads(wire', SettledBy(c'), Keys(screen')) \/ (wire' # <<>> /\ ~wire'[1].shown)
  <2>1. CASE wire' = <<>> /\ Keys(screen') = Before \o Full(c')
    <3>1. c'.postTail = <<>> /\ c'.postResume = NoKey /\ c' \in Locals
      <4>1. pc \notin Late3 /\ c'.postTail = c.postTail /\ c'.postResume = c.postResume
        BY DrainedFields DEF Sweep, IntrusionProbe, Late3
      <4>2. QED
        BY <4>1, Typed DEF Ahead, TypeOK
    <3>2. Before \o Full(c') \in Seq(Char)
      BY <3>1, SettledTypes
    <3>3. SettledBy(c') = Before \o Full(c')
      BY <3>1, <3>2, KeyTypes, ConcatEmptySeq DEF SettledBy
    <3>4. QED
      BY <2>1, <3>2, <3>3, LeadsNowhere
  <2>2. CASE wire' # <<>> /\ ~wire'[1].shown
    BY <2>2
  <2>3. QED
    BY <1>2, <2>1, <2>2, Arrives
<1>3. QED
  BY <1>1, <1>2 DEF Followable, Early

LEMMA SettlingFields ==
  ASSUME TypeOK, SettleProbe, slips' = {}
  PROVE  /\ c'.target = c.target /\ c'.tail = c.tail /\ c'.resume = c.resume
         /\ c'.postTail = c.postTail \o Drain.words
         /\ c'.suspicious => Drain.rest = <<>>
         /\ ~c'.suspicious =>
              /\ ~c.suspicious /\ ~Drain.suspicious
              /\ IF c.postResume = NoKey
                 THEN c'.postResume = Drain.resume
                 ELSE c'.postResume = c.postResume /\ Drain.words = <<>>
                        /\ Drain.resume = NoKey
<1> DEFINE again == c.postResume # NoKey \/ Drain.resume \in Submit
           keep  == Drain.resume # NoKey /\ ~again
           x == c.postTail \o Drain.words
           y == IF keep THEN Drain.resume ELSE c.postResume
           z == c.suspicious \/ Drain.suspicious \/ (Drain.resume # NoKey /\ again)
<1>1. c' = [c EXCEPT !.postTail = x, !.postResume = y, !.suspicious = z]
  BY Typed DEF SettleProbe, Locals
<1>2. Late(c.postResume, Drain) = {} /\ Outlived = {}
  BY DEF SettleProbe
<1>3. c.postResume # NoKey => Drain.words = <<>>
  BY <1>2 DEF Late
<1> HIDE DEF x, y, z
<1>4. /\ c'.target = c.target /\ c'.tail = c.tail /\ c'.resume = c.resume
      /\ c'.postTail = x /\ c'.postResume = y /\ c'.suspicious = z
  BY <1>1, Typed DEF Locals
<1>5. c'.suspicious => Drain.rest = <<>>
  BY <1>2 DEF Outlived
<1>6. ~z => ~c.suspicious /\ ~Drain.suspicious
              /\ IF c.postResume = NoKey THEN y = Drain.resume
                 ELSE y = c.postResume /\ Drain.words = <<>> /\ Drain.resume = NoKey
  BY <1>3 DEF y, z
<1>7. QED
  BY <1>4, <1>5, <1>6 DEF x

\* What is read while the correction settles is what was typed behind it.
LEMMA SettledGrows ==
  ASSUME TypeOK, TypeOK', SettleProbe, slips' = {}, ~c'.suspicious
  PROVE  SettledBy(c') = SettledBy(c) \o (Drain.words \o Optional(Drain.resume))
<1> DEFINE x == Before \o Full(c)
           p == c.postTail
           w == Drain.words
           o == Optional(c.postResume)
           r == Optional(Drain.resume)
<1>1. /\ x \in Seq(Char) /\ p \in Seq(Char) /\ o \in Seq(Char) /\ SettledBy(c) \in Seq(Char)
      /\ w \in Seq(Char) /\ r \in Seq(Char)
  BY Typed, SettledTypes, KeyTypes, OptionalLength DEF DrainTypes
<1>2. /\ SettledBy(c) = (x \o p) \o o
      /\ SettledBy(c') = (x \o (p \o w)) \o Optional(c'.postResume)
  <2>1. Full(c') = Full(c)
    BY SettlingFields DEF Full
  <2>2. QED
    BY <2>1, SettlingFields DEF SettledBy
<1>3. CASE c.postResume = NoKey
  <2>1. o = <<>> /\ Optional(c'.postResume) = r
    BY <1>3, SettlingFields, KeyTypes
  <2> HIDE DEF x, p, w, o, r
  <2>2. x \o p \in Seq(Char)
    BY <1>1, ConcatProperties
  <2>3. (x \o p) \o <<>> = x \o p
    BY <2>2, ConcatEmptySeq
  <2>4. x \o (p \o w) = (x \o p) \o w
    BY <1>1, Rejoined, SMTT(30)
  <2>5. ((x \o p) \o w) \o r = (x \o p) \o (w \o r)
    BY <1>1, <2>2, Rejoined, SMTT(30)
  <2>6. QED
    BY <1>2, <2>1, <2>3, <2>4, <2>5 DEF w, r
<1>4. CASE c.postResume # NoKey
  <2>1. w = <<>> /\ r = <<>> /\ Optional(c'.postResume) = o
    BY <1>4, SettlingFields, KeyTypes
  <2> HIDE DEF x, p, w, o, r
  <2>2. p \o <<>> = p /\ <<>> \o <<>> = <<>> /\ SettledBy(c) \o <<>> = SettledBy(c)
    BY <1>1, ConcatEmptySeq
  <2>3. QED
    BY <1>2, <2>1, <2>2 DEF w, r
<1>5. QED
  BY <1>3, <1>4

LEMMA SettleFollowable ==
  ASSUME TypeOK, TypeOK', Followable, SettleProbe, slips' = {}
  PROVE  Followable'
<1>1. /\ pc = "settle" /\ pc' \in {"settle", "seed"} /\ wire' = Drain.rest
      /\ screen' = screen /\ Swallowed(Drain) = {}
  BY DEF SettleProbe
<1>2. CASE c'.suspicious
  <2>1. wire' = <<>> /\ Keys(screen) \in Seq(Char)
    BY <1>1, <1>2, SettlingFields, Typed, KeysOfScreen
  <2>2. Leads(wire', Keys(screen), Keys(screen'))
    BY <1>1, <2>1, LeadsNowhere
  <2>3. QED
    BY <1>1, <1>2, <2>1, <2>2 DEF Followable, Early
<1>3. CASE ~c'.suspicious
  <2>1. ~c.suspicious /\ ~Drain.suspicious
    BY <1>3, SettlingFields
  <2>2. ~(wire # <<>> /\ ~wire[1].shown)
    <3> SUFFICES ASSUME wire # <<>>, ~wire[1].shown PROVE FALSE
      OBVIOUS
    <3> DEFINE p == Drain.presses
               q == Drain.rest
    <3>1. p \in Seq(Sent) /\ q \in Seq(Sent) /\ wire = p \o q /\ p # <<>>
      BY Typed DEF DrainTypes
    <3>2. \A i \in DOMAIN p : p[i].key \in Char
      BY <2>1, TakenPlain
    <3> HIDE DEF p, q
    <3>3. 1 \in 1..Len(p) /\ DOMAIN p = 1..Len(p) /\ Len(p) \in Nat /\ Len(q) \in Nat
      BY <3>1
    <3>4. wire[1] = p[1]
      <4>1. 1 \in 1..Len(p) + Len(q) /\ 1 <= Len(p)
        BY <3>3
      <4>2. (p \o q)[1] = p[1]
        BY <3>1, <4>1, ConcatProperties
      <4>3. QED
        BY <3>1, <4>2
    <3>5. p[1].key \in Char /\ ~p[1].shown /\ 1 \in DOMAIN p
      BY <3>2, <3>3, <3>4
    <3>6. QED
      BY <1>1, <3>5 DEF Swallowed, p
  <2>3. Leads(wire, SettledBy(c), Keys(screen))
    BY <1>1, <2>1, <2>2 DEF Followable
  <2>4. Leads(Drain.rest, SettledBy(c'), Keys(screen))
    BY <1>3, <2>1, <2>3, DrainLeads, SettledGrows
  <2>5. SettledBy(c') \in Seq(Char)
    BY SettledTypes DEF TypeOK
  <2>6. QED
    BY <1>1, <2>4, <2>5 DEF Followable, Early
<1>4. QED
  BY <1>2, <1>3

\* The seeded buffer is behind the text that was typed again.
LEMMA SeededAhead ==
  ASSUME TypeOK, Ahead, Seed, ~c.suspicious
  PROVE  Described(buf', SettledBy(c))
<1> DEFINE x == Before \o c.target
           o == Optional(c.resume)
           b1 == SeedBuffer(buf, c.tail)
           b2 == FeedOptional(b1, c.resume)
           b3 == SeedBuffer(b2, c.postTail)
           b4 == FeedOptional(b3, c.postResume)
           y == Before \o Full(c)
<1>1. /\ c.tail \in Seq(Letter) /\ c.resume \in Separator \cup {NoKey}
      /\ c.postTail \in Seq(Letter) /\ c.postResume \in Separator \cup {NoKey}
      /\ c.target \in Seq(Char) /\ Before \in Seq(Char) /\ buf \in Buffer
      /\ c.tail \in Seq(Char) /\ c.postTail \in Seq(Char) /\ o \in Seq(Char)
  BY Typed, KeyTypes, CorrectionAssumption DEF Locals
<1>2. buf' = b4 /\ pc = "seed"
  BY DEF Seed
<1>3. x \in Seq(Char) /\ Described(buf, x)
  BY <1>1, <1>2, ConcatProperties DEF Ahead
<1>4. y = (x \o c.tail) \o o
  <2> DEFINE t == c.target
             s == c.tail
  <2>1. Full(c) = t \o (s \o o)
    BY Typed, FullLength
  <2> HIDE DEF t, s, o
  <2>2. t \in Seq(Char) /\ s \in Seq(Char) /\ o \in Seq(Char) /\ s \o o \in Seq(Char)
        /\ Before \o t \in Seq(Char)
    BY <1>1, ConcatProperties DEF t, s, o
  <2>3. Before \o (t \o (s \o o)) = (Before \o t) \o (s \o o)
    BY <1>1, <2>2, Rejoined, SMTT(30)
  <2>4. (Before \o t) \o (s \o o) = ((Before \o t) \o s) \o o
    BY <1>1, <2>2, Rejoined, SMTT(30)
  <2>5. QED
    BY <2>1, <2>3, <2>4 DEF t, s
<1> HIDE DEF x, y
<1>5. b1 \in Buffer /\ Described(b1, x \o c.tail) /\ x \o c.tail \in Seq(Char)
  BY <1>1, <1>3, SeedDescribed, ConcatProperties
<1> HIDE DEF b1
<1>6. b2 \in Buffer /\ Described(b2, y) /\ y \in Seq(Char)
  BY <1>1, <1>4, <1>5, OptionalDescribed
<1> HIDE DEF b2
<1>7. b3 \in Buffer /\ Described(b3, y \o c.postTail) /\ y \o c.postTail \in Seq(Char)
  BY <1>1, <1>6, SeedDescribed, ConcatProperties
<1> HIDE DEF b3
<1>8. Described(b4, (y \o c.postTail) \o Optional(c.postResume))
  BY <1>1, <1>7, OptionalDescribed
<1>9. QED
  BY <1>2, <1>8 DEF SettledBy, y

LEMMA SeedFollowable ==
  ASSUME TypeOK, Ahead, Followable, Seed
  PROVE  Followable'
<1>1. pc = "seed" /\ pc' = "run" /\ wire' = wire /\ screen' = screen
  BY DEF Seed, Return
<1>2. \E t \in Seq(Char) : Leads(wire, t, Keys(screen)) /\ Described(buf', t)
  <2>1. CASE c.suspicious
    <3> DEFINE a == Abandon(buf)
    <3>1. buf' = Poison(a) /\ buf \in Buffer
      BY <2>1, Typed DEF Seed
    <3>2. Holds(a, <<>>, <<>>, <<>>) /\ a.prevLead = NoKey
      BY <3>1, AbandonFields
    <3> HIDE DEF a
    <3>3. Blank(buf') /\ buf'.prevLead = NoKey
      BY <3>1, <3>2, PoisonFields DEF Holds, Blank
    <3>4. \A t \in Seq(Char) : Described(buf', t)
      BY <3>3, DescribedBlank
    <3>5. QED
      BY <1>1, <3>4 DEF Followable
  <2>2. CASE ~c.suspicious
    <3>1. SettledBy(c) \in Seq(Char) /\ Leads(wire, SettledBy(c), Keys(screen))
      BY <1>1, <2>2, Typed, SettledTypes DEF Followable
    <3>2. QED
      BY <2>2, <3>1, SeededAhead
  <2>3. QED
    BY <2>1, <2>2
<1>3. QED
  BY <1>1, <1>2 DEF Followable, Early

LEMMA HandleFollowable ==
  ASSUME TypeOK, Followable, HandleKey
  PROVE  Followable'
<1> DEFINE p == Head(wire)
           k == p.key
           r == Tail(wire)
<1>1. /\ pc = "run" /\ pc' = "run" /\ wire # <<>> /\ wire' = r /\ screen' = screen
      /\ buf' = CASE k \in Letter    -> FeedWord(buf, k)
                  [] k \in Separator -> FeedBoundary(buf, k)
                  [] k = Backspace   -> FeedBackspace(buf)
                  [] OTHER           -> MarkContextUnclean(Abandon(buf))
  BY DEF HandleKey
<1>2. p \in Sent /\ k \in Key /\ r \in Seq(Sent) /\ wire = <<p>> \o r /\ buf \in Buffer
  <2>1. wire \in Seq(Sent) /\ wire # <<>> /\ buf \in Buffer
    BY <1>1, Typed
  <2>2. p \in Sent /\ r \in Seq(Sent) /\ wire = <<p>> \o r
    BY <2>1, HeadTailProperties
  <2>3. QED
    BY <2>1, <2>2 DEF Sent
<1>3. PICK t \in Seq(Char) : Leads(wire, t, Keys(screen)) /\ Described(buf, t)
  BY <1>1 DEF Followable
<1> HIDE DEF p, r
<1>4. <<p>> \in Seq(Sent)
  BY <1>2
<1>5. PICK v \in Seq(Char) : Leads(<<p>>, t, v) /\ Leads(r, v, Keys(screen))
  BY <1>2, <1>3, <1>4, LeadsSplit
<1>6. v = Strike(t, k)
  BY <1>2, <1>5, LeadsOne
<1> HIDE DEF k
<1>7. Described(buf', v)
  <2>1. Letter \subseteq Char /\ Separator \subseteq Char /\ Letter \cap Separator = {}
        /\ Backspace \notin Char
    BY KeyTypes, BufferAssumption, CorrectionAssumption
  <2>2. CASE k \in Letter
    <3>1. v = Append(t, k) /\ buf' = FeedWord(buf, k)
      BY <1>1, <1>6, <2>1, <2>2 DEF Strike
    <3>2. QED
      BY <1>2, <1>3, <2>2, <3>1, DescribedLetter
  <2>3. CASE k \in Separator
    <3>1. v = Append(t, k) /\ buf' = FeedBoundary(buf, k)
      BY <1>1, <1>6, <2>1, <2>3 DEF Strike
    <3>2. QED
      BY <1>2, <1>3, <2>3, <3>1, DescribedSeparator
  <2>4. CASE k = Backspace
    <3>1. v = RubOut(t) /\ buf' = FeedBackspace(buf)
      BY <1>1, <1>6, <2>1, <2>4 DEF Strike
    <3>2. QED
      BY <1>2, <1>3, <3>1, DescribedBackspace
  <2>5. CASE k \notin Letter /\ k \notin Separator /\ k # Backspace
    <3>1. buf' = MarkContextUnclean(Abandon(buf))
      BY <1>1, <2>5
    <3>2. QED
      BY <1>2, <1>5, <3>1, DescribedEmptied
  <2>6. QED
    BY <2>2, <2>3, <2>4, <2>5
<1>8. QED
  BY <1>1, <1>5, <1>7 DEF Followable, Early

LEMMA TrackableKept ==
  ASSUME IInv, IInv', Told, Ahead, Trackable, [Next]_vars
  PROVE  Trackable'
<1> SUFFICES ASSUME slips' = {} PROVE Followable'
  BY DEF Trackable
<1>1. slips = {} /\ Followable
  BY SlipsGrow DEF Trackable
<1>2. TypeOK /\ TypeOK' /\ Placed /\ Placed' /\ Chronicle /\ Chronicle'
  BY DEF IInv
<1>3. CASE \E k \in Key : Press(k)
  BY <1>1, <1>2, <1>3, PressFollowable
<1>4. CASE LiftTrigger \/ DesktopPutsBack \/ Idle \/ UNCHANGED vars
  <2>1. UNCHANGED <<pc, wire, screen, c, buf>>
    BY <1>4 DEF LiftTrigger, DesktopPutsBack, Idle, vars
  <2>2. QED
    BY <1>1, <2>1, SameFollowable
<1>5. CASE WaitProbe \/ AbsorbProbe
  BY <1>1, <1>2, <1>5, EarlyFollowable
<1>6. CASE WaitGivesUp \/ AbsorbAborts \/ PreflightFails \/ SwitchLost
  BY <1>1, <1>2, <1>6, AbortFollowable
<1>7. CASE \/ WaitOver \/ SwitchLayout \/ StartBurst \/ DeleteOne \/ DeletedHeld
           \/ DeleteProbe \/ ReplayOne \/ ReplayDone \/ FlushProbe \/ Release
  BY <1>1, <1>2, <1>7, QuietFollowable
<1>8. CASE EmitFails
  BY <1>8 DEF EmitFails
<1>9. CASE Sweep \/ IntrusionProbe
  BY <1>1, <1>2, <1>9, ArrivalFollowable
<1>10. CASE SettleProbe
  BY <1>1, <1>2, <1>10, SettleFollowable
<1>11. CASE Seed
  BY <1>1, <1>2, <1>11, SeedFollowable
<1>12. CASE HandleKey
  BY <1>1, <1>2, <1>12, HandleFollowable
<1>13. QED
  BY <1>3, <1>4, <1>5, <1>6, <1>7, <1>8, <1>9, <1>10, <1>11, <1>12 DEF Next, Engine

\* Whatever was pressed while a correction ran, and whether or not it went
\* through, the buffer describes the text again once the channel is empty; if
\* the correction tainted it, then from the next boundary on.
THEOREM BufferComesBack == Spec => []BufferRecovers
<1> DEFINE Inv == IInv /\ Told /\ Ahead /\ Trackable
<1>1. Init => Inv
  BY InitIInv, InitTrackable
<1>2. Inv /\ [Next]_vars => Inv'
  <2> SUFFICES ASSUME Inv, [Next]_vars PROVE Inv'
    OBVIOUS
  <2>1. IInv'
    BY IInvKept
  <2>2. TypeOK
    BY DEF IInv
  <2>3. QED
    BY <2>1, <2>2, ToldKept, AheadKept, TrackableKept
<1>3. Inv => BufferRecovers
  <2> SUFFICES ASSUME IInv, Trackable, pc = "run", wire = <<>>, slips = {}
               PROVE  Recovers
    BY DEF BufferRecovers, Over
  <2> DEFINE u == Keys(screen)
  <2>1. u \in Seq(Char) /\ buf \in Buffer
    BY Typed, KeysOfScreen DEF IInv
  <2>2. \E t \in Seq(Char) : Leads(<<>>, t, u) /\ Described(buf, t)
    BY DEF Trackable, Followable
  <2> HIDE DEF u
  <2>3. Described(buf, u)
    BY <2>2, LeadsNowhere
  <2>4. CASE buf.poisoned
    <3>1. ASSUME NEW s \in Separator PROVE Tracks(FeedBoundary(buf, s), Append(u, s))
      BY <2>1, <2>3, DescribedSeparator DEF Described
    <3>2. QED
      BY <2>4, <3>1 DEF Recovers, u
  <2>5. CASE ~buf.poisoned
    BY <2>3, <2>5 DEF Described, Recovers, u
  <2>6. QED
    BY <2>4, <2>5
<1>4. QED
  BY <1>1, <1>2, <1>3, PTL DEF Spec
=============================================================================
