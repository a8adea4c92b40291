--------------------------- MODULE SuggestionsProofs ---------------------------
(***************************************************************************)
(* The spelling offer, for every alphabet, every set of words and texts    *)
(* and every bound.                                                        *)
(***************************************************************************)
EXTENDS Suggestions, WordBufferProofs, FiniteSetTheorems

Event   == [kind : {"show", "highlight", "hide"}, generation : 1..MaxOffers]
Press   == [key : Char \cup Special, away : BOOLEAN]
Command == [kind : {"accept", "timeout"}, generation : 1..MaxOffers]
Result  == [by : {"nobody", "key", "pointer"}, right : BOOLEAN, strayed : BOOLEAN]

\* What the engine's calls work on.
Cores ==
  [ buf : Buffer, offer : Offer \cup {NoOffer}, armed : BOOLEAN,
    outs : Seq(Event), made : 0..MaxOffers, wire : Seq(Press),
    screen : Seq(Char), done : Result, slips : SUBSET {"strayed", "mistaken"} ]

\* TrailShape of a given slot, and an offer is for a word.
Shaped(p) ==
  p # NoOffer => /\ HasSeparator(p.trail)
                 /\ \A i \in DOMAIN p.trail : p.trail[i] \notin Submit
                 /\ p.keys # <<>>

\* The last event under way to the tooltip speaks of the pending offer.
Announced(outs_, p) ==
  outs_ # <<>> =>
    IF outs_[Len(outs_)].kind = "hide" THEN p = NoOffer
    ELSE p # NoOffer /\ p.generation = outs_[Len(outs_)].generation

Fronted(e) ==
  /\ e.armed => e.offer # NoOffer
  /\ e.outs = <<>> /\ tip # 0 => e.offer # NoOffer /\ e.offer.generation = tip
  /\ Announced(e.outs, e.offer)

Good(e) == e \in Cores /\ Shaped(e.offer) /\ Fronted(e)

\* Neither the channel nor the text nor the history is touched.
Kept(e, f) ==
  /\ f.wire = e.wire /\ f.screen = e.screen
  /\ f.done = e.done /\ f.slips = e.slips

\* The text the offer is behind.  An offer whose grace has begun has emptied
\* the buffer; until then the buffer is trusted.
OfferedAt(p, b, t) ==
  p # NoOffer =>
    /\ ~p.strayed => EndsAt(t, Len(t), p.keys \o p.trail)
    /\ IF p.grace = "none" THEN ~b.poisoned ELSE Blank(b)

Behind(e, t) == Described(e.buf, t) /\ OfferedAt(e.offer, e.buf, t)

\* What a press on the channel does to the text.
Effect(p, s, t) ==
  /\ p.key \in Char => t = Append(s, p.key)
  /\ p.key = Backspace => t = RubOut(s)
  /\ p.key = HeldBackspace => \E n \in 0..Len(s) : t = Keep(s, n)
  /\ p.key \in {Accept, Move} => t = s
  /\ p.key = Click /\ ~p.away => t = s

-----------------------------------------------------------------------------
(* The keys that are no text are seven different ones. *)

LEMMA AddedOne ==
  ASSUME NEW S, NEW x, IsFiniteSet(S), NEW n \in Nat, Cardinality(S) <= n
  PROVE  /\ IsFiniteSet(S \cup {x}) /\ Cardinality(S \cup {x}) <= n + 1
         /\ Cardinality(S \cup {x}) = n + 1 => Cardinality(S) = n /\ x \notin S
<1>1. Cardinality(S) \in Nat
  BY FS_CardinalityType
<1>2. QED
  BY <1>1, FS_AddElement

LEMMA SpecialKeys ==
  /\ Backspace \notin {HeldBackspace, Shortcut, Nav, Click, Accept, Move}
  /\ HeldBackspace \notin {Shortcut, Nav, Click, Accept, Move}
  /\ Shortcut \notin {Nav, Click, Accept, Move}
  /\ Nav \notin {Click, Accept, Move}
  /\ Click \notin {Accept, Move}
  /\ Accept # Move
  /\ Special \cap Char = {} /\ NoKey \notin Special
  /\ Letter \subseteq Char /\ Separator \subseteq Char
  /\ Letter \cap Separator = {} /\ NoKey \notin Separator
<1> DEFINE s0 == {}
           s1 == s0 \cup {Move}
           s2 == s1 \cup {Accept}
           s3 == s2 \cup {Click}
           s4 == s3 \cup {Nav}
           s5 == s4 \cup {Shortcut}
           s6 == s5 \cup {HeldBackspace}
           s7 == s6 \cup {Backspace}
<1>0. IsFiniteSet(s0) /\ Cardinality(s0) = 0
  BY FS_EmptySet
<1> HIDE DEF s0
<1>1. IsFiniteSet(s1) /\ Cardinality(s1) <= 1
  BY <1>0, FS_AddElement
<1> HIDE DEF s1
<1>2. /\ IsFiniteSet(s2) /\ Cardinality(s2) <= 1 + 1
      /\ Cardinality(s2) = 1 + 1 => Cardinality(s1) = 1 /\ Accept \notin s1
  BY <1>1, AddedOne
<1> HIDE DEF s2
<1>3. /\ IsFiniteSet(s3) /\ Cardinality(s3) <= 2 + 1
      /\ Cardinality(s3) = 2 + 1 => Cardinality(s2) = 2 /\ Click \notin s2
  BY <1>2, AddedOne
<1> HIDE DEF s3
<1>4. /\ IsFiniteSet(s4) /\ Cardinality(s4) <= 3 + 1
      /\ Cardinality(s4) = 3 + 1 => Cardinality(s3) = 3 /\ Nav \notin s3
  <2>1. IsFiniteSet(s3) /\ 3 \in Nat /\ Cardinality(s3) <= 3
    BY <1>3
  <2>2. /\ IsFiniteSet(s3 \cup {Nav}) /\ Cardinality(s3 \cup {Nav}) <= 3 + 1
        /\ Cardinality(s3 \cup {Nav}) = 3 + 1 => Cardinality(s3) = 3 /\ Nav \notin s3
    BY <2>1, AddedOne
  <2>3. QED
    BY <2>2
<1> HIDE DEF s4
<1>5. /\ IsFiniteSet(s5) /\ Cardinality(s5) <= 4 + 1
      /\ Cardinality(s5) = 4 + 1 => Cardinality(s4) = 4 /\ Shortcut \notin s4
  BY <1>4, AddedOne
<1> HIDE DEF s5
<1>6. /\ IsFiniteSet(s6) /\ Cardinality(s6) <= 5 + 1
      /\ Cardinality(s6) = 5 + 1 => Cardinality(s5) = 5 /\ HeldBackspace \notin s5
  BY <1>5, AddedOne
<1> HIDE DEF s6
<1>7. Cardinality(s7) = 6 + 1 => Cardinality(s6) = 6 /\ Backspace \notin s6
  BY <1>6, AddedOne
<1> HIDE DEF s7
<1>8. s7 = Special
  BY DEF s0, s1, s2, s3, s4, s5, s6, s7, Special
<1>9. Cardinality(s7) = 7
  BY <1>8, SuggestionsAssumption
<1>10. /\ Backspace \notin s6 /\ HeldBackspace \notin s5 /\ Shortcut \notin s4
       /\ Nav \notin s3 /\ Click \notin s2 /\ Accept \notin s1
  BY <1>2, <1>3, <1>4, <1>5, <1>6, <1>7, <1>9
<1>11. /\ Backspace \notin {HeldBackspace, Shortcut, Nav, Click, Accept, Move}
       /\ HeldBackspace \notin {Shortcut, Nav, Click, Accept, Move}
       /\ Shortcut \notin {Nav, Click, Accept, Move}
       /\ Nav \notin {Click, Accept, Move}
       /\ Click \notin {Accept, Move} /\ Accept # Move
  BY <1>10 DEF s1, s2, s3, s4, s5, s6
<1>12. QED
  BY <1>11, SuggestionsAssumption, BufferAssumption DEF Char

LEMMA TextTypes ==
  Seq(Letter) \subseteq Seq(Char) /\ Seq(Separator) \subseteq Seq(Char)
BY SeqMonotonic DEF Char

LEMMA OfferIsSome ==
  ASSUME NEW p \in Offer
  PROVE  p # NoOffer /\ p.generation \in 1..MaxOffers /\ p.generation # 0
BY DEF Offer, NoOffer

-----------------------------------------------------------------------------
(* What each call keeps of the slot, the claim and the tooltip. *)

LEMMA LastAdded ==
  ASSUME NEW S, NEW s \in Seq(S), NEW x \in S
  PROVE  /\ Append(s, x) \in Seq(S) /\ Append(s, x) # <<>>
         /\ Append(s, x)[Len(Append(s, x))] = x
OBVIOUS

LEMMA ClearedFields ==
  ASSUME NEW e \in Cores, Pending(e)
  PROVE  /\ Cleared(e) \in Cores /\ Good(Cleared(e))
         /\ Cleared(e).offer = NoOffer /\ ~Pending(Cleared(e))
         /\ Cleared(e).buf = e.buf /\ Kept(e, Cleared(e))
<1> DEFINE h == [kind |-> "hide", generation |-> e.offer.generation]
           c == Cleared(e)
<1>1. e.offer \in Offer /\ e.outs \in Seq(Event)
  BY DEF Cores, Pending
<1>2. h \in Event
  BY <1>1, OfferIsSome DEF Event
<1>3. /\ Append(e.outs, h) \in Seq(Event) /\ Append(e.outs, h) # <<>>
      /\ Append(e.outs, h)[Len(Append(e.outs, h))] = h
  BY <1>1, <1>2, LastAdded
<1>4. c = [e EXCEPT !.offer = NoOffer, !.armed = FALSE, !.outs = Append(e.outs, h)]
  BY DEF Cleared
<1> HIDE DEF c
<1>5. /\ c \in Cores /\ c.offer = NoOffer /\ c.armed = FALSE
      /\ c.outs = Append(e.outs, h)
      /\ c.buf = e.buf /\ c.wire = e.wire /\ c.screen = e.screen
      /\ c.done = e.done /\ c.slips = e.slips
  BY <1>3, <1>4 DEF Cores
<1>6. Shaped(c.offer)
  BY <1>5 DEF Shaped
<1>7. h.kind = "hide"
  OBVIOUS
<1> HIDE DEF h
<1>8. Fronted(c)
  BY <1>3, <1>5, <1>7 DEF Fronted, Announced
<1>9. QED
  BY <1>5, <1>6, <1>8 DEF c, Good, Pending, Kept

LEMMA DismissGood ==
  ASSUME NEW e, Good(e)
  PROVE  /\ Good(Dismiss(e)) /\ Dismiss(e).offer = NoOffer
         /\ Dismiss(e).buf = e.buf /\ Kept(e, Dismiss(e))
BY ClearedFields DEF Good, Dismiss, Pending, Kept

\* The buffer and the text are nothing the slot depends on.
LEMMA FedGood ==
  ASSUME NEW e, Good(e), NEW b \in Buffer
  PROVE  /\ Good(Fed(e, b)) /\ Fed(e, b).buf = b /\ Fed(e, b).offer = e.offer
         /\ Kept(e, Fed(e, b))
<1> DEFINE f == Fed(e, b)
<1>1. e \in Cores /\ f = [e EXCEPT !.buf = b]
  BY DEF Good, Fed
<1> HIDE DEF f
<1>2. /\ f \in Cores /\ f.buf = b /\ f.offer = e.offer /\ f.armed = e.armed
      /\ f.outs = e.outs /\ f.wire = e.wire /\ f.screen = e.screen
      /\ f.done = e.done /\ f.slips = e.slips
  BY <1>1 DEF Cores
<1>3. QED
  BY <1>2 DEF Good, Fronted, f, Kept

\* The slot keeps its generation.
LEMMA SlotGood ==
  ASSUME NEW e, Good(e), Pending(e), NEW p \in Offer, Shaped(p),
         p.generation = e.offer.generation
  PROVE  LET f == [e EXCEPT !.offer = p]
         IN  Good(f) /\ f.buf = e.buf /\ f.offer = p /\ Kept(e, f)
<1> DEFINE f == [e EXCEPT !.offer = p]
<1>1. e \in Cores
  BY DEF Good
<1>2. /\ f \in Cores /\ f.offer = p /\ f.buf = e.buf /\ f.armed = e.armed
      /\ f.outs = e.outs /\ f.wire = e.wire /\ f.screen = e.screen
      /\ f.done = e.done /\ f.slips = e.slips
  BY <1>1 DEF Cores
<1> HIDE DEF f
<1>3. p # NoOffer /\ e.offer # NoOffer
  BY OfferIsSome DEF Pending
<1>4. Fronted(f)
  BY <1>2, <1>3 DEF Good, Fronted, Announced
<1>5. QED
  BY <1>2, <1>4 DEF Good, f, Kept

LEMMA TrailTypes ==
  ASSUME NEW t \in Seq(Char), NEW k \in Char \cup Special
  PROVE  /\ Trailed(t, k) \in Seq(Char)
         /\ HasSeparator(t) /\ (\A i \in DOMAIN t : t[i] \notin Submit)
              /\ ~LosesTrack(Trailed(t, k), k)
              => /\ HasSeparator(Trailed(t, k))
                 /\ \A i \in DOMAIN Trailed(t, k) : Trailed(t, k)[i] \notin Submit
<1>1. Len(t) \in Nat /\ DOMAIN t = 1..Len(t)
  OBVIOUS
<1>2. CASE k \in Char
  <2>1. Trailed(t, k) = Append(t, k) /\ k # Backspace
    BY <1>2, SpecialKeys DEF Trailed, Special
  <2>2. /\ Append(t, k) \in Seq(Char) /\ DOMAIN Append(t, k) = 1..Len(t) + 1
        /\ \A i \in 1..Len(t) : Append(t, k)[i] = t[i]
        /\ Append(t, k)[Len(t) + 1] = k
    BY <1>2
  <2>3. ~LosesTrack(Append(t, k), k) => k \notin Submit
    BY DEF LosesTrack
  <2>4. QED
    BY <1>1, <2>1, <2>2, <2>3 DEF HasSeparator
<1>3. CASE k = Backspace
  <2>1. Trailed(t, k) = Front(t) /\ k \notin Char
    BY <1>3, SpecialKeys DEF Trailed, Special
  <2>2. /\ Front(t) \in Seq(Char) /\ DOMAIN Front(t) \subseteq DOMAIN t
        /\ \A i \in DOMAIN Front(t) : Front(t)[i] = t[i]
    BY <1>1 DEF Front
  <2>3. ~LosesTrack(Front(t), k) => HasSeparator(Front(t))
    BY <1>3 DEF LosesTrack
  <2>4. QED
    BY <1>1, <2>1, <2>2, <2>3
<1>4. CASE k \notin Char /\ k # Backspace
  BY <1>4 DEF Trailed
<1>5. QED
  BY <1>2, <1>3, <1>4

LEMMA TrackFields ==
  ASSUME NEW e, Good(e), NEW k \in Char \cup Special
  PROVE  LET f == Track(e, k)
             t == Trailed(e.offer.trail, k)
         IN  /\ Good(f) /\ f.buf = e.buf /\ Kept(e, f)
             /\ f.offer = NoOffer
                \/ /\ Pending(e) /\ ~LosesTrack(t, k)
                   /\ f.offer = [e.offer EXCEPT !.trail = t]
<1> DEFINE f == Track(e, k)
           t == Trailed(e.offer.trail, k)
           p == [e.offer EXCEPT !.trail = t]
<1>1. CASE ~Pending(e)
  BY <1>1 DEF Track, Pending, Kept
<1>2. CASE Pending(e) /\ LosesTrack(t, k)
  <2>1. f = Cleared(e) /\ e \in Cores
    BY <1>2 DEF Track, Good
  <2>2. QED
    BY <1>2, <2>1, ClearedFields DEF Good
<1>3. CASE Pending(e) /\ ~LosesTrack(t, k)
  <2>1. f = [e EXCEPT !.offer = p]
    BY <1>3 DEF Track
  <2>2. e.offer \in Offer /\ e.offer.trail \in Seq(Char)
    BY <1>3 DEF Good, Cores, Pending, Offer
  <2>3. t \in Seq(Char)
    BY <2>2, TrailTypes
  <2>4. /\ HasSeparator(t) /\ \A i \in DOMAIN t : t[i] \notin Submit
        /\ e.offer.keys # <<>>
    BY <1>3, <2>2, TrailTypes DEF Good, Shaped, Pending
  <2> HIDE DEF t
  <2>5. /\ p \in Offer /\ p.generation = e.offer.generation /\ p.trail = t
        /\ p.keys = e.offer.keys
    BY <2>2, <2>3 DEF Offer
  <2>6. Shaped(p)
    BY <2>4, <2>5 DEF Shaped
  <2> HIDE DEF p
  <2>7. Good(f) /\ f.buf = e.buf /\ f.offer = p /\ Kept(e, f)
    BY <1>3, <2>1, <2>5, <2>6, SlotGood
  <2>8. QED
    BY <1>3, <2>7 DEF p, t
<1>4. QED
  BY <1>1, <1>2, <1>3

LEMMA GraceTickFields ==
  ASSUME NEW e, Good(e), NEW k
  PROVE  LET f == GraceTick(e, k)
         IN  /\ Good(f) /\ f.buf = e.buf /\ Kept(e, f)
             /\ \/ f.offer = NoOffer
                \/ f.offer = e.offer /\ e.offer.grace = "none"
                \/ f.offer = e.offer /\ e.offer.grace = "open" /\ k = Click
<1> DEFINE f == GraceTick(e, k)
<1>1. e \in Cores /\ (Pending(e) => e.offer.grace \in {"none", "open", "lapsed"})
  BY DEF Good, Cores, Pending, Offer
<1>2. CASE f = Cleared(e) /\ Pending(e)
  BY <1>1, <1>2, ClearedFields
<1>3. CASE f = e /\ (~Pending(e) \/ ~(e.offer.grace = "lapsed"
                                      \/ (e.offer.grace = "open" /\ k # Click)))
  BY <1>1, <1>3 DEF Kept, Pending
<1>4. QED
  BY <1>2, <1>3 DEF GraceTick

LEMMA FreezeFields ==
  ASSUME NEW e, Good(e)
  PROVE  LET f == Freeze(e)
         IN  /\ Good(f) /\ f.buf = e.buf /\ Kept(e, f)
             /\ \/ f.offer = e.offer
                \/ /\ Pending(e)
                   /\ f.offer = [e.offer EXCEPT !.grace = "open"]
<1> DEFINE f == Freeze(e)
           p == [e.offer EXCEPT !.grace = "open"]
<1>1. CASE Live(e) /\ Agrees(e.offer, e.buf)
  <2>1. f = [e EXCEPT !.offer = p] /\ Pending(e)
    BY <1>1 DEF Freeze, Live
  <2>2. e.offer \in Offer /\ Shaped(e.offer)
    BY <2>1 DEF Good, Cores, Pending
  <2>3. /\ p \in Offer /\ p.generation = e.offer.generation
        /\ p.trail = e.offer.trail /\ p.keys = e.offer.keys
    BY <2>2 DEF Offer
  <2>4. Shaped(p)
    BY <2>1, <2>2, <2>3 DEF Shaped, Pending
  <2> HIDE DEF p
  <2>5. Good(f) /\ f.buf = e.buf /\ f.offer = p /\ Kept(e, f)
    BY <2>1, <2>3, <2>4, SlotGood
  <2>6. QED
    BY <2>1, <2>5 DEF p
<1>2. CASE ~(Live(e) /\ Agrees(e.offer, e.buf))
  <2>1. f = e
    BY <1>2 DEF Freeze
  <2>2. QED
    BY <2>1 DEF Kept
<1>3. QED
  BY <1>1, <1>2

LEMMA LostFields ==
  ASSUME NEW e, Good(e), NEW away \in BOOLEAN
  PROVE  LET f == Lost(e, away)
         IN  /\ Good(f) /\ f.buf = e.buf /\ Kept(e, f)
             /\ f.offer = NoOffer
                \/ /\ Pending(e) /\ e.offer.grace = "open"
                   /\ f.offer = [e.offer EXCEPT !.strayed = @ \/ away]
<1> DEFINE f == Lost(e, away)
           p == [e.offer EXCEPT !.strayed = @ \/ away]
<1>1. CASE HasGrace(e)
  <2>1. f = [e EXCEPT !.offer = p] /\ Pending(e) /\ e.offer.grace = "open"
    BY <1>1 DEF Lost, HasGrace
  <2>2. e.offer \in Offer /\ Shaped(e.offer)
    BY <2>1 DEF Good, Cores, Pending
  <2>3. /\ p \in Offer /\ p.generation = e.offer.generation
        /\ p.trail = e.offer.trail /\ p.keys = e.offer.keys
    BY <2>2 DEF Offer
  <2>4. Shaped(p)
    BY <2>1, <2>2, <2>3 DEF Shaped, Pending
  <2> HIDE DEF p
  <2>5. Good(f) /\ f.buf = e.buf /\ f.offer = p /\ Kept(e, f)
    BY <2>1, <2>3, <2>4, SlotGood
  <2>6. QED
    BY <2>1, <2>5 DEF p
<1>2. CASE ~HasGrace(e)
  BY <1>2, DismissGood DEF Lost
<1>3. QED
  BY <1>1, <1>2

LEMMA IdleFields ==
  ASSUME NEW e, Good(e), NEW idle \in BOOLEAN
  PROVE  LET f == IdleCheck(e, idle)
         IN  \/ f = e
             \/ /\ Good(f) /\ f.buf = Abandon(e.buf) /\ f.offer = NoOffer
                /\ Kept(e, f)
<1>1. CASE idle /\ ~Live(e)
  <2>1. IdleCheck(e, idle) = Fed(Dismiss(e), Abandon(e.buf))
    BY <1>1 DEF IdleCheck, Fed
  <2>2. Abandon(e.buf) \in Buffer
    BY AbandonFields DEF Good, Cores, Holds
  <2>3. QED
    BY <2>1, <2>2, DismissGood, FedGood DEF Kept
<1>2. CASE ~(idle /\ ~Live(e))
  BY <1>2 DEF IdleCheck
<1>3. QED
  BY <1>1, <1>2

LEMMA CutWord ==
  ASSUME NEW w \in Seq(Letter), NEW n \in 1..Len(w)
  PROVE  /\ SubSeq(w, 1, n) \in Seq(Letter) /\ SubSeq(w, n + 1, Len(w)) \in Seq(Letter)
         /\ Len(SubSeq(w, 1, n)) = n /\ Len(SubSeq(w, n + 1, Len(w))) = Len(w) - n
         /\ w = SubSeq(w, 1, n) \o SubSeq(w, n + 1, Len(w))
<1> DEFINE x == SubSeq(w, 1, n)
           y == SubSeq(w, n + 1, Len(w))
           m == Len(w)
<1>1. m \in Nat /\ n \in Nat /\ n <= m /\ 1 <= n /\ \A i \in 1..m : w[i] \in Letter
  BY ElementOfSeq
<1>2. /\ x \in Seq(Letter) /\ Len(x) = n /\ \A i \in 1..n : x[i] = w[i]
  BY <1>1, SubSeqProperties
<1>3. /\ y \in Seq(Letter) /\ Len(y) = m - n
      /\ \A i \in 1..m - n : y[i] = w[n + i]
  <2>1. n + 1 \in Int /\ m \in Int /\ \A i \in n + 1..m : w[i] \in Letter
    BY <1>1
  <2>2. /\ y \in Seq(Letter)
        /\ Len(y) = IF n + 1 <= m THEN m - (n + 1) + 1 ELSE 0
        /\ \A i \in 1..m - (n + 1) + 1 : y[i] = w[n + 1 + i - 1]
    BY <2>1, SubSeqProperties
  <2>3. m - (n + 1) + 1 = m - n /\ \A i \in 1..m - n : n + 1 + i - 1 = n + i
    BY <1>1
  <2>4. Len(y) = m - n
    BY <1>1, <2>2
  <2>5. \A i \in 1..m - n : y[i] = w[n + 1 + i - 1]
    BY <2>2, <2>3
  <2> HIDE DEF y
  <2>6. QED
    BY <2>2, <2>3, <2>4, <2>5
<1> HIDE DEF x, y
<1>4. /\ x \o y \in Seq(Letter) /\ Len(x \o y) = m
      /\ \A i \in 1..m : (x \o y)[i] = IF i <= n THEN x[i] ELSE y[i - n]
  <2>1. /\ x \o y \in Seq(Letter) /\ Len(x \o y) = Len(x) + Len(y)
        /\ \A i \in 1..Len(x) + Len(y) :
             (x \o y)[i] = IF i <= Len(x) THEN x[i] ELSE y[i - Len(x)]
    BY <1>2, <1>3, ConcatProperties
  <2>2. Len(x) + Len(y) = m
    BY <1>1, <1>2, <1>3
  <2>3. QED
    BY <1>2, <2>1, <2>2
<1>5. ASSUME NEW i \in 1..m PROVE (x \o y)[i] = w[i]
  <2>1. CASE i <= n
    BY <1>1, <1>2, <1>4, <2>1
  <2>2. CASE ~(i <= n)
    <3>1. i - n \in 1..m - n /\ n + (i - n) = i
      BY <1>1, <2>2
    <3>2. QED
      BY <1>3, <1>4, <2>2, <3>1
  <2>3. QED
    BY <2>1, <2>2
<1>6. w = x \o y
  BY <1>4, <1>5, SeqEqual
<1>7. QED
  BY <1>2, <1>3, <1>6 DEF x, y, m

LEMMA MakeOfferFields ==
  ASSUME NEW e, Good(e), claims \in BOOLEAN, e.made < MaxOffers,
         NEW w \in Seq(Letter), NEW n \in 1..Len(w),
         NEW s \in Separator \ Submit, e.buf.boundaryRun = <<s>>
  PROVE  LET f == MakeOffer(e, w, n)
         IN  /\ Good(f) /\ f.buf = e.buf /\ Kept(e, f)
             /\ f.offer \in Offer
             /\ f.offer.grace = "none" /\ f.offer.strayed = FALSE
             /\ f.offer.keys \o f.offer.trail = w \o <<s>>
<1> DEFINE f == MakeOffer(e, w, n)
           d == Dismiss(e)
           x == SubSeq(w, 1, n)
           y == SubSeq(w, n + 1, Len(w))
           t == y \o e.buf.boundaryRun
           p == [ generation |-> e.made + 1, keys |-> x, trail |-> t,
                  expired |-> FALSE, grace |-> "none", strayed |-> FALSE ]
           h == [kind |-> "show", generation |-> e.made + 1]
<1>1. /\ x \in Seq(Letter) /\ y \in Seq(Letter) /\ w = x \o y
      /\ <<s>> \in Seq(Separator)
  BY CutWord
<1>2. /\ x \in Seq(Char) /\ y \in Seq(Char) /\ <<s>> \in Seq(Char)
      /\ t = y \o <<s>>
  BY <1>1, TextTypes
<1> HIDE DEF x, y
<1>3. /\ t \in Seq(Char) /\ Len(t) = Len(y) + 1 /\ Len(y) \in Nat
      /\ \A i \in 1..Len(y) + 1 : t[i] = IF i <= Len(y) THEN y[i] ELSE s
  <2>1. /\ t \in Seq(Char) /\ Len(t) = Len(y) + Len(<<s>>)
        /\ \A i \in 1..Len(y) + Len(<<s>>) :
             t[i] = IF i <= Len(y) THEN y[i] ELSE <<s>>[i - Len(y)]
    BY <1>2, ConcatProperties
  <2>2. Len(<<s>>) = 1 /\ <<s>>[1] = s /\ Len(y) \in Nat
    BY <1>1
  <2>3. ASSUME NEW i \in 1..Len(y) + 1, ~(i <= Len(y)) PROVE i - Len(y) = 1
    BY <2>2, <2>3
  <2>4. QED
    BY <2>1, <2>2, <2>3
<1>4. x \o t = w \o <<s>>
  BY <1>1, <1>2, ConcatAssociative
<1>5. \A i \in 1..Len(y) : y[i] \in Letter
  BY <1>1, ElementOfSeq
<1>6. /\ HasSeparator(t)
      /\ \A i \in DOMAIN t : t[i] \notin Submit
  <2>1. DOMAIN t = 1..Len(y) + 1 /\ Len(y) + 1 \in 1..Len(y) + 1
        /\ ~(Len(y) + 1 <= Len(y))
    BY <1>3
  <2>2. t[Len(y) + 1] = s
    BY <1>3, <2>1
  <2>3. Letter \cap Submit = {}
    BY SpecialKeys, SuggestionsAssumption
  <2>4. ASSUME NEW i \in DOMAIN t PROVE t[i] \notin Submit
    <3>1. CASE i <= Len(y)
      <4>1. i \in 1..Len(y)
        BY <1>3, <2>1, <3>1
      <4>2. QED
        BY <1>3, <1>5, <2>1, <2>3, <3>1, <4>1
    <3>2. CASE ~(i <= Len(y))
      BY <1>3, <2>1, <3>2
    <3>3. QED
      BY <3>1, <3>2
  <2>5. QED
    BY <2>1, <2>2, <2>4 DEF HasSeparator
<1>7. /\ Good(d) /\ d.buf = e.buf /\ Kept(e, d) /\ e.made + 1 \in 1..MaxOffers
      /\ e.made + 1 \in 0..MaxOffers /\ d.outs \in Seq(Event)
  <2>1. Good(d) /\ d.buf = e.buf /\ Kept(e, d)
    BY DismissGood
  <2>2. e.made \in 0..MaxOffers /\ MaxOffers \in Nat
    BY SuggestionsAssumption DEF Good, Cores
  <2>3. QED
    BY <2>1, <2>2 DEF Good, Cores
<1> HIDE DEF t
<1>8. p \in Offer /\ p.generation = e.made + 1 /\ p.trail = t /\ p.keys = x
      /\ p.grace = "none" /\ p.strayed = FALSE
  BY <1>1, <1>3, <1>7 DEF Offer
<1>9. h \in Event /\ h.kind = "show" /\ h.generation = e.made + 1
  BY <1>7 DEF Event
<1>10. f = [d EXCEPT !.made = d.made + 1, !.offer = p, !.armed = claims,
                     !.outs = Append(d.outs, h)]
  BY DEF MakeOffer, x, y, t
<1>11. d.made = e.made
  BY DEF Dismiss, Cleared, Good, Cores
<1>12. /\ Append(d.outs, h) \in Seq(Event) /\ Append(d.outs, h) # <<>>
       /\ Append(d.outs, h)[Len(Append(d.outs, h))] = h
  BY <1>7, <1>9, LastAdded
<1> HIDE DEF f, d, p, h
<1>13. /\ f \in Cores /\ f.offer = p /\ f.armed = claims /\ f.buf = d.buf
       /\ f.outs = Append(d.outs, h) /\ Kept(d, f)
  BY <1>7, <1>8, <1>10, <1>11, <1>12 DEF Good, Cores, Kept
<1>14. p # NoOffer /\ Shaped(p)
  <2>1. x # <<>>
    <3>1. Len(x) = n /\ n \in Nat /\ n # 0
      BY CutWord DEF x
    <3>2. QED
      BY <3>1
  <2>2. QED
    BY <1>6, <1>8, <2>1, OfferIsSome DEF Shaped
<1>15. Fronted(f)
  BY <1>8, <1>9, <1>12, <1>13, <1>14 DEF Fronted, Announced
<1>16. Good(f) /\ f.buf = e.buf /\ Kept(e, f)
  BY <1>7, <1>13, <1>14, <1>15 DEF Good, Kept
<1>17. QED
  BY <1>4, <1>8, <1>13, <1>16 DEF f

\* An untainted boundary leaves the word it completed and itself.
LEMMA CompletedFields ==
  ASSUME NEW b \in Buffer, b.keys # <<>>, ~Tainted(b), NEW s \in Separator
  PROVE  LET f == FeedBoundary(b, s)
         IN  Holds(f, <<>>, b.keys, <<s>>)
<1>1. FeedBoundary(b, s) \in Buffer
  BY FeedBoundaryFields DEF Holds
<1>2. QED
  BY <1>1 DEF FeedBoundary, CompleteWord, Resync, Untaint, Holds, Buffer

LEMMA CompletionsFields ==
  ASSUME NEW e, Good(e), claims \in BOOLEAN, NEW b \in Buffer, b.keys # <<>>,
         NEW s \in Separator, e.buf = FeedBoundary(b, s),
         NEW o \in Completions(e, b, s)
  PROVE  /\ Good(o) /\ Kept(e, o)
         /\ \/ o = e
            \/ o.offer = NoOffer /\ o.buf = e.buf
            \/ o.offer = NoOffer /\ o.buf = ForgetCompleted(e.buf)
            \/ /\ ~Tainted(b) /\ o.buf = e.buf
               /\ o.offer \in Offer
               /\ o.offer.grace = "none" /\ o.offer.strayed = FALSE
               /\ o.offer.keys \o o.offer.trail = b.keys \o <<s>>
<1>1. CASE o = e
  BY <1>1 DEF Kept
<1>2. CASE o = Dismiss(e)
  BY <1>2, DismissGood
<1>3. CASE o = [Dismiss(e) EXCEPT !.buf = ForgetCompleted(@)]
  <2>1. Good(Dismiss(e)) /\ Dismiss(e).buf = e.buf /\ Kept(e, Dismiss(e))
        /\ Dismiss(e).offer = NoOffer
    BY DismissGood
  <2>2. ForgetCompleted(e.buf) \in Buffer
    BY ForgetFields DEF Good, Cores, Holds
  <2>3. o = Fed(Dismiss(e), ForgetCompleted(e.buf))
    BY <1>3, <2>1 DEF Fed
  <2>4. QED
    BY <2>1, <2>2, <2>3, FedGood DEF Kept
<1>4. ASSUME ~Tainted(b), s \notin Submit, e.made < MaxOffers,
             NEW n \in 1..Len(b.keys), o = MakeOffer(e, b.keys, n)
      PROVE  /\ Good(o) /\ Kept(e, o)
             /\ ~Tainted(b) /\ o.buf = e.buf
             /\ o.offer \in Offer
             /\ o.offer.grace = "none" /\ o.offer.strayed = FALSE
             /\ o.offer.keys \o o.offer.trail = b.keys \o <<s>>
  <2>1. e.buf.boundaryRun = <<s>> /\ b.keys \in Seq(Letter)
    BY <1>4, CompletedFields DEF Holds, Buffer
  <2>2. QED
    BY <1>4, <2>1, MakeOfferFields
<1>5. QED
  BY <1>1, <1>2, <1>3, <1>4 DEF Completions

-----------------------------------------------------------------------------
(* The offer behind the text, one press at a time. *)

LEMMA ConcatFront ==
  ASSUME NEW x \in Seq(Char), NEW y \in Seq(Char), y # <<>>
  PROVE  SubSeq(x \o y, 1, Len(x \o y) - 1) = x \o Front(y)
<1> DEFINE f == Front(y)
           k == y[Len(y)]
<1>1. Len(y) \in Nat /\ Len(y) # 0
  OBVIOUS
<1>2. f \in Seq(Char) /\ k \in Char /\ y = Append(f, k)
  <2>1. k \in Char
    BY <1>1, ElementOfSeq
  <2>2. Len(y) - 1 \in 0..Len(y) /\ f = Keep(y, Len(y) - 1)
    BY <1>1 DEF Front, Keep
  <2>3. /\ f \in Seq(Char) /\ Len(f) = Len(y) - 1
        /\ \A i \in 1..Len(y) - 1 : f[i] = y[i]
    BY <2>2, KeepFields
  <2> HIDE DEF f
  <2>4. /\ Append(f, k) \in Seq(Char) /\ Len(Append(f, k)) = Len(y)
        /\ \A i \in 1..Len(y) : Append(f, k)[i] = y[i]
    BY <1>1, <2>1, <2>3
  <2>5. y = Append(f, k)
    BY <2>4, SeqEqual
  <2>6. QED
    BY <2>1, <2>3, <2>5
<1> HIDE DEF f, k
<1>3. x \o y = Append(x \o f, k) /\ x \o f \in Seq(Char)
  BY <1>2, ConcatAppend, ConcatProperties
<1>4. SubSeq(Append(x \o f, k), 1, Len(Append(x \o f, k)) - 1) = x \o f
  <2> DEFINE c == x \o f
             a == Append(c, k)
  <2>1. c \in Seq(Char)
    BY <1>3
  <2> HIDE DEF c
  <2>2. a \in Seq(Char) /\ Len(a) = Len(c) + 1 /\ Len(c) \in Nat
        /\ \A i \in 1..Len(c) : a[i] = c[i]
    BY <1>2, <2>1
  <2> HIDE DEF a
  <2>3. /\ Keep(a, Len(c)) \in Seq(Char) /\ Len(Keep(a, Len(c))) = Len(c)
        /\ \A i \in 1..Len(c) : Keep(a, Len(c))[i] = a[i]
    BY <2>2, KeepFields
  <2>4. Keep(a, Len(c)) = c
    BY <2>1, <2>2, <2>3, SeqEqual
  <2>5. Len(a) - 1 = Len(c)
    BY <2>2
  <2>6. QED
    BY <2>4, <2>5 DEF Keep, a, c
<1>5. QED
  BY <1>3, <1>4 DEF f

\* A press the trail follows keeps the offered word where the offer has it.
LEMMA OfferFollows ==
  ASSUME NEW p \in Offer, NEW s \in Seq(Char), NEW t \in Seq(Char),
         NEW k \in Char \cup Special, NEW away,
         EndsAt(s, Len(s), p.keys \o p.trail),
         Effect([key |-> k, away |-> away], s, t),
         k \in Char \/ k = Backspace, ~LosesTrack(Trailed(p.trail, k), k)
  PROVE  EndsAt(t, Len(t), p.keys \o Trailed(p.trail, k))
<1>1. p.keys \in Seq(Char) /\ p.trail \in Seq(Char) /\ p.keys \o p.trail \in Seq(Char)
  BY TextTypes, ConcatProperties DEF Offer
<1> DEFINE z == p.keys \o p.trail
<1>2. CASE k \in Char
  <2>1. t = Append(s, k) /\ Trailed(p.trail, k) = Append(p.trail, k)
    BY <1>2 DEF Effect, Trailed
  <2>2. p.keys \o Append(p.trail, k) = Append(z, k)
    BY <1>1, <1>2, ConcatAppend
  <2>3. EndsAt(Append(s, k), Len(s) + 1, Append(z, k))
    BY <1>1, <1>2, EndsAppend
  <2>4. Len(t) = Len(s) + 1
    BY <1>2, <2>1
  <2>5. QED
    BY <2>1, <2>2, <2>3, <2>4
<1>3. CASE k = Backspace
  <2>1. k \notin Char
    BY <1>3, SpecialKeys DEF Special
  <2>2. t = RubOut(s) /\ Trailed(p.trail, k) = Front(p.trail)
    BY <1>3, <2>1 DEF Effect, Trailed
  <2>3. p.trail # <<>>
    <3>1. HasSeparator(Front(p.trail))
      BY <1>3, <2>2 DEF LosesTrack
    <3>2. Front(<<>>) = <<>> /\ ~HasSeparator(<<>>)
      BY DEF Front, HasSeparator
    <3>3. QED
      BY <3>1, <3>2
  <2>4. z # <<>> /\ SubSeq(z, 1, Len(z) - 1) = p.keys \o Front(p.trail)
    <3>1. z # <<>>
      BY <1>1, <2>3, ConcatEqualIffEmpty
    <3>2. SubSeq(z, 1, Len(z) - 1) = p.keys \o Front(p.trail)
      BY <1>1, <2>3, ConcatFront
    <3>3. QED
      BY <3>1, <3>2
  <2> HIDE DEF z
  <2>5. z \in Seq(Char) /\ EndsAt(s, Len(s), z) /\ Len(s) \in Nat
    BY <1>1 DEF z
  <2>6. EndsAt(s, Len(s) - 1, SubSeq(z, 1, Len(z) - 1))
    BY <2>4, <2>5, EndsPop
  <2>7. s # <<>> /\ Len(s) # 0
    <3>1. Len(z) # 0 /\ Len(z) \in Nat
      BY <2>4, <2>5
    <3>2. Len(z) <= Len(s)
      BY <2>5 DEF EndsAt
    <3>3. QED
      BY <2>5, <3>1, <3>2
  <2>8. /\ t = Keep(s, Len(s) - 1) /\ Len(s) - 1 \in 0..Len(s)
        /\ Len(s) - 1 \in 0..Len(s) - 1
    BY <2>2, <2>5, <2>7 DEF RubOut
  <2>9. Len(t) = Len(s) - 1
    BY <2>8, KeepFields
  <2>10. p.keys \o Front(p.trail) \in Seq(Char)
    BY <1>1, <2>3, ConcatProperties DEF Front
  <2>11. EndsAt(t, Len(s) - 1, p.keys \o Front(p.trail))
    BY <2>4, <2>6, <2>8, <2>10, EndsInShorter
  <2>12. QED
    BY <2>2, <2>9, <2>11
<1>4. QED
  BY <1>2, <1>3

Calm(e, k) ==
  \/ e.offer = NoOffer
  \/ e.offer.grace = "none"
  \/ e.offer.grace = "open" /\ k = Click

LEMMA TrackedBehind ==
  ASSUME NEW e, Good(e), NEW k \in Char \cup {Backspace}, Calm(e, k),
         NEW b, ~e.buf.poisoned => ~b.poisoned,
         NEW s \in Seq(Char), NEW t \in Seq(Char), NEW away,
         OfferedAt(e.offer, e.buf, s), Effect([key |-> k, away |-> away], s, t)
  PROVE  OfferedAt(Track(e, k).offer, b, t)
<1> DEFINE p == e.offer
           q == Trailed(p.trail, k)
           o == Track(e, k).offer
<1>1. k \in Char \cup Special /\ k # Click
  BY SpecialKeys DEF Special
<1>2. CASE o = NoOffer
  BY <1>2 DEF OfferedAt
<1>3. CASE o # NoOffer
  <2>1. Pending(e) /\ ~LosesTrack(q, k) /\ o = [p EXCEPT !.trail = q]
    BY <1>1, <1>3, TrackFields
  <2>2. p \in Offer /\ p # NoOffer
    BY <2>1 DEF Good, Cores, Pending
  <2> HIDE DEF o, q
  <2>3. o.keys = p.keys /\ o.trail = q /\ o.strayed = p.strayed /\ o.grace = p.grace
    BY <2>1, <2>2 DEF Offer
  <2>4. p.grace = "none"
    BY <1>1, <2>2 DEF Calm
  <2>5. ~b.poisoned
    BY <2>2, <2>4 DEF OfferedAt
  <2>6. ASSUME ~o.strayed PROVE EndsAt(t, Len(t), o.keys \o o.trail)
    <3>1. EndsAt(s, Len(s), p.keys \o p.trail)
      BY <2>2, <2>3, <2>6 DEF OfferedAt
    <3>2. EndsAt(t, Len(t), p.keys \o q)
      BY <1>1, <2>1, <2>2, <3>1, OfferFollows DEF q
    <3>3. QED
      BY <2>3, <3>2
  <2>7. QED
    BY <2>3, <2>4, <2>5, <2>6 DEF OfferedAt, o
<1>4. QED
  BY <1>2, <1>3

-----------------------------------------------------------------------------
(* handle_key(), press by press. *)

\* What the engine has read once it has read one press more.
ReadsOn(e, k, away, o) ==
  \A s, t \in Seq(Char) :
    Behind(e, s) /\ Effect([key |-> k, away |-> away], s, t) => Behind(o, t)

LEMMA HandledLetter ==
  ASSUME NEW e, Good(e), NEW k \in Letter, NEW away, Calm(e, k),
         NEW o \in Handled(e, k, away)
  PROVE  Good(o) /\ Kept(e, o) /\ ReadsOn(e, k, away, o)
<1> DEFINE b == FeedWord(e.buf, k)
<1>1. k \in Char \cup Special /\ e.buf \in Buffer
  BY SpecialKeys DEF Good, Cores
<1>2. o = Fed(Track(e, k), b)
  <2>1. k \notin Separator /\ k \notin Special
    BY SpecialKeys
  <2>2. Handled(e, k, away) = {Fed(Track(e, k), b)}
    BY k \in Letter, <2>1, Zenon DEF Handled, Special
  <2>3. QED
    BY <2>2
<1>3. b \in Buffer /\ b.poisoned = e.buf.poisoned
  BY <1>1, FeedWordFields DEF Holds
<1> HIDE DEF b
<1>4. Good(Track(e, k)) /\ Kept(e, Track(e, k))
  BY <1>1, TrackFields
<1>5. /\ Good(o) /\ o.buf = b /\ o.offer = Track(e, k).offer
      /\ Kept(Track(e, k), o)
  BY <1>2, <1>3, <1>4, FedGood
<1>6. ASSUME NEW s \in Seq(Char), NEW t \in Seq(Char), Behind(e, s),
             Effect([key |-> k, away |-> away], s, t)
      PROVE  Behind(o, t)
  <2>1. t = Append(s, k)
    BY SpecialKeys, <1>6 DEF Effect
  <2>2. Described(o.buf, t)
    BY <1>1, <1>5, <1>6, <2>1, DescribedLetter DEF Behind, b
  <2>3. OfferedAt(o.offer, o.buf, t)
    BY SpecialKeys, <1>3, <1>5, <1>6, TrackedBehind DEF Behind
  <2>4. QED
    BY <2>2, <2>3 DEF Behind
<1>7. QED
  BY <1>4, <1>5, <1>6 DEF Kept, ReadsOn

LEMMA HandledSeparator ==
  ASSUME NEW e, Good(e), claims \in BOOLEAN, NEW k \in Separator, NEW away,
         Calm(e, k), NEW o \in Handled(e, k, away)
  PROVE  Good(o) /\ Kept(e, o) /\ ReadsOn(e, k, away, o)
<1> DEFINE b == FeedBoundary(e.buf, k)
           f == Fed(Track(e, k), b)
<1>1. k \in Char \cup Special /\ k \in Char /\ k \notin Letter /\ e.buf \in Buffer
  BY SpecialKeys DEF Good, Cores
<1>2. \/ o = f
      \/ e.buf.keys # <<>> /\ o \in Completions(f, e.buf, k)
  <2>1. k \notin Special
    BY SpecialKeys
  <2>2. Handled(e, k, away) = IF e.buf.keys = <<>> THEN {f}
                              ELSE Completions(f, e.buf, k)
    BY <1>1, <2>1, SMTT(30) DEF Handled, Special
  <2>3. QED
    BY <2>2
<1>3. b \in Buffer /\ b.poisoned = FALSE
  BY <1>1, FeedBoundaryFields DEF Holds
<1>4. Good(Track(e, k)) /\ Kept(e, Track(e, k))
  BY <1>1, TrackFields
<1>5. /\ Good(f) /\ f.buf = b /\ f.offer = Track(e, k).offer
      /\ Kept(e, f)
  <2> HIDE DEF b
  <2>1. QED
    BY <1>3, <1>4, FedGood DEF Kept
<1> HIDE DEF f
<1>6. /\ Good(o) /\ Kept(e, o)
      /\ \/ o.buf = b /\ o.offer \in {f.offer, NoOffer}
         \/ o.offer = NoOffer /\ o.buf = ForgetCompleted(b)
         \/ /\ ~Tainted(e.buf) /\ o.buf = b
            /\ o.offer \in Offer
            /\ o.offer.grace = "none" /\ o.offer.strayed = FALSE
            /\ o.offer.keys \o o.offer.trail = e.buf.keys \o <<k>>
  <2>1. CASE o = f
    BY <1>5, <2>1
  <2>2. CASE e.buf.keys # <<>> /\ o \in Completions(f, e.buf, k)
    <3> DEFINE p == o.offer
    <3>1. /\ Good(o) /\ Kept(f, o)
          /\ \/ o = f
             \/ o.offer = NoOffer /\ o.buf = f.buf
             \/ o.offer = NoOffer /\ o.buf = ForgetCompleted(f.buf)
             \/ /\ ~Tainted(e.buf) /\ o.buf = f.buf
                /\ p \in Offer
                /\ p.grace = "none" /\ p.strayed = FALSE
                /\ p.keys \o p.trail = e.buf.keys \o <<k>>
      <4>1. f.buf = FeedBoundary(e.buf, k) /\ Good(f)
        BY <1>5
      <4>2. QED
        BY <1>1, <2>2, <4>1, CompletionsFields
    <3>2. Kept(e, o)
      BY <1>5, <3>1 DEF Kept
    <3> HIDE DEF b
    <3>3. QED
      BY <1>5, <3>1, <3>2
  <2>3. QED
    BY <1>2, <2>1, <2>2
<1>7. ASSUME NEW s \in Seq(Char), NEW t \in Seq(Char), Behind(e, s),
             Effect([key |-> k, away |-> away], s, t)
      PROVE  Behind(o, t)
  <2>1. t = Append(s, k)
    BY <1>1, <1>7 DEF Effect
  <2>2. Described(b, t) /\ ~b.poisoned
    BY <1>1, <1>7, <2>1, DescribedSeparator DEF Behind
  <2>3. OfferedAt(f.offer, b, t)
    BY <1>1, <1>3, <1>5, <1>7, TrackedBehind DEF Behind
  <2> HIDE DEF b
  <2>4. CASE o.buf = b /\ o.offer \in {f.offer, NoOffer}
    BY <2>2, <2>3, <2>4 DEF Behind, OfferedAt
  <2>5. CASE o.offer = NoOffer /\ o.buf = ForgetCompleted(b)
    BY <1>3, <2>2, <2>5, DescribedForgotten DEF Behind, OfferedAt
  <2>6. CASE /\ ~Tainted(e.buf) /\ o.buf = b
             /\ o.offer \in Offer
             /\ o.offer.grace = "none" /\ o.offer.strayed = FALSE
             /\ o.offer.keys \o o.offer.trail = e.buf.keys \o <<k>>
    <3> DEFINE w == e.buf.keys
    <3>1. EndsAt(s, Len(s), w) /\ w \in Seq(Char)
      <4>1. ~e.buf.poisoned
        BY <2>6 DEF Tainted
      <4>2. Tracks(e.buf, s)
        BY <1>7, <4>1 DEF Behind, Described
      <4>3. QED
        BY <1>1, <4>2, TextTypes DEF Tracks, Buffer
    <3> HIDE DEF w
    <3>2. EndsAt(t, Len(t), Append(w, k))
      <4>1. EndsAt(Append(s, k), Len(s) + 1, Append(w, k))
        BY <1>1, <3>1, EndsAppend
      <4>2. Len(Append(s, k)) = Len(s) + 1
        BY <1>1
      <4>3. QED
        BY <2>1, <4>1, <4>2
    <3>3. w \o <<k>> = Append(w, k)
      BY <1>1, <3>1, AppendIsConcat
    <3>4. OfferedAt(o.offer, o.buf, t)
      BY <2>2, <2>6, <3>2, <3>3 DEF OfferedAt, w
    <3>5. QED
      BY <2>2, <2>6, <3>4 DEF Behind
  <2>7. QED
    BY <1>6, <2>4, <2>5, <2>6
<1>8. QED
  BY <1>6, <1>7 DEF ReadsOn

LEMMA HandledBackspace ==
  ASSUME NEW e, Good(e), NEW away, Calm(e, Backspace),
         NEW o \in Handled(e, Backspace, away)
  PROVE  Good(o) /\ Kept(e, o) /\ ReadsOn(e, Backspace, away, o)
<1> DEFINE k == Backspace
           b == FeedBackspace(e.buf)
           f == Fed(Track(e, k), b)
<1>1. k \in Char \cup Special /\ k \notin Char /\ k # Click /\ e.buf \in Buffer
  BY SpecialKeys DEF Good, Cores, Special
<1>2. o = IF e.buf.keys = <<>> /\ e.buf.boundaryRun = <<>>
          THEN Lost(f, FALSE) ELSE f
  BY <1>1, SpecialKeys DEF Handled, Char
<1>3. b \in Buffer
  BY <1>1, PopKeyFields, PopSeparatorFields, PopUnseenFields DEF Holds
<1>4. Good(Track(e, k)) /\ Kept(e, Track(e, k))
  BY <1>1, TrackFields
<1> HIDE DEF b
<1>5. Good(f) /\ f.buf = b /\ f.offer = Track(e, k).offer /\ Kept(e, f)
  BY <1>3, <1>4, FedGood DEF Kept
<1> HIDE DEF f
<1>6. f.offer # NoOffer => f.offer.grace # "open"
  <2>1. CASE Track(e, k).offer = NoOffer
    BY <1>5, <2>1
  <2>2. CASE /\ Pending(e)
             /\ Track(e, k).offer = [e.offer EXCEPT !.trail = Trailed(@, k)]
    <3>1. e.offer \in Offer /\ e.offer # NoOffer
      BY <2>2 DEF Good, Cores, Pending
    <3>2. Track(e, k).offer.grace = e.offer.grace
      BY <2>2, <3>1 DEF Offer
    <3>3. QED
      BY <1>1, <1>5, <3>1, <3>2 DEF Calm
  <2>3. QED
    BY <1>1, <2>1, <2>2, TrackFields
<1>7. Good(o) /\ Kept(e, o) /\ o.buf = b /\ o.offer \in {f.offer, NoOffer}
  <2>1. CASE o = f
    BY <1>5, <2>1
  <2>2. CASE o = Lost(f, FALSE)
    <3>1. o.offer = NoOffer
      BY <1>5, <1>6, <2>2, LostFields DEF Pending
    <3>2. QED
      BY <1>5, <2>2, <3>1, LostFields DEF Kept
  <2>3. QED
    BY <1>2, <2>1, <2>2
<1>8. ASSUME NEW s \in Seq(Char), NEW t \in Seq(Char), Behind(e, s),
             Effect([key |-> k, away |-> away], s, t)
      PROVE  Behind(o, t)
  <2>1. t = RubOut(s)
    BY <1>8 DEF Effect
  <2>2. Described(b, t) /\ (~e.buf.poisoned => ~b.poisoned)
    BY <1>1, <1>8, <2>1, DescribedBackspace DEF Behind, b
  <2>3. OfferedAt(f.offer, b, t)
    BY <1>5, <1>8, <2>2, TrackedBehind DEF Behind
  <2>4. QED
    BY <1>7, <2>2, <2>3 DEF Behind, OfferedAt
<1>9. QED
  BY <1>7, <1>8 DEF ReadsOn

\* What ends the offer and empties the buffer leaves nothing to be wrong about.
LEMMA NothingLeft ==
  ASSUME NEW o, o.offer = NoOffer, NEW t, Described(o.buf, t)
  PROVE  Behind(o, t)
BY DEF Behind, OfferedAt

LEMMA HandledHeld ==
  ASSUME NEW e, Good(e), NEW away, NEW o \in Handled(e, HeldBackspace, away)
  PROVE  Good(o) /\ Kept(e, o) /\ ReadsOn(e, HeldBackspace, away, o)
<1> DEFINE k == HeldBackspace
           b == FeedHeldBackspace(e.buf)
           f == Fed(Track(e, k), b)
<1>1. k \in Char \cup Special /\ k \notin Char /\ e.buf \in Buffer
  BY SpecialKeys DEF Good, Cores, Special
<1>2. o = Lost(f, FALSE)
  BY <1>1, SpecialKeys DEF Handled, Char
<1>3. b \in Buffer
  <2>1. Holds(b, <<>>, <<>>, <<>>) \/ Holds(b, e.buf.keys, e.buf.prevWord, e.buf.boundaryRun)
    BY <1>1, HeldBackspaceFields
  <2>2. QED
    BY <2>1 DEF Holds
<1>4. /\ Good(Track(e, k)) /\ Kept(e, Track(e, k)) /\ Track(e, k).offer = NoOffer
  <2>1. \A t : LosesTrack(t, k)
    BY DEF LosesTrack
  <2>2. QED
    BY <1>1, <2>1, TrackFields
<1> HIDE DEF b
<1>5. Good(f) /\ f.buf = b /\ f.offer = NoOffer /\ Kept(e, f)
  BY <1>3, <1>4, FedGood DEF Kept
<1> HIDE DEF f
<1>6. Good(o) /\ Kept(e, o) /\ o.buf = b /\ o.offer = NoOffer
  BY <1>2, <1>5, LostFields DEF Kept, Pending
<1>7. ASSUME NEW s \in Seq(Char), NEW t \in Seq(Char), Behind(e, s)
      PROVE  Behind(o, t)
  <2>1. Described(o.buf, t)
    BY <1>1, <1>6, <1>7, DescribedHeld DEF Behind, b
  <2>2. QED
    BY <1>6, <2>1, NothingLeft
<1>8. QED
  BY <1>6, <1>7 DEF ReadsOn

LEMMA HandledNav ==
  ASSUME NEW e, Good(e), NEW away, Calm(e, Nav), NEW o \in Handled(e, Nav, away)
  PROVE  Good(o) /\ Kept(e, o) /\ ReadsOn(e, Nav, away, o)
<1> DEFINE b == FeedEndAndDiscard(e.buf)
           f == Fed(e, b)
<1>1. Nav \notin Char /\ Nav # Click /\ e.buf \in Buffer
  BY SpecialKeys DEF Good, Cores, Special
<1>2. o = Lost(f, FALSE)
  BY <1>1, SpecialKeys DEF Handled, Char
<1>3. b \in Buffer
  BY <1>1, EndAndDiscardFields DEF Holds
<1> HIDE DEF b
<1>4. Good(f) /\ f.buf = b /\ f.offer = e.offer /\ Kept(e, f)
  BY <1>3, FedGood
<1> HIDE DEF f
<1>5. Good(o) /\ Kept(e, o) /\ o.buf = b /\ o.offer = NoOffer
  BY <1>1, <1>2, <1>4, LostFields DEF Kept, Pending, Calm
<1>6. ASSUME NEW t \in Seq(Char) PROVE Behind(o, t)
  BY <1>1, <1>5, DescribedEmptied, NothingLeft DEF b
<1>7. QED
  BY <1>5, <1>6 DEF ReadsOn

LEMMA HandledClick ==
  ASSUME NEW e, Good(e), NEW away \in BOOLEAN, NEW o \in Handled(e, Click, away)
  PROVE  Good(o) /\ Kept(e, o) /\ ReadsOn(e, Click, away, o)
<1> DEFINE b == FeedEndAndDiscard(e.buf)
           z == Freeze(e)
           f == Fed(z, b)
<1>1. Click \notin Char /\ e.buf \in Buffer
  BY SpecialKeys DEF Good, Cores, Special
<1>2. o = Lost(f, away)
  <2>1. Click \notin Letter /\ Click \notin Separator
    BY <1>1 DEF Char
  <2>2. Handled(e, Click, away) = {Lost(f, away)}
    BY <2>1, SpecialKeys, SMTT(30) DEF Handled
  <2>3. QED
    BY <2>2
<1>3. b \in Buffer /\ Blank(b) /\ \A t \in Seq(Char) : Described(b, t)
  <2>1. <<>> \in Seq(Char)
    OBVIOUS
  <2>2. QED
    BY <1>1, <2>1, DescribedEmptied
<1> HIDE DEF b
<1>4. /\ Good(z) /\ z.buf = e.buf /\ Kept(e, z)
      /\ \/ z.offer = e.offer
         \/ Pending(e) /\ z.offer = [e.offer EXCEPT !.grace = "open"]
  BY FreezeFields
<1> HIDE DEF z
<1>5. Good(f) /\ f.buf = b /\ f.offer = z.offer /\ Kept(e, f)
  BY <1>3, <1>4, FedGood DEF Kept
<1> HIDE DEF f
<1>6. /\ Good(o) /\ Kept(e, o) /\ o.buf = b
      /\ \/ o.offer = NoOffer
         \/ /\ z.offer # NoOffer /\ z.offer.grace = "open"
            /\ o.offer = [z.offer EXCEPT !.strayed = @ \/ away]
  BY <1>2, <1>5, LostFields DEF Kept, Pending
<1>7. ASSUME NEW s \in Seq(Char), NEW t \in Seq(Char), Behind(e, s),
             Effect([key |-> Click, away |-> away], s, t)
      PROVE  Behind(o, t)
  <2>1. CASE o.offer = NoOffer
    BY <1>3, <1>6, <2>1, NothingLeft
  <2>2. CASE /\ z.offer # NoOffer /\ z.offer.grace = "open"
             /\ o.offer = [z.offer EXCEPT !.strayed = @ \/ away]
    <3>1. z.offer \in Offer
      BY <1>4, <2>2 DEF Good, Cores
    <3>2. e.offer # NoOffer /\ e.offer \in Offer
      BY <1>4, <2>2 DEF Good, Cores, Pending
    <3>3. z.offer.keys = e.offer.keys /\ z.offer.trail = e.offer.trail
          /\ z.offer.strayed = e.offer.strayed
      BY <1>4, <3>2 DEF Offer
    <3>4. /\ o.offer.keys = z.offer.keys /\ o.offer.trail = z.offer.trail
          /\ o.offer.grace = "open" /\ o.offer.strayed = (z.offer.strayed \/ away)
      BY <2>2, <3>1 DEF Offer
    <3>5. ASSUME ~o.offer.strayed
          PROVE  EndsAt(t, Len(t), o.offer.keys \o o.offer.trail)
      <4>1. ~e.offer.strayed /\ ~away
        BY <3>3, <3>4, <3>5
      <4>2. t = s
        BY <1>7, <4>1 DEF Effect
      <4>3. EndsAt(s, Len(s), e.offer.keys \o e.offer.trail)
        BY <1>7, <3>2, <4>1 DEF Behind, OfferedAt
      <4>4. QED
        BY <3>3, <3>4, <4>2, <4>3
    <3>6. OfferedAt(o.offer, o.buf, t)
      BY <1>3, <1>6, <3>4, <3>5 DEF OfferedAt
    <3>7. QED
      BY <1>3, <1>6, <3>6 DEF Behind
  <2>3. QED
    BY <1>6, <2>1, <2>2
<1>8. QED
  BY <1>6, <1>7 DEF ReadsOn

\* A command modifier: a shortcut, or the accept chord.
LEMMA HandledModifier ==
  ASSUME NEW e, Good(e), NEW k \in {Shortcut, Accept, Move}, NEW away,
         NEW o \in Handled(e, k, away)
  PROVE  Good(o) /\ Kept(e, o) /\ \A t \in Seq(Char) : Behind(o, t)
<1> DEFINE b == MarkContextUnclean(Abandon(e.buf))
<1>1. k \notin Char /\ e.buf \in Buffer
  BY SpecialKeys DEF Good, Cores, Special
<1>2. o = Dismiss(Fed(e, b))
  BY <1>1, SpecialKeys DEF Handled, Char
<1>3. b \in Buffer /\ \A t \in Seq(Char) : Described(b, t)
  <2>1. <<>> \in Seq(Char)
    OBVIOUS
  <2>2. QED
    BY <1>1, <2>1, DescribedEmptied
<1> HIDE DEF b
<1>4. Good(o) /\ Kept(e, o) /\ o.buf = b /\ o.offer = NoOffer
  BY <1>2, <1>3, FedGood, DismissGood DEF Kept
<1>5. QED
  BY <1>3, <1>4, NothingLeft

LEMMA HandledSound ==
  ASSUME NEW e, Good(e), claims \in BOOLEAN, NEW k \in Char \cup Special,
         NEW away \in BOOLEAN, Calm(e, k), NEW o \in Handled(e, k, away)
  PROVE  Good(o) /\ Kept(e, o) /\ ReadsOn(e, k, away, o)
<1>1. CASE k \in Letter
  BY <1>1, HandledLetter
<1>2. CASE k \in Separator
  BY <1>2, HandledSeparator
<1>3. CASE k = Backspace
  BY <1>3, HandledBackspace
<1>4. CASE k = HeldBackspace
  BY <1>4, HandledHeld
<1>5. CASE k = Nav
  BY <1>5, HandledNav
<1>6. CASE k = Click
  BY <1>6, HandledClick
<1>7. CASE k \in {Shortcut, Accept, Move}
  BY <1>7, HandledModifier DEF ReadsOn
<1>8. QED
  BY <1>1, <1>2, <1>3, <1>4, <1>5, <1>6, <1>7 DEF Special, Char

-----------------------------------------------------------------------------
(***************************************************************************)
(* What a correction absorbs.  The two recursive functions, the letters of *)
(* a window and the seeded buffer, are unfolded into a function with its   *)
(* type; the rest is step by step.                                         *)
(***************************************************************************)
LEMMA LettersFunction ==
  ASSUME NEW w \in Seq(Press), NEW n \in 0..Len(w)
  PROVE  \E f \in [0..n -> Seq(Letter)] :
           /\ f[0] = <<>> /\ LettersIn(w, n) = f[n]
           /\ \A i \in 1..n : f[i] = IF w[i].key \in Letter
                                     THEN Append(f[i - 1], w[i].key) ELSE f[i - 1]
<1> DEFINE Next1(g, i) == IF w[i].key \in Letter THEN Append(g[i - 1], w[i].key)
                          ELSE g[i - 1]
           Eq(g) == g = [i \in 0..n |-> IF i = 0 THEN <<>> ELSE Next1(g, i)]
           step == [i \in 1..n |-> [q \in Seq(Letter) |->
                      IF w[i].key \in Letter THEN Append(q, w[i].key) ELSE q]]
           taken == CHOOSE g : Eq(g)
<1>1. n \in Nat /\ <<>> \in Seq(Letter)
  OBVIOUS
<1>2. step \in [1..n -> [Seq(Letter) -> Seq(Letter)]]
  OBVIOUS
<1>3. PICK h \in [0..n -> Seq(Letter)] :
        h[0] = <<>> /\ \A i \in 1..n : h[i] = step[i][h[i - 1]]
  <2> DEFINE B == Seq(Letter)
             b == <<>>
  <2>1. n \in Nat /\ b \in B /\ step \in [1..n -> [B -> B]]
    BY <1>1, <1>2
  <2> HIDE DEF step, B, b
  <2>2. \E f \in [0..n -> B] : f[0] = b /\ \A i \in 1..n : f[i] = step[i][f[i - 1]]
    BY <2>1, Iterated
  <2>3. QED
    BY <2>2 DEF B, b
<1>4. ASSUME NEW i \in 1..n PROVE h[i] = Next1(h, i)
  <2>1. i - 1 \in 0..n
    OBVIOUS
  <2>2. h[i - 1] \in Seq(Letter)
    BY <2>1
  <2>3. QED
    BY <1>3, <2>2
<1>5. Eq(h)
  <2> HIDE DEF Next1
  <2>1. ASSUME NEW i \in 0..n PROVE h[i] = IF i = 0 THEN <<>> ELSE Next1(h, i)
    <3>1. i = 0 \/ i \in 1..n
      BY <1>1
    <3>2. QED
      BY <1>3, <1>4, <3>1
  <2>2. QED
    BY <2>1
<1>6. Eq(taken)
  <2> HIDE DEF Eq
  <2>1. QED
    BY <1>5
<1>7. LettersIn(w, n) = taken[n]
  BY DEF LettersIn
<1> HIDE DEF taken
<1>8. /\ taken[0] = <<>>
      /\ \A i \in 1..n : taken[i] = Next1(taken, i)
  <2>1. 0 \in 0..n
    BY <1>1
  <2>2. \A i \in 1..n : i \in 0..n /\ i # 0
    OBVIOUS
  <2> HIDE DEF Next1
  <2>3. QED
    BY <1>6, <2>1, <2>2
<1>9. \A i \in 0..n : taken[i] \in Seq(Letter)
  <2> DEFINE T == {i \in 0..n : taken[i] \in Seq(Letter)}
  <2>1. 0 \in T
    <3>1. 0 \in 0..n
      BY <1>1
    <3>2. QED
      BY <1>1, <1>8, <3>1
  <2>2. ASSUME NEW i \in 1..n, i - 1 \in T PROVE i \in T
    <3>1. taken[i - 1] \in Seq(Letter) /\ i \in 0..n
      BY <2>2
    <3>2. w[i].key \in Letter => Append(taken[i - 1], w[i].key) \in Seq(Letter)
      BY <3>1
    <3>3. QED
      BY <1>8, <3>1, <3>2
  <2> HIDE DEF T
  <2>3. \A i \in 0..n : i \in T
    BY <1>1, <2>1, <2>2, StepByStep
  <2>4. QED
    BY <2>3 DEF T
<1>10. taken = [i \in 0..n |-> taken[i]]
  <2> DEFINE body == [i \in 0..n |-> IF i = 0 THEN <<>> ELSE Next1(taken, i)]
  <2>1. taken = body
    BY <1>6
  <2>2. body = [i \in 0..n |-> body[i]]
    OBVIOUS
  <2> HIDE DEF body
  <2>3. QED
    BY <2>1, <2>2
<1>11. taken \in [0..n -> Seq(Letter)]
  BY <1>9, <1>10
<1>12. QED
  BY <1>7, <1>8, <1>11

\* One character seeded.
FeedChar(b, k) == IF k \in Letter THEN FeedWord(b, k) ELSE FeedBoundary(b, k)

LEMMA FeedCharType ==
  ASSUME NEW b \in Buffer, NEW k \in Char
  PROVE  FeedChar(b, k) \in Buffer
BY FeedWordFields, FeedBoundaryFields DEF Char, FeedChar, Holds

\* f holds the buffers on the way from b through the first n characters of x.
Feeds(f, b, x, n) ==
  /\ f \in [0..n -> Buffer] /\ f[0] = b
  /\ \A i \in 1..n : f[i] = FeedChar(f[i - 1], x[i])

LEMMA FedThrough ==
  ASSUME NEW b \in Buffer, NEW n \in Nat, NEW x, \A i \in 1..n : x[i] \in Char
  PROVE  \E f : Feeds(f, b, x, n)
<1> DEFINE step == [i \in 1..n |-> [c \in Buffer |-> FeedChar(c, x[i])]]
<1>1. step \in [1..n -> [Buffer -> Buffer]]
  BY FeedCharType
<1>2. PICK h \in [0..n -> Buffer] :
        h[0] = b /\ \A i \in 1..n : h[i] = step[i][h[i - 1]]
  <2> HIDE DEF step
  <2>1. \A st \in [1..n -> [Buffer -> Buffer]] :
          \E f \in [0..n -> Buffer] :
            f[0] = b /\ \A i \in 1..n : f[i] = st[i][f[i - 1]]
    BY Iterated
  <2>2. QED
    BY <1>1, <2>1
<1>3. ASSUME NEW i \in 1..n PROVE h[i] = FeedChar(h[i - 1], x[i])
  <2>1. i - 1 \in 0..n
    OBVIOUS
  <2>2. h[i - 1] \in Buffer
    BY <2>1
  <2>3. QED
    BY <1>2, <2>2
<1>4. QED
  BY <1>2, <1>3 DEF Feeds

LEMMA SeedFunction ==
  ASSUME NEW b \in Buffer, NEW x \in Seq(Char)
  PROVE  \E f : Feeds(f, b, x, Len(x)) /\ SeedBuffer(b, x) = f[Len(x)]
<1> DEFINE n == Len(x)
           Eq(g) == g = [i \in 0..n |-> IF i = 0 THEN b ELSE FeedChar(g[i - 1], x[i])]
           fed == CHOOSE g : Eq(g)
<1>1. n \in Nat /\ \A i \in 1..n : x[i] \in Char
  BY ElementOfSeq
<1>2. SeedBuffer(b, x) = fed[n]
  BY DEF SeedBuffer, FeedChar
<1> HIDE DEF n
<1>3. PICK h \in [0..n -> Buffer] :
        h[0] = b /\ \A i \in 1..n : h[i] = FeedChar(h[i - 1], x[i])
  <2>1. \E f : Feeds(f, b, x, n)
    BY <1>1, FedThrough
  <2>2. QED
    BY <2>1 DEF Feeds
<1>6. Eq(h)
  <2>1. \A i \in 0..n : h[i] = IF i = 0 THEN b ELSE FeedChar(h[i - 1], x[i])
    BY <1>1, <1>3
  <2>2. QED
    BY <2>1
<1>7. Eq(fed)
  <2> HIDE DEF Eq
  <2>1. QED
    BY <1>6
<1> HIDE DEF fed
<1>8. /\ fed[0] = b
      /\ \A i \in 1..n : fed[i] = FeedChar(fed[i - 1], x[i])
  <2>1. 0 \in 0..n /\ \A i \in 1..n : i \in 0..n /\ i # 0
    BY <1>1
  <2>2. QED
    BY <1>7, <2>1
<1>9. \A i \in 0..n : fed[i] \in Buffer
  <2> DEFINE T == {i \in 0..n : fed[i] \in Buffer}
  <2>1. 0 \in T
    BY <1>1, <1>8
  <2>2. ASSUME NEW i \in 1..n, i - 1 \in T PROVE i \in T
    BY <1>1, <1>8, <2>2, FeedCharType
  <2> HIDE DEF T
  <2>3. \A i \in 0..n : i \in T
    BY <1>1, <2>1, <2>2, StepByStep
  <2>4. QED
    BY <2>3 DEF T
<1>10. fed = [i \in 0..n |-> fed[i]]
  <2> DEFINE body == [i \in 0..n |-> IF i = 0 THEN b ELSE FeedChar(fed[i - 1], x[i])]
  <2>1. fed = body
    BY <1>7
  <2>2. body = [i \in 0..n |-> body[i]]
    OBVIOUS
  <2> HIDE DEF body
  <2>3. QED
    BY <2>1, <2>2
<1>11. fed \in [0..n -> Buffer]
  BY <1>9, <1>10
<1>12. Feeds(fed, b, x, n)
  BY <1>8, <1>11 DEF Feeds
<1>13. QED
  BY <1>2, <1>12 DEF n

\* The text a seeded buffer describes ends in what it was seeded with.
LEMMA KeepNext ==
  ASSUME NEW x \in Seq(Char), NEW i \in 1..Len(x)
  PROVE  /\ x[i] \in Char /\ Keep(x, i - 1) \in Seq(Char)
         /\ Keep(x, i) = Append(Keep(x, i - 1), x[i])
<1>1. i \in 0..Len(x) /\ i - 1 \in 0..Len(x) /\ x[i] \in Char
  BY ElementOfSeq
<1>2. /\ Keep(x, i) \in Seq(Char) /\ Len(Keep(x, i)) = i
      /\ \A j \in 1..i : Keep(x, i)[j] = x[j]
  BY <1>1, KeepFields
<1>3. /\ Keep(x, i - 1) \in Seq(Char) /\ Len(Keep(x, i - 1)) = i - 1
      /\ \A j \in 1..i - 1 : Keep(x, i - 1)[j] = x[j]
  BY <1>1, KeepFields
<1> DEFINE k == Keep(x, i - 1)
           a == Append(k, x[i])
<1>4. /\ a \in Seq(Char) /\ Len(a) = i
      /\ \A j \in 1..i : a[j] = x[j]
  <2>1. k \in Seq(Char) /\ Len(k) = i - 1 /\ \A j \in 1..i - 1 : k[j] = x[j]
    BY <1>3
  <2> HIDE DEF k
  <2>2. QED
    BY <1>1, <2>1
<1>5. Keep(x, i) = a
  <2> HIDE DEF a
  <2>1. QED
    BY <1>2, <1>4, SeqEqual
<1>6. QED
  BY <1>1, <1>3, <1>5

LEMMA KeepWhole ==
  ASSUME NEW x \in Seq(Char)
  PROVE  Keep(x, 0) = <<>> /\ Keep(x, Len(x)) = x
<1>1. Len(x) \in Nat /\ Len(x) \in 0..Len(x)
  OBVIOUS
<1>2. /\ Keep(x, Len(x)) \in Seq(Char) /\ Len(Keep(x, Len(x))) = Len(x)
      /\ \A i \in 1..Len(x) : Keep(x, Len(x))[i] = x[i]
  BY <1>1, KeepFields
<1>3. Keep(x, Len(x)) = x
  BY <1>2, SeqEqual
<1>4. Keep(x, 0) = <<>>
  BY DEF Keep
<1>5. QED
  BY <1>3, <1>4

LEMMA SeedDescribed ==
  ASSUME NEW b \in Buffer, NEW t \in Seq(Char), Described(b, t), NEW x \in Seq(Char)
  PROVE  SeedBuffer(b, x) \in Buffer /\ Described(SeedBuffer(b, x), t \o x)
<1>1. PICK f \in [0..Len(x) -> Buffer] :
           /\ f[0] = b /\ SeedBuffer(b, x) = f[Len(x)]
           /\ \A i \in 1..Len(x) : f[i] = FeedChar(f[i - 1], x[i])
  BY SeedFunction DEF Feeds
<1> DEFINE T == {i \in 0..Len(x) : Described(f[i], t \o Keep(x, i))}
<1>2. Len(x) \in Nat
  OBVIOUS
<1>3. 0 \in T
  <2>1. t \o Keep(x, 0) = t
    BY KeepWhole, ConcatEmptySeq
  <2>2. 0 \in 0..Len(x)
    BY <1>2
  <2>3. QED
    BY <1>1, <2>1, <2>2
<1>4. ASSUME NEW i \in 1..Len(x), i - 1 \in T PROVE i \in T
  <2> DEFINE u == t \o Keep(x, i - 1)
             c == f[i - 1]
  <2>1. /\ x[i] \in Char /\ Keep(x, i - 1) \in Seq(Char)
        /\ Keep(x, i) = Append(Keep(x, i - 1), x[i])
    BY KeepNext
  <2>2. u \in Seq(Char) /\ t \o Keep(x, i) = Append(u, x[i])
    BY <2>1, ConcatAppend, ConcatProperties
  <2>3. c \in Buffer /\ Described(c, u) /\ f[i] = FeedChar(c, x[i]) /\ i \in 0..Len(x)
    BY <1>1, <1>2, <1>4
  <2> HIDE DEF u, c
  <2>4. Described(f[i], Append(u, x[i]))
    BY <2>1, <2>2, <2>3, DescribedLetter, DescribedSeparator DEF FeedChar, Char
  <2>5. QED
    BY <2>2, <2>3, <2>4
<1> HIDE DEF T
<1>5. Len(x) \in T
  <2>1. \A i \in 0..Len(x) : i \in T
    BY <1>2, <1>3, <1>4, StepByStep
  <2>2. QED
    BY <1>2, <2>1
<1>6. QED
  BY <1>1, <1>2, <1>5, KeepWhole DEF T

\* A window is read up to the first press that stops it.
Stops(by, w, n) ==
  /\ n \in 0..Len(w)
  /\ \A j \in 1..n : Benign(by, w, j)
  /\ n < Len(w) => ~Benign(by, w, n + 1)

LEMMA AbsorbStops ==
  ASSUME NEW by, NEW w \in Seq(Press)
  PROVE  \E n : Stops(by, w, n)
<1> DEFINE m == Len(w)
           T == {i \in 0..m : \A j \in 1..i : Benign(by, w, j)}
<1>1. m \in Nat
  OBVIOUS
<1> HIDE DEF m
<1>2. SUFFICES ASSUME \A n \in 0..m : n \in T /\ n < m => Benign(by, w, n + 1)
               PROVE  \E n : Stops(by, w, n)
  BY <1>1 DEF Stops, m
<1>3. 0 \in T
  BY <1>1
<1>4. ASSUME NEW i \in 1..m, i - 1 \in T PROVE i \in T
  <2>1. /\ i - 1 \in 0..m /\ i - 1 < m /\ i - 1 + 1 = i /\ i \in 0..m
        /\ \A j \in 1..i : j = i \/ j \in 1..i - 1
    BY <1>1
  <2>2. Benign(by, w, i)
    BY <1>2, <1>4, <2>1
  <2>3. QED
    BY <1>4, <2>1, <2>2
<1> HIDE DEF T
<1>5. \A i \in 0..m : i \in T
  BY <1>1, <1>3, <1>4, StepByStep
<1>6. m \in 0..m /\ ~(m < m)
  BY <1>1
<1>7. Stops(by, w, m)
  BY <1>5, <1>6 DEF Stops, T, m
<1>8. QED
  BY <1>7

\* What the window comes to, read up to n.
Absorbed(d, w, n) ==
  /\ d.words = LettersIn(w, n) /\ d.words \in Seq(Letter)
  /\ d.resume \in Seq(Char) /\ d.rest \in Seq(Press)
  /\ d.rest = SubSeq(w, n + 2, Len(w))
  /\ d.away = (\E i \in 1..n : w[i].away)
  /\ d.suspicious \in BOOLEAN
  /\ d.suspicious => n < Len(w)
  /\ ~d.suspicious =>
       \/ n = Len(w) /\ d.resume = <<>>
       \/ /\ n < Len(w) /\ w[n + 1].key \in Separator
          /\ d.resume = <<w[n + 1].key>>

LEMMA AbsorbFields ==
  ASSUME NEW by, NEW w \in Seq(Press)
  PROVE  \E n : Stops(by, w, n) /\ Absorbed(Absorb(by, w), w, n)
<1> DEFINE n == CHOOSE i \in 0..Len(w) :
                  /\ \A j \in 1..i : Benign(by, w, j)
                  /\ i < Len(w) => ~Benign(by, w, i + 1)
           stop == IF n < Len(w) THEN w[n + 1].key ELSE NoKey
           ends == stop \in Separator \ Submit
           d == Absorb(by, w)
<1>1. Stops(by, w, n)
  BY AbsorbStops DEF Stops
<1>2. d = [ words      |-> LettersIn(w, n),
            resume     |-> IF ends THEN <<stop>> ELSE <<>>,
            suspicious |-> stop # NoKey /\ ~ends,
            away       |-> \E i \in 1..n : w[i].away,
            rest       |-> SubSeq(w, n + 2, Len(w)) ]
  BY DEF Absorb
<1> HIDE DEF n, d
<1>3. n \in 0..Len(w) /\ Len(w) \in Nat /\ \A i \in 1..Len(w) : w[i] \in Press
  BY <1>1, ElementOfSeq DEF Stops
<1>4. LettersIn(w, n) \in Seq(Letter)
  <2>1. \E f \in [0..n -> Seq(Letter)] : LettersIn(w, n) = f[n]
    BY <1>3, LettersFunction
  <2>2. n \in 0..n
    BY <1>3
  <2>3. QED
    BY <2>1, <2>2
<1>5. SubSeq(w, n + 2, Len(w)) \in Seq(Press)
  <2>1. n + 2 \in Int /\ Len(w) \in Int /\ \A i \in n + 2..Len(w) : w[i] \in Press
    BY <1>3
  <2>2. QED
    BY <2>1, SubSeqProperties
<1>6. \A k \in Separator : <<k>> \in Seq(Char)
  BY SpecialKeys
<1>7. <<>> \in Seq(Char)
  OBVIOUS
<1>8. CASE n < Len(w)
  <2>1. stop = w[n + 1].key /\ n + 1 \in 1..Len(w)
    BY <1>3, <1>8
  <2>2. w[n + 1].key \in Char \cup Special /\ ~Benign(by, w, n + 1)
    BY <1>1, <1>3, <1>8, <2>1 DEF Press, Stops
  <2>3. stop \notin Letter
    BY <2>1, <2>2 DEF Benign
  <2>4. stop # NoKey
    BY <2>1, <2>2, <2>3, SpecialKeys DEF Char
  <2> HIDE DEF stop
  <2>5. Absorbed(d, w, n)
    BY <1>2, <1>4, <1>5, <1>6, <1>7, <1>8, <2>1, <2>4 DEF Absorbed
  <2>6. QED
    BY <1>1, <2>5 DEF d
<1>9. CASE ~(n < Len(w))
  <2>1. n = Len(w) /\ stop = NoKey
    BY <1>3, <1>9
  <2>2. stop \notin Separator
    BY <2>1, SpecialKeys
  <2> HIDE DEF stop
  <2>3. Absorbed(d, w, n)
    BY <1>2, <1>4, <1>5, <1>7, <2>1, <2>2 DEF Absorbed
  <2>4. QED
    BY <1>1, <2>3 DEF d
<1>10. QED
  BY <1>8, <1>9

\* The texts the engine is behind, from what it has read to what there is.
Scene(e, S) ==
  /\ S \in [0..Len(e.wire) -> Seq(Char)]
  /\ S[Len(e.wire)] = e.screen
  /\ \A i \in 1..Len(e.wire) : Effect(e.wire[i], S[i - 1], S[i])

LEMMA AbsorbedText ==
  ASSUME NEW by, NEW w \in Seq(Press), NEW n, Stops(by, w, n),
         ~ \E i \in 1..n : w[i].away,
         NEW S \in [0..Len(w) -> Seq(Char)],
         \A i \in 1..Len(w) : Effect(w[i], S[i - 1], S[i])
  PROVE  S[n] = S[0] \o LettersIn(w, n)
<1>1. /\ n \in 0..Len(w) /\ n \in Nat /\ Len(w) \in Nat
      /\ \A j \in 1..n : Benign(by, w, j)
  BY DEF Stops
<1>2. PICK f \in [0..n -> Seq(Letter)] :
           /\ f[0] = <<>> /\ LettersIn(w, n) = f[n]
           /\ \A i \in 1..n : f[i] = IF w[i].key \in Letter
                                     THEN Append(f[i - 1], w[i].key) ELSE f[i - 1]
  BY <1>1, LettersFunction
<1> DEFINE T == {i \in 0..n : S[i] = S[0] \o f[i]}
<1>3. 0 \in T
  <2>1. S[0] \in Seq(Char) /\ 0 \in 0..n
    BY <1>1
  <2>2. QED
    BY <1>2, <2>1, ConcatEmptySeq
<1>4. ASSUME NEW i \in 1..n, i - 1 \in T PROVE i \in T
  <2>1. /\ i \in 0..n /\ i - 1 \in 0..n /\ i \in 1..Len(w) /\ 0 \in 0..Len(w)
        /\ i - 1 \in 0..Len(w) /\ Benign(by, w, i) /\ ~w[i].away
    BY <1>1
  <2>2. /\ S[i - 1] = S[0] \o f[i - 1] /\ f[i - 1] \in Seq(Letter)
        /\ S[0] \in Seq(Char) /\ f[i - 1] \in Seq(Char)
        /\ Effect(w[i], S[i - 1], S[i])
    BY <1>4, <2>1, TextTypes
  <2> DEFINE k == w[i].key
  <2>3. CASE k \in Letter
    <3>1. f[i] = Append(f[i - 1], k) /\ k \in Char
      BY <1>2, <2>3, SpecialKeys
    <3>2. S[i] = Append(S[i - 1], k)
      BY <2>2, <3>1 DEF Effect
    <3>3. S[0] \o Append(f[i - 1], k) = Append(S[0] \o f[i - 1], k)
      BY <2>2, <3>1, ConcatAppend
    <3> HIDE DEF k
    <3>4. QED
      BY <2>1, <2>2, <3>1, <3>2, <3>3
  <2>4. CASE k \notin Letter
    <3>1. k \in {Accept, Move} \/ k = Click
      BY <2>1, <2>4 DEF Benign
    <3>2. S[i] = S[i - 1]
      BY <2>1, <2>2, <3>1 DEF Effect
    <3>3. f[i] = f[i - 1]
      BY <1>2, <2>4
    <3>4. QED
      BY <2>1, <2>2, <3>2, <3>3
  <2>5. QED
    BY <2>3, <2>4
<1> HIDE DEF T
<1>5. n \in T
  <2>1. \A i \in 0..n : i \in T
    BY <1>1, <1>3, <1>4, StepByStep
  <2>2. n \in 0..n
    BY <1>1
  <2>3. QED
    BY <2>1, <2>2
<1>6. QED
  BY <1>2, <1>5 DEF T

\* Nothing is left of a window that was absorbed to its end.
\* Put as an operator, where a proof need not see into it.
Join(x, y) == x \o y

\* The engine is behind S[0], and d is what it makes of the presses since.
Drained(by, e, S, n, d) ==
  /\ e \in Cores /\ Scene(e, S) /\ Absorbable(e.wire)
  /\ Stops(by, e.wire, n) /\ Absorbed(d, e.wire, n)
  /\ ~d.suspicious /\ ~d.away

LEMMA DrainedText ==
  ASSUME NEW by, NEW e, NEW S, NEW n, NEW d, Drained(by, e, S, n, d)
  PROVE  /\ d.rest = <<>>
         /\ e.screen = Join(S[0], Join(d.words, d.resume))
<1> USE DEF Drained
<1>0. SUFFICES d.rest = <<>> /\ e.screen = S[0] \o (d.words \o d.resume)
  BY Zenon DEF Join
<1> DEFINE w == e.wire
<1>1. w \in Seq(Press) /\ Len(w) \in Nat /\ n \in 0..Len(w) /\ n \in Nat
  BY DEF Cores, Stops
<1>2. /\ S \in [0..Len(w) -> Seq(Char)] /\ S[Len(w)] = e.screen
      /\ \A i \in 1..Len(w) : Effect(w[i], S[i - 1], S[i])
  BY DEF Scene
<1>3. Stops(by, w, n) /\ Absorbed(d, w, n) /\ Absorbable(w)
  OBVIOUS
<1> HIDE DEF w
<1>4. S[n] = S[0] \o d.words /\ S[0] \in Seq(Char) /\ d.words \in Seq(Char)
  <2>1. ~ \E i \in 1..n : w[i].away
    BY <1>3 DEF Absorbed
  <2>2. S[n] = S[0] \o LettersIn(w, n)
    BY <1>1, <1>2, <1>3, <2>1, AbsorbedText
  <2>3. d.words \in Seq(Letter) /\ d.words = LettersIn(w, n) /\ 0 \in 0..Len(w)
    BY <1>1, <1>3 DEF Absorbed
  <2>4. QED
    BY <1>2, <2>2, <2>3, TextTypes
<1>5. CASE n = Len(w) /\ d.resume = <<>>
  <2>1. d.words \o d.resume = d.words
    BY <1>4, <1>5, ConcatEmptySeq
  <2>2. SubSeq(w, Len(w) + 2, Len(w)) = <<>>
    BY <1>1
  <2>3. d.rest = SubSeq(w, n + 2, Len(w))
    BY <1>3 DEF Absorbed
  <2>4. QED
    BY <1>2, <1>4, <1>5, <2>1, <2>2, <2>3
<1>6. CASE n < Len(w) /\ w[n + 1].key \in Separator /\ d.resume = <<w[n + 1].key>>
  <2> DEFINE k == w[n + 1].key
  <2>1. n + 1 = Len(w)
    BY <1>1, <1>3, <1>6 DEF Absorbable
  <2>2. SubSeq(w, n + 2, Len(w)) = <<>>
    BY <1>1, <2>1
  <2>3. d.rest = SubSeq(w, n + 2, Len(w))
    BY <1>3 DEF Absorbed
  <2>4. Effect(w[n + 1], S[n], S[n + 1]) /\ k \in Char
    <3>1. n + 1 \in 1..Len(w) /\ n + 1 - 1 = n
      BY <1>1, <2>1
    <3>2. ASSUME NEW j \in 1..Len(w), j = n + 1 PROVE Effect(w[n + 1], S[n], S[n + 1])
      <4>1. Effect(w[j], S[j - 1], S[j])
        BY <1>2
      <4>2. j - 1 = n
        BY <1>1, <3>2
      <4>3. QED
        BY <3>2, <4>1, <4>2
    <3>3. w[n + 1].key \in Char
      BY <1>6 DEF Char
    <3> HIDE DEF k
    <3>4. QED
      BY <3>1, <3>2, <3>3 DEF k
  <2>5. S[n + 1] = Append(S[n], k)
    BY <2>4 DEF Effect
  <2>6. d.resume = <<k>> /\ S[n + 1] = e.screen
    BY <1>2, <1>6, <2>1
  <2> HIDE DEF k
  <2>7. d.words \o <<k>> = Append(d.words, k)
    BY <1>4, <2>4, AppendIsConcat
  <2>8. S[0] \o Append(d.words, k) = Append(S[0] \o d.words, k)
    BY <1>4, <2>4, ConcatAppend
  <2>9. QED
    BY <1>4, <2>2, <2>3, <2>5, <2>6, <2>7, <2>8
<1>7. QED
  BY <1>3, <1>5, <1>6 DEF Absorbed

-----------------------------------------------------------------------------
(***************************************************************************)
(* The word the offer is for and the word the buffer could re-open.  Either *)
(* they are one, glued punctuation included, or what the buffer holds lies *)
(* behind the offered word.                                                *)
(***************************************************************************)
LEMMA LastIn ==
  ASSUME NEW m \in Nat, NEW T, 0 \in T
  PROVE  \E i \in 0..m : i \in T /\ \A j \in i + 1..m : j \notin T
<1> DEFINE R == {k \in 0..m : \E i \in 0..k : i \in T /\ \A j \in i + 1..k : j \notin T}
<1>1. 0 \in R
  OBVIOUS
<1>2. ASSUME NEW k \in 1..m, k - 1 \in R PROVE k \in R
  <2>1. PICK i \in 0..k - 1 : i \in T /\ \A j \in i + 1..k - 1 : j \notin T
    BY <1>2
  <2>2. k \in 0..m /\ k \in 0..k /\ i \in 0..k
    BY <2>1
  <2>3. CASE k \in T
    <3>1. \A j \in k + 1..k : j \notin T
      OBVIOUS
    <3>2. QED
      BY <2>2, <2>3, <3>1
  <2>4. CASE k \notin T
    <3>1. \A j \in i + 1..k : j = k \/ j \in i + 1..k - 1
      BY <2>1
    <3>2. \A j \in i + 1..k : j \notin T
      BY <2>1, <2>4, <3>1
    <3>3. QED
      BY <2>1, <2>2, <3>2
  <2>5. QED
    BY <2>3, <2>4
<1> HIDE DEF R
<1>3. m \in R
  <2>1. \A i \in 0..m : i \in R
    BY <1>1, <1>2, StepByStep
  <2>2. QED
    BY <2>1
<1>4. QED
  BY <1>3 DEF R

LEMMA Cut ==
  ASSUME NEW S, NEW x \in Seq(S), NEW a \in 0..Len(x), NEW c \in a..Len(x)
  PROVE  /\ SubSeq(x, a + 1, c) \in Seq(S) /\ Len(SubSeq(x, a + 1, c)) = c - a
         /\ \A i \in 1..c - a : SubSeq(x, a + 1, c)[i] = x[a + i]
<1> DEFINE y == SubSeq(x, a + 1, c)
<1>1. /\ a \in Nat /\ c \in Nat /\ a + 1 \in Int /\ c \in Int /\ a <= c /\ c <= Len(x)
      /\ Len(x) \in Nat /\ \A i \in a + 1..c : x[i] \in S
  BY ElementOfSeq
<1>2. /\ y \in Seq(S)
      /\ Len(y) = IF a + 1 <= c THEN c - (a + 1) + 1 ELSE 0
      /\ \A i \in 1..c - (a + 1) + 1 : y[i] = x[a + 1 + i - 1]
  BY <1>1, SubSeqProperties
<1>3. c - (a + 1) + 1 = c - a /\ \A i \in 1..c - a : a + 1 + i - 1 = a + i
  BY <1>1
<1>4. Len(y) = c - a
  BY <1>1, <1>2
<1>5. \A i \in 1..c - a : y[i] = x[a + 1 + i - 1]
  BY <1>2, <1>3
<1> HIDE DEF y
<1>6. QED
  BY <1>2, <1>3, <1>4, <1>5 DEF y

LEMMA GluedFields ==
  ASSUME NEW t \in Seq(Char), HasSeparator(t)
  PROVE  \E n \in 1..Len(t) :
           /\ t[n] \in Separator /\ \A j \in 1..n - 1 : t[j] \in Letter
           /\ Glued(t) \in Seq(Letter) /\ Len(Glued(t)) = n - 1
           /\ \A j \in 1..n - 1 : Glued(t)[j] = t[j]
<1> DEFINE First(i) == t[i] \in Separator /\ \A j \in 1..i - 1 : t[j] \in Letter
           n == CHOOSE i \in 1..Len(t) : First(i)
           T == {i \in 1..Len(t) : t[i] \in Separator}
<1>1. Len(t) \in Nat /\ \A i \in 1..Len(t) : t[i] \in Char
  BY ElementOfSeq
<1>2. T \in SUBSET Nat /\ T # {}
  BY <1>1 DEF HasSeparator
<1>3. PICK m \in T : \A k \in T : m <= k
  <2> HIDE DEF T
  <2>1. QED
    BY <1>2, LeastIndex
<1>4. m \in 1..Len(t) /\ First(m)
  <2>1. ASSUME NEW j \in 1..m - 1 PROVE t[j] \in Letter
    <3>1. j \in 1..Len(t) /\ ~(m <= j)
      BY <1>1, <1>3
    <3>2. j \notin T
      BY <1>3, <3>1
    <3>3. QED
      BY <1>1, <3>1, <3>2 DEF Char
  <2>2. QED
    BY <1>3, <2>1
<1>5. n \in 1..Len(t) /\ First(n)
  <2> HIDE DEF First
  <2>1. QED
    BY <1>4
<1>6. Glued(t) = SubSeq(t, 1, n - 1)
  BY DEF Glued
<1> HIDE DEF n
<1>7. n - 1 \in Int /\ 1 \in Int /\ n \in Nat /\ 1 <= n /\ n <= Len(t)
  BY <1>1, <1>5
<1> DEFINE g == SubSeq(t, 1, n - 1)
<1>8. /\ g \in Seq(Letter) /\ Len(g) = n - 1
      /\ \A j \in 1..n - 1 : g[j] = t[j]
  <2>1. /\ g \in Seq(Letter)
        /\ Len(g) = IF 1 <= n - 1 THEN n - 1 - 1 + 1 ELSE 0
        /\ \A i \in 1..n - 1 - 1 + 1 : g[i] = t[1 + i - 1]
    BY <1>5, <1>7, SubSeqProperties
  <2>2. Len(g) = n - 1
    BY <1>7, <2>1
  <2>3. ASSUME NEW j \in 1..n - 1 PROVE g[j] = t[j]
    <3>1. j \in 1..n - 1 - 1 + 1 /\ 1 + j - 1 = j
      BY <1>7
    <3>2. g[j] = t[1 + j - 1]
      BY <2>1, <3>1
    <3>3. QED
      BY <3>1, <3>2
  <2>4. QED
    BY <2>1, <2>2, <2>3
<1>9. QED
  BY <1>5, <1>6, <1>8

\* Where Segment cuts a text.
Cuts(x, end, start, word) ==
  /\ end \in 0..Len(x) /\ start \in 0..end /\ word \in 0..start
  /\ end > 0 => x[end] \in Separator
  /\ \A j \in end + 1..Len(x) : x[j] \in Letter
  /\ start > 0 => x[start] \in Letter
  /\ \A j \in start + 1..end : x[j] \in Separator
  /\ word > 0 => x[word] \in Separator
  /\ \A j \in word + 1..start : x[j] \in Letter

LEMMA SegmentFields ==
  ASSUME NEW x \in Seq(Char)
  PROVE  \E end, start, word :
           /\ Cuts(x, end, start, word)
           /\ Segment(x) = [ completed |-> SubSeq(x, word + 1, start),
                             run       |-> SubSeq(x, start + 1, end),
                             keys      |-> SubSeq(x, end + 1, Len(x)) ]
<1> DEFINE Ends(i) == /\ i > 0 => x[i] \in Separator
                      /\ \A j \in i + 1..Len(x) : x[j] \in Letter
           end == CHOOSE i \in 0..Len(x) : Ends(i)
           Starts(i) == /\ i > 0 => x[i] \in Letter
                        /\ \A j \in i + 1..end : x[j] \in Separator
           start == CHOOSE i \in 0..end : Starts(i)
           Opens(i) == /\ i > 0 => x[i] \in Separator
                       /\ \A j \in i + 1..start : x[j] \in Letter
           word == CHOOSE i \in 0..start : Opens(i)
           Sep == {i \in 0..Len(x) : i > 0 => x[i] \in Separator}
           Let == {i \in 0..Len(x) : i > 0 => x[i] \in Letter}
<1>1. Len(x) \in Nat /\ \A i \in 1..Len(x) : x[i] \in Char
  BY ElementOfSeq
<1>2. /\ 0 \in Sep /\ 0 \in Let
      /\ \A j \in 1..Len(x) : (j \notin Sep => x[j] \in Letter)
                              /\ (j \notin Let => x[j] \in Separator)
  BY <1>1 DEF Char
<1>3. ASSUME NEW m \in 0..Len(x), NEW T, 0 \in T
      PROVE  \E i \in 0..m : i \in T /\ \A j \in i + 1..m : j \in 1..Len(x) /\ j \notin T
  <2>1. m \in Nat
    BY <1>1
  <2>2. PICK i \in 0..m : i \in T /\ \A j \in i + 1..m : j \notin T
    BY <1>3, <2>1, LastIn
  <2>3. \A j \in i + 1..m : j \in 1..Len(x)
    BY <1>1, <2>1
  <2>4. QED
    BY <2>2, <2>3
<1>4. end \in 0..Len(x) /\ Ends(end)
  <2>1. Len(x) \in 0..Len(x)
    BY <1>1
  <2>2. PICK i \in 0..Len(x) : i \in Sep /\ \A j \in i + 1..Len(x) : j \in 1..Len(x) /\ j \notin Sep
    <3> HIDE DEF Sep
    <3>1. QED
      BY <1>2, <1>3, <2>1
  <2>3. Ends(i)
    BY <1>2, <2>2
  <2> HIDE DEF Ends
  <2>4. QED
    BY <2>3
<1> HIDE DEF end
<1>5. start \in 0..end /\ Starts(start)
  <2>1. PICK i \in 0..end : i \in Let /\ \A j \in i + 1..end : j \in 1..Len(x) /\ j \notin Let
    <3> HIDE DEF Let
    <3>1. QED
      BY <1>2, <1>3, <1>4
  <2>2. Starts(i)
    BY <1>2, <2>1
  <2> HIDE DEF Starts
  <2>3. QED
    BY <2>1, <2>2
<1> HIDE DEF start
<1>6. word \in 0..start /\ Opens(word)
  <2>0. start \in 0..Len(x)
    BY <1>1, <1>4, <1>5
  <2>1. PICK i \in 0..start : i \in Sep /\ \A j \in i + 1..start : j \in 1..Len(x) /\ j \notin Sep
    <3> HIDE DEF Sep
    <3>1. QED
      BY <1>2, <1>3, <2>0
  <2>2. Opens(i)
    BY <1>2, <2>1
  <2> HIDE DEF Opens
  <2>3. QED
    BY <2>1, <2>2
<1>7. Segment(x) = [ completed |-> SubSeq(x, word + 1, start),
                     run       |-> SubSeq(x, start + 1, end),
                     keys      |-> SubSeq(x, end + 1, Len(x)) ]
  BY DEF Segment, end, start
<1>8. Cuts(x, end, start, word)
  <2> HIDE DEF word
  <2>1. QED
    BY <1>4, <1>5, <1>6 DEF Cuts
<1>9. QED
  BY <1>7, <1>8

Span(b) == Len(b.keys) + Len(b.boundaryRun) + Len(b.prevWord)

\* With m characters typed behind the offered word.
Reaches(b, p, m) ==
  \/ Span(b) <= m - Len(Glued(p.trail))
  \/ /\ b.prevWord = p.keys \o Glued(p.trail) /\ b.boundaryRun # <<>>
     /\ Span(b) = Len(p.keys) + m

LEMMA SegmentReaches ==
  ASSUME NEW p \in Offer, Shaped(p), NEW b \in Buffer, Agrees(p, b)
  PROVE  /\ Reaches(b, p, Len(p.trail))
         /\ b.prevWord # <<>> /\ b.boundaryRun # <<>>
<1> DEFINE t == p.trail
           x == p.keys
           z == x \o t
           K == Len(x)
           M == Len(t)
           G == Glued(t)
<1>1. /\ x \in Seq(Letter) /\ x \in Seq(Char) /\ t \in Seq(Char)
      /\ x # <<>> /\ HasSeparator(t)
  BY OfferIsSome, TextTypes DEF Offer, Shaped
<1>2. K \in Nat /\ M \in Nat /\ K # 0 /\ \A i \in 1..K : x[i] \in Letter
  BY <1>1, ElementOfSeq
<1>3. PICK g \in 1..M :
           /\ t[g] \in Separator /\ \A j \in 1..g - 1 : t[j] \in Letter
           /\ G \in Seq(Letter) /\ Len(G) = g - 1
           /\ \A j \in 1..g - 1 : G[j] = t[j]
  BY <1>1, GluedFields
<1>4. /\ z \in Seq(Char) /\ Len(z) = K + M
      /\ \A i \in 1..K + M : z[i] = IF i <= K THEN x[i] ELSE t[i - K]
  BY <1>1, ConcatProperties
<1>5. Segment(z) = [ completed |-> b.prevWord, run |-> b.boundaryRun, keys |-> b.keys ]
  BY DEF Agrees
<1>6. PICK end, start, word :
           /\ Cuts(z, end, start, word)
           /\ Segment(z) = [ completed |-> SubSeq(z, word + 1, start),
                             run       |-> SubSeq(z, start + 1, end),
                             keys      |-> SubSeq(z, end + 1, Len(z)) ]
  BY <1>4, SegmentFields
<1> HIDE DEF z, K, M, G, t, x
<1>7. /\ b.prevWord = SubSeq(z, word + 1, start)
      /\ b.boundaryRun = SubSeq(z, start + 1, end)
      /\ b.keys = SubSeq(z, end + 1, Len(z))
  BY <1>5, <1>6
<1>8. /\ end \in Nat /\ start \in Nat /\ word \in Nat
      /\ word <= start /\ start <= end /\ end <= K + M /\ g \in Nat /\ 1 <= g /\ g <= M
  BY <1>2, <1>3, <1>4, <1>6 DEF Cuts
<1>9. Letter \cap Separator = {}
  BY SpecialKeys
<1>10. /\ z[K + g] \in Separator
       /\ \A i \in 1..K + g - 1 : z[i] \in Letter
  <2>1. K + g \in 1..K + M /\ ~(K + g <= K) /\ K + g - K = g
    BY <1>2, <1>8
  <2>2. z[K + g] \in Separator
    <3>1. ASSUME NEW i \in 1..K + M, i = K + g PROVE z[i] = t[g]
      <4>1. ~(i <= K) /\ i - K = g
        BY <1>2, <1>8, <3>1
      <4>2. z[i] = t[i - K]
        BY <1>4, <4>1
      <4>3. QED
        BY <4>1, <4>2
    <3>2. z[K + g] = t[g]
      BY <2>1, <3>1
    <3>3. QED
      BY <1>3, <3>2
  <2>3. ASSUME NEW i \in 1..K + g - 1 PROVE z[i] \in Letter
    <3>1. i \in 1..K + M /\ (i <= K => i \in 1..K) /\ (~(i <= K) => i - K \in 1..g - 1)
      BY <1>2, <1>8
    <3>2. QED
      BY <1>2, <1>3, <1>4, <3>1
  <2>4. QED
    BY <2>2, <2>3
<1>11. end >= K + g
  <2>1. CASE end < K + g
    <3>1. K + g \in end + 1..Len(z)
      BY <1>2, <1>4, <1>8, <2>1
    <3>2. z[K + g] \in Letter
      BY <1>6, <3>1 DEF Cuts
    <3>3. QED
      BY <1>9, <1>10, <3>2
  <2>2. QED
    BY <1>2, <1>8, <2>1
<1>12. z[end] \in Separator
  BY <1>2, <1>6, <1>8, <1>11 DEF Cuts
<1>13. start # 0
  <2>1. CASE start = 0
    <3>1. 1 \in start + 1..end /\ 1 \in 1..K + g - 1
      BY <1>2, <1>8, <1>11, <2>1
    <3>2. z[1] \in Separator /\ z[1] \in Letter
      BY <1>6, <1>10, <3>1 DEF Cuts
    <3>3. QED
      BY <1>9, <3>2
  <2>2. QED
    BY <2>1
<1>14. z[start] \in Letter /\ start < end
  <2>1. z[start] \in Letter
    BY <1>6, <1>8, <1>13 DEF Cuts
  <2>2. start # end
    BY <1>9, <1>12, <2>1
  <2>3. QED
    BY <1>8, <2>1, <2>2
<1>15. start >= K + g - 1
  <2>1. CASE start < K + g - 1
    <3>1. K + g - 1 \in start + 1..end /\ K + g - 1 \in 1..K + g - 1
      BY <1>2, <1>8, <1>11, <2>1
    <3>2. z[K + g - 1] \in Separator /\ z[K + g - 1] \in Letter
      BY <1>6, <1>10, <3>1 DEF Cuts
    <3>3. QED
      BY <1>9, <3>2
  <2>2. QED
    BY <1>2, <1>8, <2>1
<1>16. word < start
  <2>1. CASE word = start
    <3>1. z[word] \in Separator
      BY <1>6, <1>8, <1>13, <2>1 DEF Cuts
    <3>2. QED
      BY <1>9, <1>14, <2>1, <3>1
  <2>2. QED
    BY <1>8, <2>1
<1>17. /\ Len(b.prevWord) = start - word
       /\ \A i \in 1..start - word : b.prevWord[i] = z[word + i]
  <2>1. word \in 0..Len(z) /\ start \in word..Len(z)
    BY <1>2, <1>4, <1>8
  <2>2. QED
    BY <1>4, <1>7, <2>1, Cut
<1>18. Len(b.boundaryRun) = end - start
  <2>1. start \in 0..Len(z) /\ end \in start..Len(z)
    BY <1>2, <1>4, <1>8
  <2>2. QED
    BY <1>4, <1>7, <2>1, Cut
<1>19. Len(b.keys) = K + M - end
  <2> DEFINE L == Len(z)
  <2>1. end \in 0..Len(z) /\ L \in end..Len(z)
    BY <1>2, <1>4, <1>8
  <2> HIDE DEF L
  <2>2. Len(SubSeq(z, end + 1, L)) = L - end
    BY <1>4, <2>1, Cut
  <2>3. b.keys = SubSeq(z, end + 1, L) /\ L = K + M
    BY <1>4, <1>7 DEF L
  <2>4. Len(b.keys) = L - end
    BY <2>2, <2>3, Zenon
  <2>5. L = K + M
    BY <2>3
  <2>6. QED
    BY <1>2, <1>8, <2>4, <2>5
<1>20. b.prevWord # <<>> /\ b.boundaryRun # <<>>
  <2>1. Len(b.prevWord) # 0 /\ Len(b.boundaryRun) # 0
    BY <1>8, <1>14, <1>16, <1>17, <1>18
  <2>2. QED
    BY <2>1
<1>21. Span(b) = K + M - word
  BY <1>2, <1>8, <1>17, <1>18, <1>19 DEF Span
<1>22. CASE word = 0
  <2>1. start < K + g
    <3>1. CASE start >= K + g
      <4>1. K + g \in word + 1..start
        BY <1>2, <1>8, <1>22, <3>1
      <4>2. z[K + g] \in Letter
        BY <1>6, <4>1 DEF Cuts
      <4>3. QED
        BY <1>9, <1>10, <4>2
    <3>2. QED
      BY <1>2, <1>8, <3>1
  <2>2. start = K + g - 1
    BY <1>2, <1>8, <1>15, <2>1
  <2>3. /\ x \o G \in Seq(Letter) /\ Len(x \o G) = K + (g - 1)
        /\ \A i \in 1..K + (g - 1) : (x \o G)[i] = IF i <= K THEN x[i] ELSE G[i - K]
    <3>1. /\ x \o G \in Seq(Letter) /\ Len(x \o G) = Len(x) + Len(G)
          /\ \A i \in 1..Len(x) + Len(G) :
               (x \o G)[i] = IF i <= Len(x) THEN x[i] ELSE G[i - Len(x)]
      BY <1>1, <1>3, ConcatProperties
    <3>2. Len(x) = K /\ Len(G) = g - 1
      BY <1>3 DEF K
    <3>3. QED
      BY <3>1, <3>2
  <2>4. ASSUME NEW i \in 1..K + (g - 1) PROVE b.prevWord[i] = (x \o G)[i]
    <3>1. /\ i \in 1..start - word /\ i \in 1..K + M /\ word + i = i
          /\ ~(i <= K) => i - K \in 1..g - 1
      BY <1>2, <1>8, <1>22, <2>2
    <3>2. b.prevWord[i] = z[i]
      BY <1>17, <3>1
    <3>3. CASE i <= K
      BY <1>4, <2>3, <3>1, <3>2, <3>3
    <3>4. CASE ~(i <= K)
      BY <1>3, <1>4, <2>3, <3>1, <3>2, <3>4
    <3>5. QED
      BY <3>3, <3>4
  <2>5. b.prevWord \in Seq(Letter) /\ Len(b.prevWord) = K + (g - 1)
    BY <1>2, <1>8, <1>17, <1>22, <2>2 DEF Buffer
  <2>6. b.prevWord = x \o G
    BY <2>3, <2>4, <2>5, SeqEqual
  <2>7. Span(b) = K + M
    BY <1>2, <1>8, <1>21, <1>22
  <2>8. QED
    BY <1>20, <2>6, <2>7 DEF Reaches, K, M, G, t, x
<1>23. CASE word # 0
  <2>1. z[word] \in Separator
    BY <1>6, <1>8, <1>23 DEF Cuts
  <2>2. word >= K + g
    <3>1. CASE word < K + g
      <4>1. word \in 1..K + g - 1
        BY <1>2, <1>8, <1>23, <3>1
      <4>2. QED
        BY <1>9, <1>10, <2>1, <4>1
    <3>2. QED
      BY <1>2, <1>8, <3>1
  <2>3. Span(b) <= M - Len(G)
    BY <1>2, <1>3, <1>8, <1>21, <2>2
  <2>4. QED
    BY <1>20, <2>3 DEF Reaches, M, G, t
<1>24. QED
  BY <1>20, <1>22, <1>23

\* One character more behind the offered word, in the text and in the buffer.
LEMMA ReachesOn ==
  ASSUME NEW p \in Offer, NEW b \in Buffer, NEW m \in Nat, Glued(p.trail) \in Seq(Letter),
         Len(Glued(p.trail)) <= m, Reaches(b, p, m),
         b.prevWord # <<>> => b.boundaryRun # <<>>, NEW k \in Char,
         NEW f, f = FeedChar(b, k)
  PROVE  Reaches(f, p, m + 1)
<1> DEFINE g == Len(Glued(p.trail))
           K == Len(p.keys)
           n == Len(b.keys)
           r == Len(b.boundaryRun)
           q == Len(b.prevWord)
           offered == p.keys \o Glued(p.trail)
<1>1. /\ b.keys \in Seq(Letter) /\ b.prevWord \in Seq(Letter)
      /\ b.boundaryRun \in Seq(Separator) /\ p.keys \in Seq(Letter)
  BY DEF Buffer, Offer
<1>2. n \in Nat /\ r \in Nat /\ q \in Nat /\ g \in Nat /\ K \in Nat
  BY <1>1
<1>3. /\ b.boundaryRun = <<>> => r = 0 /\ b.prevWord = <<>> /\ q = 0
      /\ b.boundaryRun # <<>> => r # 0
      /\ b.keys = <<>> => n = 0
  BY <1>1
<1>4. b.prevWord = offered => q = K + g
  BY <1>1, ConcatProperties
<1>5. Span(b) = n + r + q
  BY DEF Span
<1>6. /\ g <= m
      /\ \/ Span(b) <= m - g
         \/ /\ b.prevWord = offered /\ b.boundaryRun # <<>>
            /\ Span(b) = K + m
  BY DEF Reaches
<1> DEFINE next == m + 1
           Arrived(j) == \/ Span(f) <= j - g
                         \/ /\ f.prevWord = offered /\ f.boundaryRun # <<>>
                            /\ Span(f) = K + j
<1>7. \A j : Arrived(j) => Reaches(f, p, j)
  BY DEF Reaches
<1>8. SUFFICES Arrived(next)
  <2> HIDE DEF Arrived
  <2>1. QED
    BY <1>7
<1> HIDE DEF n, r, q, g, K, offered
<1>9. CASE k \in Letter
  <2>1. /\ f \in Buffer /\ f.keys = Append(b.keys, k)
        /\ f.boundaryRun = b.boundaryRun /\ f.prevWord = b.prevWord
    <3>1. Holds(f, Append(b.keys, k),
                IF b.keys = <<>> /\ b.boundaryRun = <<>> THEN <<>> ELSE b.prevWord,
                b.boundaryRun)
      BY <1>9, FeedWordFields DEF FeedChar
    <3>2. QED
      BY <1>3, <3>1 DEF Holds
  <2>2. Len(Append(b.keys, k)) = n + 1
    BY <1>1, <1>9 DEF n
  <2>3. Span(f) = Span(b) + 1
    <3>1. Len(f.keys) = n + 1 /\ Len(f.boundaryRun) = r /\ Len(f.prevWord) = q
      BY <2>1, <2>2, Zenon DEF r, q
    <3>2. QED
      <4>1. Span(f) = n + 1 + r + q
        BY <3>1 DEF Span
      <4>2. QED
        BY <1>2, <1>5, <4>1
  <2>4. QED
    BY <1>2, <1>5, <1>6, <2>1, <2>3
<1>10. CASE k \notin Letter
  <2>1. k \in Separator /\ f = FeedBoundary(b, k)
    BY <1>10 DEF Char, FeedChar
  <2>2. \/ Holds(f, <<>>, <<>>, <<>>)
        \/ b.keys = <<>> /\ Holds(f, <<>>, b.prevWord, Append(b.boundaryRun, k))
        \/ /\ b.keys = <<>> /\ b.boundaryRun # <<>>
           /\ Holds(f, <<>>, <<>>, Append(Tail(b.boundaryRun), k))
        \/ b.keys # <<>> /\ Holds(f, <<>>, b.keys, <<k>>)
    BY <2>1, FeedBoundaryFields
  <2>3. /\ Len(Append(b.boundaryRun, k)) = r + 1 /\ Append(b.boundaryRun, k) # <<>>
        /\ b.boundaryRun # <<>> => Len(Append(Tail(b.boundaryRun), k)) = r
        /\ Len(<<k>>) = 1 /\ Len(<<>>) = 0
    BY <1>1, <2>1 DEF r
  <2>4. CASE Holds(f, <<>>, <<>>, <<>>)
    <3>1. Span(f) = 0
      BY <2>3, <2>4 DEF Span, Holds
    <3>2. QED
      BY <1>2, <1>6, <3>1
  <2>5. CASE b.keys = <<>> /\ Holds(f, <<>>, b.prevWord, Append(b.boundaryRun, k))
    <3>1. Span(f) = Span(b) + 1
      <4>1. Len(f.keys) = 0 /\ Len(f.boundaryRun) = r + 1 /\ Len(f.prevWord) = q
        BY <2>3, <2>5, Zenon DEF Holds, q
      <4>2. QED
        <5>1. Span(f) = 0 + (r + 1) + q
          BY <4>1 DEF Span
        <5>2. QED
          BY <1>2, <1>3, <1>5, <2>5, <5>1
    <3>2. f.prevWord = b.prevWord /\ f.boundaryRun # <<>>
      BY <2>3, <2>5 DEF Holds
    <3>3. QED
      BY <1>2, <1>5, <1>6, <3>1, <3>2
  <2>6. CASE /\ b.keys = <<>> /\ b.boundaryRun # <<>>
             /\ Holds(f, <<>>, <<>>, Append(Tail(b.boundaryRun), k))
    <3>1. Span(f) = r
      BY <1>2, <2>3, <2>6 DEF Span, Holds
    <3>2. Span(f) <= m + 1 - g
      BY <1>2, <1>4, <1>5, <1>6, <3>1
    <3>3. QED
      BY <1>2, <3>1, <3>2
  <2>7. CASE b.keys # <<>> /\ Holds(f, <<>>, b.keys, <<k>>)
    <3>1. Span(f) = n + 1
      BY <1>2, <2>3, <2>7 DEF Span, Holds, n
    <3>2. Span(f) <= m + 1 - g
      BY <1>2, <1>3, <1>4, <1>5, <1>6, <3>1
    <3>3. QED
      BY <1>2, <3>1, <3>2
  <2>8. QED
    BY <2>2, <2>4, <2>5, <2>6, <2>7
<1>11. QED
  BY <1>9, <1>10

\* The word to re-open has its separators, and is trusted.
Ready(b) == b.prevWord # <<>> => b.boundaryRun # <<>> /\ ~b.poisoned

LEMMA ReadyOn ==
  ASSUME NEW b \in Buffer, Ready(b), NEW k \in Char
  PROVE  Ready(FeedChar(b, k))
<1> DEFINE f == FeedChar(b, k)
<1>1. CASE k \in Letter
  <2>1. /\ f.boundaryRun = b.boundaryRun /\ f.poisoned = b.poisoned
        /\ f.prevWord = b.prevWord \/ f.prevWord = <<>>
    BY <1>1, FeedWordFields DEF FeedChar, Holds
  <2> HIDE DEF f
  <2>2. QED
    BY <2>1 DEF Ready, f
<1>2. CASE k \notin Letter
  <2>1. k \in Separator /\ f = FeedBoundary(b, k)
    BY <1>2 DEF Char, FeedChar
  <2>2. /\ f.poisoned = FALSE
        /\ \/ f.prevWord = <<>>
           \/ f.boundaryRun = Append(b.boundaryRun, k)
           \/ f.boundaryRun = <<k>>
    BY <2>1, FeedBoundaryFields DEF Holds
  <2>3. Append(b.boundaryRun, k) # <<>> /\ <<k>> # <<>>
    BY <2>1 DEF Buffer
  <2> HIDE DEF f
  <2>4. QED
    BY <2>2, <2>3 DEF Ready, f
<1>3. QED
  BY <1>1, <1>2

LEMMA SeedReaches ==
  ASSUME NEW p \in Offer, NEW b \in Buffer, NEW m \in Nat,
         Glued(p.trail) \in Seq(Letter), Len(Glued(p.trail)) <= m,
         Reaches(b, p, m), Ready(b), NEW x \in Seq(Char)
  PROVE  LET c == SeedBuffer(b, x)
         IN  Ready(c) /\ Reaches(c, p, m + Len(x))
<1>1. PICK f : Feeds(f, b, x, Len(x)) /\ SeedBuffer(b, x) = f[Len(x)]
  BY SeedFunction
<1> DEFINE n == Len(x)
           T == {i \in 0..n : Ready(f[i]) /\ Reaches(f[i], p, m + i)}
<1>2. /\ n \in Nat /\ \A i \in 1..n : x[i] \in Char
  BY ElementOfSeq
<1>3. /\ f \in [0..n -> Buffer] /\ f[0] = b
      /\ \A i \in 1..n : f[i] = FeedChar(f[i - 1], x[i])
  BY <1>1 DEF Feeds
<1> HIDE DEF n
<1>4. 0 \in T
  <2>1. m + 0 = m /\ 0 \in 0..n
    BY <1>2
  <2>2. QED
    BY <1>3, <2>1
<1>5. ASSUME NEW i \in 1..n, i - 1 \in T PROVE i \in T
  <2> DEFINE c == f[i - 1]
             l == m + (i - 1)
  <2>1. /\ c \in Buffer /\ x[i] \in Char /\ f[i] = FeedChar(c, x[i])
        /\ Ready(c) /\ Reaches(c, p, l) /\ i \in 0..n
        /\ l \in Nat /\ l + 1 = m + i /\ Len(Glued(p.trail)) <= l
    <3>1. i - 1 \in 0..n /\ i \in 0..n /\ l \in Nat /\ l + 1 = m + i /\ m <= l
      BY <1>2
    <3>2. Len(Glued(p.trail)) \in Nat
      OBVIOUS
    <3>3. Len(Glued(p.trail)) <= l
      BY <3>1, <3>2
    <3>4. c \in Buffer /\ x[i] \in Char /\ f[i] = FeedChar(c, x[i])
      BY <1>2, <1>3, <3>1
    <3>5. QED
      BY <1>5, <3>1, <3>3, <3>4
  <2> HIDE DEF c, l
  <2>2. Ready(f[i])
    BY <2>1, ReadyOn
  <2>3. Reaches(f[i], p, l + 1)
    BY <2>1, ReachesOn DEF Ready
  <2>4. QED
    BY <2>1, <2>2, <2>3
<1> HIDE DEF T
<1>6. n \in T
  <2>1. \A i \in 0..n : i \in T
    BY <1>2, <1>4, <1>5, StepByStep
  <2>2. n \in 0..n
    BY <1>2
  <2>3. QED
    BY <2>1, <2>2
<1>7. QED
  BY <1>1, <1>6 DEF T, n

-----------------------------------------------------------------------------
(* The text behind a word stays what it is when the word is another one. *)

LEMMA EndsBehind ==
  ASSUME NEW x \in Seq(Char), NEW y \in Seq(Char), NEW z \in Seq(Char),
         NEW u, u = x \o z, NEW v, v = y \o z,
         NEW R, NEW s \in Seq(R), NEW j \in 0..Len(z), Len(s) <= j,
         NEW e, e = Len(x) + j, EndsAt(u, e, s), NEW f, f = Len(y) + j
  PROVE  EndsAt(v, f, s)
<1> DEFINE m == Len(s)
<1>1. /\ Len(x) \in Nat /\ Len(y) \in Nat /\ Len(z) \in Nat /\ j \in Nat /\ m \in Nat
      /\ m <= j /\ j <= Len(z)
  OBVIOUS
<1>2. /\ \A i \in 1..Len(x) + Len(z) : u[i] = IF i <= Len(x) THEN x[i] ELSE z[i - Len(x)]
      /\ \A i \in 1..Len(y) + Len(z) : v[i] = IF i <= Len(y) THEN y[i] ELSE z[i - Len(y)]
  BY ConcatProperties
<1>3. \A i \in 1..m : u[e - m + i] = s[i]
  BY DEF EndsAt
<1> HIDE DEF m
<1>4. ASSUME NEW i \in 1..m PROVE v[f - m + i] = s[i]
  <2> DEFINE a == e - m + i
             c == f - m + i
  <2>1. /\ a \in 1..Len(x) + Len(z) /\ ~(a <= Len(x)) /\ a - Len(x) = j - m + i
        /\ c \in 1..Len(y) + Len(z) /\ ~(c <= Len(y)) /\ c - Len(y) = j - m + i
    BY <1>1
  <2>2. u[a] = s[i]
    BY <1>3
  <2> HIDE DEF a, c
  <2>3. u[a] = z[a - Len(x)] /\ v[c] = z[c - Len(y)]
    BY <1>2, <2>1
  <2>4. v[c] = s[i]
    BY <2>1, <2>2, <2>3
  <2>5. QED
    BY <2>4 DEF c
<1>5. m <= f
  BY <1>1
<1>6. QED
  BY <1>4, <1>5 DEF EndsAt, m

LEMMA TracksBehindWord ==
  ASSUME NEW b \in Buffer, NEW x \in Seq(Char), NEW y \in Seq(Char),
         NEW z \in Seq(Char), NEW u, u = x \o z, NEW v, v = y \o z,
         Tracks(b, u), Span(b) <= Len(z)
  PROVE  Tracks(b, v)
<1> DEFINE k == Len(b.keys)
           r == Len(b.boundaryRun)
           q == Len(b.prevWord)
           n == Len(z)
<1>1. /\ b.keys \in Seq(Letter) /\ b.prevWord \in Seq(Letter)
      /\ b.boundaryRun \in Seq(Separator)
  BY DEF Buffer
<1>2. /\ k \in Nat /\ r \in Nat /\ q \in Nat /\ n \in Nat
      /\ Len(x) \in Nat /\ Len(y) \in Nat
  BY <1>1
<1>3. Len(u) = Len(x) + n /\ Len(v) = Len(y) + n
  BY ConcatProperties
<1>4. /\ EndsAt(u, Len(u), b.keys) /\ EndsAt(u, Len(u) - k, b.boundaryRun)
      /\ EndsAt(u, Len(u) - k - r, b.prevWord)
  BY DEF Tracks
<1>5. k + r + q <= n
  BY DEF Span
<1> HIDE DEF k, r, q, n
<1>6. /\ n \in 0..n /\ k <= n
      /\ n - k \in 0..n /\ r <= n - k
      /\ n - k - r \in 0..n /\ q <= n - k - r
  BY <1>2, <1>5
<1>7. /\ Len(u) - k = Len(x) + (n - k) /\ Len(u) - k - r = Len(x) + (n - k - r)
      /\ Len(v) - k = Len(y) + (n - k) /\ Len(v) - k - r = Len(y) + (n - k - r)
  BY <1>2, <1>3
<1>8. EndsAt(v, Len(v), b.keys)
  BY <1>1, <1>3, <1>4, <1>6, EndsBehind DEF k, n
<1>9. EndsAt(v, Len(v) - k, b.boundaryRun)
  <2> DEFINE j == n - k
             e == Len(u) - k
             f == Len(v) - k
  <2>1. /\ j \in 0..Len(z) /\ Len(b.boundaryRun) <= j
        /\ e = Len(x) + j /\ f = Len(y) + j /\ EndsAt(u, e, b.boundaryRun)
    BY <1>4, <1>6, <1>7 DEF r, n
  <2> HIDE DEF j, e, f
  <2>2. EndsAt(v, f, b.boundaryRun)
    BY <1>1, <2>1, EndsBehind
  <2>3. QED
    BY <2>2 DEF f
<1>10. EndsAt(v, Len(v) - k - r, b.prevWord)
  <2> DEFINE j == n - k - r
             e == Len(u) - k - r
             f == Len(v) - k - r
  <2>1. /\ j \in 0..Len(z) /\ Len(b.prevWord) <= j
        /\ e = Len(x) + j /\ f = Len(y) + j /\ EndsAt(u, e, b.prevWord)
    BY <1>4, <1>6, <1>7 DEF q, n
  <2> HIDE DEF j, e, f
  <2>2. EndsAt(v, f, b.prevWord)
    BY <1>1, <2>1, EndsBehind
  <2>3. QED
    BY <2>2 DEF f
<1>11. QED
  BY <1>8, <1>9, <1>10 DEF Tracks, k, r

LEMMA DescribedBehindWord ==
  ASSUME NEW b \in Buffer, NEW x \in Seq(Char), NEW y \in Seq(Char),
         NEW z \in Seq(Char), Described(b, x \o z), Span(b) <= Len(z)
  PROVE  Described(b, y \o z)
BY TracksBehindWord DEF Described

LEMMA EndsSuffix ==
  ASSUME NEW t, NEW x \in Seq(Char), NEW y \in Seq(Char), NEW e \in Nat,
         NEW w, w = x \o y, EndsAt(t, e, w)
  PROVE  EndsAt(t, e, y)
<1>1. /\ Len(x) \in Nat /\ Len(y) \in Nat /\ Len(w) = Len(x) + Len(y)
      /\ \A i \in 1..Len(x) + Len(y) : w[i] = IF i <= Len(x) THEN x[i] ELSE y[i - Len(x)]
  BY ConcatProperties
<1>2. Len(w) <= e /\ \A i \in 1..Len(w) : t[e - Len(w) + i] = w[i]
  BY DEF EndsAt
<1>3. ASSUME NEW i \in 1..Len(y) PROVE t[e - Len(y) + i] = y[i]
  <2> DEFINE j == Len(x) + i
  <2>1. /\ j \in 1..Len(w) /\ ~(j <= Len(x)) /\ j - Len(x) = i
        /\ e - Len(w) + j = e - Len(y) + i
    BY <1>1
  <2> HIDE DEF j
  <2>2. w[j] = y[j - Len(x)]
    BY <1>1, <2>1
  <2>3. QED
    BY <1>2, <2>1, <2>2
<1>4. Len(y) <= e
  BY <1>1, <1>2
<1>5. QED
  BY <1>3, <1>4 DEF EndsAt

\* b completed w with g glued to it, and z was typed behind w.
Completed(b, x, w, g, z) ==
  /\ b \in Buffer /\ x \in Seq(Char) /\ z \in Seq(Char)
  /\ w \in Seq(Letter) /\ g \in Seq(Letter)
  /\ Len(g) + Len(b.boundaryRun) + Len(b.keys) = Len(z)
  /\ Tracks(b, (x \o w) \o z) /\ b.prevWord = w \o g

\* The stash follows the word it names.
LEMMA TracksReplaced ==
  ASSUME NEW b, NEW x, NEW w, NEW g, NEW z, Completed(b, x, w, g, z),
         NEW r \in Seq(Letter), r # <<>>
  PROVE  LET c == ReplaceCompleted(b, r \o g)
         IN  /\ c \in Buffer /\ Tracks(c, (x \o r) \o z)
             /\ c.poisoned = b.poisoned /\ c.prevLead = b.prevLead
             /\ c.boundaryRun = b.boundaryRun /\ c.prevWord # <<>>
<1> USE DEF Completed
<1>a. PICK u : u = (x \o w) \o z
  OBVIOUS
<1>b. PICK v : v = (x \o r) \o z
  OBVIOUS
<1>c. PICK c : c = ReplaceCompleted(b, r \o g)
  OBVIOUS
<1>d. Tracks(b, u)
  BY <1>a, Zenon
<1>e. SUFFICES /\ c \in Buffer /\ Tracks(c, v)
               /\ c.poisoned = b.poisoned /\ c.prevLead = b.prevLead
               /\ c.boundaryRun = b.boundaryRun /\ c.prevWord # <<>>
  BY <1>b, <1>c, Zenon
<1>1. /\ w \in Seq(Char) /\ r \in Seq(Char) /\ g \in Seq(Char)
      /\ b.keys \in Seq(Letter) /\ b.boundaryRun \in Seq(Separator)
  BY DEF Char, Buffer
<1>2. r \o g \in Seq(Letter) /\ r \o g # <<>>
  <2>1. r \o g \in Seq(Letter) /\ Len(r \o g) = Len(r) + Len(g)
    BY ConcatProperties
  <2>2. Len(r) > 0 /\ Len(g) \in Nat
    BY EmptySeq
  <2>3. QED
    BY <2>1, <2>2
<1>3. /\ Holds(c, b.keys, r \o g, b.boundaryRun)
      /\ c.prevLead = b.prevLead /\ SameTrust(b, c)
  BY <1>2, <1>c, ReplaceFields
<1>4. c.keys = b.keys /\ c.boundaryRun = b.boundaryRun /\ c.prevWord = r \o g
  BY <1>3 DEF Holds
<1> DEFINE X == x \o w
           Y == x \o r
           k == Len(b.keys)
           m == Len(b.boundaryRun)
           n == Len(z)
           h == Len(g)
<1>5. X \in Seq(Char) /\ Y \in Seq(Char)
  BY <1>1
<1>6. /\ k \in Nat /\ m \in Nat /\ n \in Nat /\ h \in Nat /\ h + m + k = n
  <2>1. k \in Nat /\ m \in Nat /\ n \in Nat /\ h \in Nat
    BY <1>1
  <2>2. h + m + k = n
    BY Zenon
  <2>3. QED
    BY <2>1, <2>2
<1>7. u = X \o z /\ v = Y \o z
  BY <1>a, <1>b, Zenon
<1>8. EndsAt(Y, Len(Y), r)
  <2>1. EndsAt(x \o r, Len(x \o r), r)
    BY <1>1, EndsConcat
  <2>2. QED
    BY <2>1, Zenon
<1> HIDE DEF X, Y, n, k, m, h
<1>9. /\ Len(u) = Len(X) + n /\ Len(v) = Len(Y) + n
      /\ Len(X) \in Nat /\ Len(Y) \in Nat
  BY <1>5, <1>7, ConcatProperties DEF n
<1>10. /\ EndsAt(u, Len(u), b.keys) /\ EndsAt(u, Len(u) - k, b.boundaryRun)
       /\ EndsAt(u, Len(u) - k - m, b.prevWord)
  BY <1>d DEF Tracks, k, m
<1>11. EndsAt(v, Len(v), b.keys)
  <2>1. n \in 0..n /\ k <= n
    BY <1>6
  <2>2. QED
    BY <1>1, <1>5, <1>7, <1>9, <1>10, <2>1, EndsBehind DEF k, n
<1>12. EndsAt(v, Len(v) - k, b.boundaryRun)
  <2> DEFINE j == n - k
             e == Len(u) - k
             f == Len(v) - k
  <2>1. j \in 0..n /\ m <= j /\ e = Len(X) + j /\ f = Len(Y) + j
    BY <1>6, <1>9
  <2>2. EndsAt(u, e, b.boundaryRun)
    BY <1>10
  <2> HIDE DEF j, e, f
  <2>3. EndsAt(v, f, b.boundaryRun)
    BY <1>1, <1>5, <1>7, <2>1, <2>2, EndsBehind DEF m, n
  <2>4. QED
    BY <2>3 DEF f
<1>13. EndsAt(v, Len(v) - k - m, r \o g)
  <2> DEFINE e == Len(u) - k - m
             f == Len(v) - k - m
           lx == Len(X)
           ly == Len(Y)
           lu == Len(u)
           lv == Len(v)
  <2>0. /\ lu = lx + n /\ lv = ly + n /\ lx \in Nat /\ ly \in Nat
        /\ e = lu - k - m /\ f = lv - k - m
    BY <1>9
  <2>2. EndsAt(u, e, b.prevWord)
    BY <1>10
  <2> HIDE DEF e, f, lu, lv, lx, ly
  <2>1. /\ h \in 0..n /\ h <= h /\ e = lx + h /\ f = ly + h
        /\ e \in Nat /\ f \in Nat /\ f - h = ly
    BY <1>6, <2>0
  <2> USE DEF lx, ly
  <2>3. EndsAt(u, e, g)
    BY <1>1, <2>1, <2>2, EndsSuffix
  <2>4. EndsAt(v, f, g)
    <3>1. /\ h \in 0..Len(z) /\ Len(g) <= h /\ g \in Seq(Letter)
          /\ e = Len(X) + h /\ f = Len(Y) + h
      BY <2>1 DEF h, n
    <3>2. QED
      BY <1>5, <1>7, <2>3, <3>1, EndsBehind
  <2>5. EndsAt(v, f - Len(g), r)
    <3>1. EndsAt(v, Len(Y), r)
      <4>1. Len(Y) \in 0..Len(Y)
        BY <1>6
      <4>2. EndsAt(Y \o z, Len(Y), r)
        BY <1>1, <1>5, <1>8, <4>1, EndsConcat, Zenon
      <4>3. QED
        BY <1>7, <4>2, Zenon
    <3>2. f - Len(g) = Len(Y)
      BY <2>1 DEF h
    <3>3. QED
      BY <3>1, <3>2
  <2>6. EndsAt(v, f, r \o g)
    BY <1>1, <2>1, <2>4, <2>5, EndsJoined
  <2>7. QED
    BY <2>6 DEF f
<1>14. Tracks(c, v)
  BY <1>4, <1>11, <1>12, <1>13 DEF Tracks, k, m
<1>15. QED
  BY <1>2, <1>3, <1>4, <1>14 DEF Holds, SameTrust

\* A stash behind the offered word's own: the text holds that later word.
LEMMA LaterWord ==
  ASSUME NEW b \in Buffer, NEW x \in Seq(Char), NEW z \in Seq(Char),
         NEW u, u = x \o z, Tracks(b, u), b.prevWord # <<>>, b.boundaryRun # <<>>,
         NEW g \in Nat, Span(b) <= Len(z) - g
  PROVE  \E i, j \in DOMAIN z : /\ g < i /\ i < j
                                /\ z[i] \in Letter /\ z[j] \in Separator
<1> DEFINE k == Len(b.keys)
           r == Len(b.boundaryRun)
           q == Len(b.prevWord)
           n == Len(z)
           lx == Len(x)
           lu == Len(u)
           i == n - k - r - q + 1
           j == n - k - r + 1
<1>1. /\ b.keys \in Seq(Letter) /\ b.prevWord \in Seq(Letter)
      /\ b.boundaryRun \in Seq(Separator)
  BY DEF Buffer
<1>2. k \in Nat /\ r \in Nat /\ q \in Nat /\ n \in Nat /\ lx \in Nat
  BY <1>1
<1>3. r # 0 /\ q # 0
  BY <1>1, EmptySeq
<1>4. /\ lu = lx + n /\ DOMAIN z = 1..n
      /\ \A a \in 1..lx + n : u[a] = IF a <= lx THEN x[a] ELSE z[a - lx]
  BY ConcatProperties
<1>5. k + r + q <= n - g
  BY DEF Span
<1>6. /\ \A a \in 1..r : u[lu - k - r + a] = b.boundaryRun[a]
      /\ \A a \in 1..q : u[lu - k - r - q + a] = b.prevWord[a]
  BY DEF Tracks, EndsAt
<1>7. b.prevWord[1] \in Letter /\ b.boundaryRun[1] \in Separator
  BY <1>1, <1>2, <1>3, ElementOfSeq
<1> HIDE DEF k, r, q, n, lx, lu
<1>8. /\ i \in 1..n /\ j \in 1..n /\ g < i /\ i < j
      /\ lu - k - r + 1 = lx + j /\ lu - k - r - q + 1 = lx + i
      /\ lx + j \in 1..lx + n /\ lx + i \in 1..lx + n
      /\ ~(lx + j <= lx) /\ ~(lx + i <= lx)
      /\ lx + j - lx = j /\ lx + i - lx = i
  BY <1>2, <1>3, <1>4, <1>5
<1> HIDE DEF i, j
<1>9. 1 \in 1..r /\ 1 \in 1..q
  BY <1>2, <1>3
<1>10. u[lx + j] = b.boundaryRun[1] /\ u[lx + i] = b.prevWord[1]
  BY <1>6, <1>8, <1>9
<1>11. u[lx + j] = z[j] /\ u[lx + i] = z[i]
  <2> DEFINE aj == lx + j
             ai == lx + i
  <2>2. /\ aj \in 1..lx + n /\ j = aj - lx /\ ~(aj <= lx)
        /\ ai \in 1..lx + n /\ i = ai - lx /\ ~(ai <= lx)
    <3>1. aj = lx + j /\ ai = lx + i
      OBVIOUS
    <3> HIDE DEF ai, aj
    <3>2. QED
      BY <1>2, <1>8, <3>1
  <2> HIDE DEF ai, aj
  <2>3. u[aj] = z[aj - lx] /\ u[ai] = z[ai - lx]
    BY <1>4, <2>2
  <2>4. u[aj] = z[j] /\ u[ai] = z[i]
    BY <2>2, <2>3, Zenon
  <2>5. QED
    BY <2>4 DEF ai, aj
<1>12. QED
  BY <1>4, <1>7, <1>8, <1>10, <1>11

\* The buffer after a replacement is behind the text after it, unless the
\* stash was that of a later word.
LEMMA RetypedText ==
  ASSUME NEW p \in Offer, Shaped(p), NEW c \in Buffer, Ready(c),
         NEW x \in Seq(Char), NEW z \in Seq(Char), NEW r \in Replacement(p),
         Described(c, (x \o p.keys) \o z), Reaches(c, p, Len(z)),
         Glued(p.trail) \in Seq(Letter), Len(Glued(p.trail)) <= Len(z),
         ~Mistaken(z, c, p, r)
  PROVE  /\ Repointed(c, p, r) \in Buffer
         /\ Described(Repointed(c, p, r), (x \o r.word) \o z)
<1> DEFINE w == p.keys
           g == Glued(p.trail)
           u == (x \o w) \o z
           v == (x \o r.word) \o z
           k == Len(c.keys)
           m == Len(c.boundaryRun)
           q == Len(c.prevWord)
<1>1. /\ w \in Seq(Letter) /\ w \in Seq(Char) /\ x \o w \in Seq(Char)
      /\ u \in Seq(Char)
  BY ConcatProperties DEF Offer, Char
<1>2. w # <<>>
  BY DEF Shaped, Offer, NoOffer
<1>3. /\ c.keys \in Seq(Letter) /\ c.prevWord \in Seq(Letter)
      /\ c.boundaryRun \in Seq(Separator)
  BY DEF Buffer
<1>4. k \in Nat /\ m \in Nat /\ q \in Nat /\ Len(z) \in Nat /\ Len(g) \in Nat /\ Len(w) \in Nat
  BY <1>1, <1>3
<1>5. CASE r.stash \in {"kept", "stale"}
  <2>1. r.word = w
    BY <1>5 DEF Replacement
  <2>2. Described(c, v)
    BY <2>1
  <2>3. Repointed(c, p, r) \in {c, ForgetCompleted(c)}
    BY <1>5 DEF Repointed
  <2> HIDE DEF v
  <2>4. v \in Seq(Char)
    BY <1>1, <2>1 DEF v
  <2>5. QED
    BY <2>2, <2>3, <2>4, DescribedForgotten DEF v
<1>6. CASE r.stash \in {"follows", "text"}
  <2>1. /\ r.word \in Seq(Letter) /\ r.word # <<>>
        /\ r.word \in Seq(Char) /\ x \o r.word \in Seq(Char)
    <3>1. r.word \in Words
      BY <1>6 DEF Replacement
    <3>2. r.word \in Seq(Letter) /\ r.word # <<>>
      BY <3>1, SuggestionsAssumption
    <3>3. r.word \in Seq(Char)
      BY <3>2 DEF Char
    <3>4. QED
      BY <3>2, <3>3, ConcatProperties
  <2>2. ASSUME NEW f \in Buffer, Described(f, u), Span(f) <= Len(z)
        PROVE  Described(f, v)
    <3>1. Described(f, (x \o r.word) \o z)
      BY <1>1, <2>1, <2>2, DescribedBehindWord
    <3>2. QED
      BY <3>1
  <2>3. CASE c.prevWord # w \o g
    <3>1. Repointed(c, p, r) = c
      BY <1>6, <2>3 DEF Repointed
    <3>2. Span(c) <= Len(z) - Len(g)
      BY <2>3 DEF Reaches
    <3>3. Span(c) \in Int
      BY <1>4 DEF Span
    <3>4. Span(c) <= Len(z)
      BY <1>4, <3>2, <3>3
    <3>5. QED
      BY <2>2, <3>1, <3>4
  <2>4. CASE c.prevWord = w \o g
    <3>1. q = Len(w) + Len(g) /\ c.prevWord # <<>>
      <4>1. Len(w \o g) = Len(w) + Len(g) /\ Len(w) # 0
        BY <1>1, <1>2, ConcatProperties, EmptySeq
      <4>2. q = Len(w) + Len(g)
        BY <2>4, <4>1, Zenon
      <4>3. c.prevWord = <<>> => q = 0
        OBVIOUS
      <4> HIDE DEF q, g, w
      <4>4. q # 0
        BY <1>4, <4>1, <4>2
      <4>5. QED
        BY <4>2, <4>3, <4>4
    <3>2. c.boundaryRun # <<>> /\ ~c.poisoned /\ Tracks(c, u)
      BY <3>1 DEF Ready, Described
    <3>3. CASE r.stash = "text"
      <4> DEFINE f == ForgetCompleted(c)
      <4>1. Repointed(c, p, r) = f
        BY <2>4, <3>3 DEF Repointed, ReplaceCompleted
      <4>2. f \in Buffer /\ Described(f, u)
        BY <1>1, DescribedForgotten
      <4>3. f.keys = c.keys /\ f.prevWord = <<>> /\ f.boundaryRun = <<>>
        BY ForgetFields DEF Holds
      <4>4. Span(f) = k
        BY <1>4, <4>3 DEF Span
      <4>5. Span(c) = k + m + q
        BY DEF Span
      <4>6. Span(c) <= Len(z) - Len(g) \/ Span(c) = Len(w) + Len(z)
        BY DEF Reaches
      <4> HIDE DEF f, u, v, k, m, q, g, w
      <4>7. k <= Len(z)
        BY <1>4, <3>1, <4>5, <4>6
      <4>8. Span(f) <= Len(z)
        BY <4>4, <4>7
      <4>9. Described(f, v)
        BY <2>2, <4>2, <4>8
      <4>10. QED
        BY <4>1, <4>2, <4>9 DEF v
    <3>4. CASE r.stash = "follows"
      <4> DEFINE f == ReplaceCompleted(c, r.word \o g)
      <4>1. Repointed(c, p, r) = f
        BY <2>4, <3>4 DEF Repointed
      <4>2. Span(c) = k + m + q /\ Span(c) \in Int
        BY <1>4 DEF Span
      <4>3. ~(Span(c) <= Len(z) - Len(g))
        <5>1. SUFFICES ASSUME Span(c) <= Len(z) - Len(g) PROVE FALSE
          OBVIOUS
        <5>2. \E i, j \in DOMAIN z : /\ Len(g) < i /\ i < j
                                     /\ z[i] \in Letter /\ z[j] \in Separator
          BY <1>1, <1>4, <3>1, <3>2, <5>1, LaterWord
        <5>3. QED
          BY <2>4, <3>4, <5>2 DEF Mistaken
      <4>4. Span(c) = Len(w) + Len(z)
        BY <4>3 DEF Reaches
      <4>5. Len(g) + m + k = Len(z)
        <5> HIDE DEF f, u, v, k, m, q, g, w
        <5>1. QED
          BY <1>4, <3>1, <4>2, <4>4
      <4>6. /\ f \in Buffer /\ Tracks(f, v)
            /\ f.poisoned = c.poisoned /\ f.prevLead = c.prevLead
            /\ f.boundaryRun = c.boundaryRun /\ f.prevWord # <<>>
        <5> DEFINE rw == r.word
        <5>1. Completed(c, x, w, g, z) /\ rw \in Seq(Letter) /\ rw # <<>>
          BY <1>1, <2>1, <2>4, <3>2, <4>5, Zenon DEF Completed
        <5> HIDE DEF f, u, v, g, w, rw
        <5> DEFINE h == ReplaceCompleted(c, rw \o g)
        <5>2. /\ h \in Buffer /\ Tracks(h, (x \o rw) \o z)
              /\ h.poisoned = c.poisoned /\ h.prevLead = c.prevLead
              /\ h.boundaryRun = c.boundaryRun /\ h.prevWord # <<>>
          BY <5>1, TracksReplaced
        <5>3. QED
          BY <5>2, Zenon DEF f, v, rw
      <4> HIDE DEF f, v
      <4>7. Described(f, v)
        BY <3>2, <4>6 DEF Described
      <4>8. QED
        BY <4>1, <4>6, <4>7 DEF v
    <3>5. QED
      BY <1>6, <3>3, <3>4
  <2>5. QED
    BY <2>3, <2>4
<1>7. r.stash \in {"kept", "stale"} \cup {"follows", "text"}
  BY DEF Replacement
<1>8. QED
  BY <1>5, <1>6, <1>7

-----------------------------------------------------------------------------
(* A replacement that goes through. *)

LEMMA OfferTexts ==
  ASSUME NEW p \in Offer, Shaped(p)
  PROVE  /\ p.keys \in Seq(Letter) /\ p.keys \in Seq(Char) /\ p.trail \in Seq(Char)
         /\ Glued(p.trail) \in Seq(Letter)
         /\ Len(p.trail) \in Nat /\ Len(Glued(p.trail)) \in Nat
         /\ Len(Glued(p.trail)) < Len(p.trail)
<1>1. p.keys \in Seq(Letter) /\ p.trail \in Seq(Char)
  BY DEF Offer
<1>2. HasSeparator(p.trail)
  BY DEF Shaped, Offer, NoOffer
<1>3. PICK n \in 1..Len(p.trail) :
        Glued(p.trail) \in Seq(Letter) /\ Len(Glued(p.trail)) = n - 1
  BY <1>1, <1>2, GluedFields
<1>4. Len(p.trail) \in Nat
  BY <1>1
<1>5. QED
  BY <1>1, <1>3, <1>4, TextTypes

LEMMA SeedType ==
  ASSUME NEW b \in Buffer, NEW x \in Seq(Char)
  PROVE  SeedBuffer(b, x) \in Buffer
<1>1. PICK f : Feeds(f, b, x, Len(x)) /\ SeedBuffer(b, x) = f[Len(x)]
  BY SeedFunction
<1>2. f \in [0..Len(x) -> Buffer] /\ Len(x) \in 0..Len(x)
  BY <1>1 DEF Feeds
<1>3. QED
  BY <1>1, <1>2

LEMMA RepointedType ==
  ASSUME NEW p \in Offer, Shaped(p), NEW c \in Buffer, NEW r \in Replacement(p)
  PROVE  /\ r.word \in Seq(Letter) /\ r.word \in Seq(Char)
         /\ Repointed(c, p, r) \in Buffer
<1> DEFINE g == Glued(p.trail)
<1>1. p.keys \in Seq(Letter) /\ g \in Seq(Letter)
  BY OfferTexts
<1>2. r.word \in Seq(Letter)
  BY <1>1, SuggestionsAssumption DEF Replacement
<1>3. r.word \o g \in Seq(Letter)
  BY <1>1, <1>2, ConcatProperties
<1>4. ForgetCompleted(c) \in Buffer
  BY ForgetFields DEF Holds
<1>5. ASSUME NEW w \in Seq(Letter) PROVE ReplaceCompleted(c, w) \in Buffer
  <2>1. CASE w = <<>>
    BY <1>4, <2>1 DEF ReplaceCompleted
  <2>2. CASE w # <<>>
    BY <2>2, ReplaceFields DEF Holds
  <2>3. QED
    BY <2>1, <2>2
<1>6. Repointed(c, p, r) \in {c, ForgetCompleted(c), ReplaceCompleted(c, <<>>),
                              ReplaceCompleted(c, r.word \o g)}
  BY DEF Repointed
<1> HIDE DEF g
<1>7. QED
  BY <1>2, <1>3, <1>4, <1>5, <1>6, EmptySeqs, TextTypes

\* The world after a replacement.
After(e, t, b, w, d, l) ==
  [e EXCEPT !.screen = t, !.buf = b, !.wire = w, !.done = d, !.slips = l]

LEMMA WorldGood ==
  ASSUME NEW e, Good(e), NEW b \in Buffer, NEW w \in Seq(Press),
         NEW t \in Seq(Char), NEW d \in Result, NEW l \in SUBSET {"strayed", "mistaken"}
  PROVE  LET f == After(e, t, b, w, d, l)
         IN  /\ Good(f) /\ f.offer = e.offer
             /\ f.screen = t /\ f.buf = b /\ f.wire = w /\ f.done = d /\ f.slips = l
<1> DEFINE f == After(e, t, b, w, d, l)
<1> USE DEF After
<1>1. e \in Cores
  BY DEF Good
<1>2. /\ f \in Cores /\ f.offer = e.offer /\ f.armed = e.armed /\ f.outs = e.outs
      /\ f.screen = t /\ f.buf = b /\ f.wire = w /\ f.done = d /\ f.slips = l
  BY <1>1 DEF Cores
<1> HIDE DEF f
<1>3. Good(f)
  BY <1>2 DEF Good, Shaped, Fronted
<1>4. QED
  BY <1>2, <1>3 DEF f

LEMMA OfferedReaches ==
  ASSUME NEW p \in Offer, Shaped(p), NEW b \in Buffer, Vouched(p, b),
         NEW t, OfferedAt(p, b, t)
  PROVE  Ready(b) /\ Reaches(b, p, Len(p.trail))
<1>1. p # NoOffer
  BY DEF Offer, NoOffer
<1>2. CASE p.grace = "none"
  <2>1. ~b.poisoned /\ Agrees(p, b)
    BY <1>1, <1>2 DEF OfferedAt, Vouched
  <2>2. QED
    BY <2>1, SegmentReaches DEF Ready
<1>3. CASE p.grace # "none"
  <2>1. b.keys = <<>> /\ b.prevWord = <<>> /\ b.boundaryRun = <<>>
    BY <1>1, <1>3 DEF OfferedAt, Blank, Holds
  <2>2. Span(b) = 0
    BY <2>1 DEF Span
  <2>3. Span(b) <= Len(p.trail) - Len(Glued(p.trail))
    BY <2>2, OfferTexts
  <2>4. QED
    BY <2>1, <2>3 DEF Ready, Reaches
<1>4. QED
  BY <1>2, <1>3

LEMMA KeepFirst ==
  ASSUME NEW x \in Seq(Char), NEW y \in Seq(Char)
  PROVE  Keep(x \o y, Len(x)) = x
<1> DEFINE u == x \o y
           n == Len(x)
<1>1. /\ u \in Seq(Char) /\ Len(u) = n + Len(y) /\ n \in Nat /\ Len(y) \in Nat
      /\ \A i \in 1..n : u[i] = x[i]
  BY ConcatProperties
<1> HIDE DEF u
<1>2. n \in 0..Len(u)
  BY <1>1
<1> DEFINE v == Keep(u, n)
<1>3. v \in Seq(Char) /\ Len(v) = n /\ \A i \in 1..n : v[i] = u[i]
  BY <1>1, <1>2, KeepFields
<1> HIDE DEF v
<1>4. v = x
  BY <1>1, <1>3, SeqEqual
<1>5. QED
  BY <1>4 DEF u, v

AreTexts(x, y, z) == {x, y, z} \subseteq Seq(Char)

LEMMA Joined ==
  ASSUME NEW x, NEW y, NEW z, AreTexts(x, y, z)
  PROVE  (x \o y) \o z = x \o (y \o z)
BY ConcatAssociative DEF AreTexts

FiveTexts(x, k, t, w, r) == {x, k, t, w, r} \subseteq Seq(Char)

LEMMA Rejoined ==
  ASSUME NEW x, NEW k, NEW t, NEW w, NEW r, FiveTexts(x, k, t, w, r)
  PROVE  LET z == Join(Join(t, w), r)
         IN  /\ z \in Seq(Char) /\ Join(k, z) \in Seq(Char)
             /\ Len(z) = Len(t) + Len(Join(w, r))
             /\ Join(Join(x, Join(k, t)), Join(w, r)) = Join(x, Join(k, z))
             /\ Join(Join(x, Join(k, t)), Join(w, r)) = Join(Join(x, k), z)
<1> USE DEF Join
<1>0. /\ x \in Seq(Char) /\ k \in Seq(Char) /\ t \in Seq(Char)
      /\ w \in Seq(Char) /\ r \in Seq(Char)
  BY DEF FiveTexts
<1>1. w \o r \in Seq(Char) /\ k \o t \in Seq(Char) /\ x \o k \in Seq(Char)
  BY <1>0, ConcatProperties
<1>2. (t \o w) \o r = t \o (w \o r)
  <2>1. AreTexts(t, w, r)
    BY <1>0 DEF AreTexts
  <2>2. QED
    BY <2>1, Joined
<1> DEFINE v == w \o r
<1> HIDE DEF v
<1>3. t \o v \in Seq(Char) /\ Len(t \o v) = Len(t) + Len(v) /\ v \in Seq(Char)
  <2>1. v \in Seq(Char)
    BY <1>1 DEF v
  <2>2. QED
    BY <1>0, <2>1, ConcatProperties
<1>4. k \o (t \o v) \in Seq(Char) /\ x \o (k \o (t \o v)) = (x \o k) \o (t \o v)
  <2>1. PICK q : q = t \o v
    OBVIOUS
  <2>2. q \in Seq(Char)
    BY <1>3, <2>1, Zenon
  <2>3. k \o q \in Seq(Char)
    BY <1>0, <2>2, ConcatProperties
  <2>4. AreTexts(x, k, q)
    BY <1>0, <2>2 DEF AreTexts
  <2>6. x \o (k \o q) = (x \o k) \o q
    BY <2>4, Joined
  <2>5. QED
    BY <2>1, <2>3, <2>6, Zenon
<1>5. (x \o (k \o t)) \o v = x \o ((k \o t) \o v)
  <2>1. PICK q : q = k \o t
    OBVIOUS
  <2>2. q \in Seq(Char)
    BY <1>1, <2>1, Zenon
  <2>5. AreTexts(x, q, v)
    BY <1>0, <1>3, <2>2 DEF AreTexts
  <2>3. (x \o q) \o v = x \o (q \o v)
    BY <2>5, Joined
  <2>4. QED
    BY <2>1, <2>3, Zenon
<1>6. (k \o t) \o v = k \o (t \o v)
  <2>1. AreTexts(k, t, v)
    BY <1>0, <1>3 DEF AreTexts
  <2>2. QED
    BY <2>1, Joined
<1>8. (t \o w) \o r = t \o v
  BY <1>2 DEF v
<1>9. QED
  BY <1>3, <1>4, <1>5, <1>6, <1>8, Zenon DEF v

\* What is replaced is the offered word with everything typed behind it, and
\* the buffer is behind the text after the replacement.
LEMMA RetypedTracks ==
  ASSUME NEW e, Good(e), Pending(e), Vouched(e.offer, e.buf),
         NEW by, NEW S, NEW n, NEW d, Drained(by, e, S, n, d), Behind(e, S[0]),
         ~e.offer.strayed, NEW r \in Replacement(e.offer)
  PROVE  LET p   == e.offer
             z   == Join(Join(p.trail, d.words), d.resume)
             all == Join(p.keys, z)
             c   == SeedBuffer(e.buf, Join(d.words, d.resume))
         IN  /\ d.rest = <<>>
             /\ Len(all) <= Len(e.screen) /\ EndsAt(e.screen, Len(e.screen), all)
             /\ ~Mistaken(z, c, p, r)
                  => Described(Repointed(c, p, r),
                       Join(Join(Keep(e.screen, Len(e.screen) - Len(all)), r.word), z))
<1> DEFINE p == e.offer
           k == p.keys
           t == p.trail
           w == d.words
           y == d.resume
           v == w \o y
           z == (t \o w) \o y
           all == k \o z
           c == SeedBuffer(e.buf, v)
           s == S[0]
<1>1. p \in Offer /\ p # NoOffer /\ Shaped(p) /\ e.buf \in Buffer /\ e \in Cores
  BY DEF Good, Cores, Pending, Offer, NoOffer
<1>2. /\ k \in Seq(Letter) /\ k \in Seq(Char) /\ t \in Seq(Char)
      /\ Glued(t) \in Seq(Letter) /\ Len(t) \in Nat /\ Len(Glued(t)) \in Nat
      /\ Len(Glued(t)) < Len(t)
  BY <1>1, OfferTexts
<1>3. w \in Seq(Char) /\ y \in Seq(Char)
  BY TextTypes DEF Absorbed, Drained
<1>4. s \in Seq(Char)
  <2>1. 0 \in 0..Len(e.wire)
    BY <1>1 DEF Cores
  <2>2. QED
    BY <2>1 DEF Scene, Drained
<1>5. d.rest = <<>> /\ e.screen = s \o v
  <2>1. d.rest = <<>> /\ e.screen = Join(S[0], Join(d.words, d.resume))
    BY DrainedText
  <2>2. QED
    BY <2>1, Zenon DEF Join
<1>6. k \o t \in Seq(Char) /\ v \in Seq(Char)
  BY <1>2, <1>3, ConcatProperties
<1>7. PICK x : x = Keep(s, Len(s) - Len(k \o t))
  OBVIOUS
<1>8. EndsAt(s, Len(s), k \o t)
  BY <1>1 DEF Behind, OfferedAt
<1>9. x \in Seq(Char) /\ x \o (k \o t) = s
  <2>1. x \o (k \o t) = s
    BY <1>4, <1>6, <1>7, <1>8, EndRetyped
  <2> DEFINE m == Len(s) - Len(k \o t)
  <2>2. m \in 0..Len(s)
    <3>1. PICK q : q = k \o t
      OBVIOUS
    <3>2. q \in Seq(Char) /\ EndsAt(s, Len(s), q) /\ m = Len(s) - Len(q)
      BY <1>6, <1>8, <3>1, Zenon
    <3> HIDE DEF m, s
    <3>3. Len(q) \in Nat /\ Len(s) \in Nat /\ Len(q) <= Len(s)
      BY <1>4, <3>2 DEF EndsAt
    <3>4. QED
      BY <3>2, <3>3
  <2>3. x = Keep(s, m)
    BY <1>7
  <2> HIDE DEF m
  <2>4. QED
    BY <1>4, <2>1, <2>2, <2>3, KeepFields
<1> HIDE DEF p, k, t, w, y, s
<1>10. /\ z \in Seq(Char) /\ all \in Seq(Char) /\ Len(z) = Len(t) + Len(v)
       /\ (x \o (k \o t)) \o v = x \o all
       /\ (x \o (k \o t)) \o v = (x \o k) \o z
  <2>1. FiveTexts(x, k, t, w, y)
    BY <1>2, <1>3, <1>9 DEF FiveTexts
  <2> DEFINE zz == Join(Join(t, w), y)
  <2>2. /\ zz \in Seq(Char) /\ Join(k, zz) \in Seq(Char)
        /\ Len(zz) = Len(t) + Len(Join(w, y))
        /\ Join(Join(x, Join(k, t)), Join(w, y)) = Join(x, Join(k, zz))
        /\ Join(Join(x, Join(k, t)), Join(w, y)) = Join(Join(x, k), zz)
    BY <2>1, Rejoined
  <2>3. QED
    BY <2>2, Zenon DEF Join
<1> HIDE DEF v, z, all
<1>11. e.screen = x \o all /\ e.screen = (x \o k) \o z
  BY <1>5, <1>9, <1>10, Zenon
<1>12. EndsAt(x \o all, Len(x \o all), all) /\ Keep(x \o all, Len(x)) = x
  <2>1. EndsAt(x \o all, Len(x \o all), all)
    BY <1>9, <1>10, EndsConcat
  <2>2. Keep(x \o all, Len(x)) = x
    BY <1>9, <1>10, KeepFirst
  <2>3. QED
    BY <2>1, <2>2, Zenon
<1>13. /\ Len(x \o all) = Len(x) + Len(all) /\ Len(x) \in Nat /\ Len(all) \in Nat
  <2>1. x \in Seq(Char) /\ all \in Seq(Char)
    BY <1>9, <1>10
  <2>2. QED
    BY <2>1, ConcatProperties
<1>14. PICK q : q = e.screen
  OBVIOUS
<1>15. /\ EndsAt(q, Len(q), all) /\ Keep(q, Len(x)) = x
       /\ Len(q) = Len(x) + Len(all)
  BY <1>11, <1>12, <1>13, <1>14, Zenon
<1>16. Len(all) <= Len(q) /\ Len(q) - Len(all) = Len(x)
  <2> DEFINE a == Len(q)
             b == Len(x)
             f == Len(all)
  <2>1. a = b + f /\ b \in Nat /\ f \in Nat
    BY <1>13, <1>15
  <2> HIDE DEF a, b, f
  <2>2. f <= a /\ a - f = b
    BY <2>1
  <2>3. QED
    BY <2>2 DEF a, b, f
<1>17. Keep(q, Len(q) - Len(all)) = x
  BY <1>15, <1>16, Zenon
<1>18. c \in Buffer /\ Ready(c) /\ Reaches(c, p, Len(z)) /\ Described(c, (x \o k) \o z)
  <2>1. Ready(e.buf) /\ Reaches(e.buf, p, Len(t))
    BY <1>1, OfferedReaches DEF Behind, p, t
  <2>2. Ready(c) /\ Reaches(c, p, Len(t) + Len(v))
    <3>1. Len(Glued(t)) <= Len(t)
      BY <1>2
    <3>2. QED
      BY <1>1, <1>2, <1>6, <2>1, <3>1, SeedReaches DEF t
  <2>3. c \in Buffer /\ Described(c, s \o v)
    BY <1>1, <1>4, <1>6, SeedDescribed DEF Behind, s
  <2>4. s \o v = (x \o k) \o z
    BY <1>9, <1>10, Zenon
  <2>5. QED
    BY <1>10, <2>2, <2>3, <2>4, Zenon
<1> HIDE DEF c
<1>19. ASSUME ~Mistaken(z, c, p, r)
       PROVE  Described(Repointed(c, p, r), (x \o r.word) \o z)
  <2>1. /\ r \in Replacement(p) /\ Glued(p.trail) \in Seq(Letter)
        /\ Described(c, (x \o p.keys) \o z)
    BY <1>2, <1>18 DEF p, t, k
  <2>2. Len(Glued(p.trail)) <= Len(z)
    <3>1. Len(v) \in Nat
      BY <1>6
    <3>2. Len(Glued(t)) <= Len(z)
      BY <1>2, <1>10, <3>1
    <3>3. QED
      BY <3>2 DEF t
  <2>3. QED
    BY <1>1, <1>9, <1>10, <1>18, <1>19, <2>1, <2>2, RetypedText
<1>20. QED
  <2>1. /\ Len(all) <= Len(e.screen) /\ EndsAt(e.screen, Len(e.screen), all)
        /\ Keep(e.screen, Len(e.screen) - Len(all)) = x
    BY <1>14, <1>15, <1>16, <1>17, Zenon
  <2>2. ~Mistaken(z, c, p, r)
          => Described(Repointed(c, p, r),
               (Keep(e.screen, Len(e.screen) - Len(all)) \o r.word) \o z)
    BY <1>19, <2>1, Zenon
  <2>3. QED
    BY <1>5, <2>1, <2>2, Zenon DEF all, z, v, c, p, k, t, w, y, Join

\* There are texts from the one the engine is behind to the one there is.
Sight(e) == \E S : Scene(e, S) /\ Behind(e, S[0])

Told(e) == e.slips = {} => Sight(e)

\* Short of a known slip, what is retyped is what the offer was for, and the
\* engine stays behind the text.
Lands(e, o) ==
  /\ Good(o)
  /\ o.slips = {} => e.slips = {}
  /\ Told(e) => Told(o) /\ (e.slips = {} => o.done.right \/ o.done.strayed)

LEMMA RetypedFields ==
  ASSUME NEW e, Good(e), Pending(e), NEW by \in {"key", "pointer"},
         NEW r \in Replacement(e.offer), NEW n, Absorbed(Absorb(by, e.wire), e.wire, n)
  PROVE  LET d   == Absorb(by, e.wire)
             p   == e.offer
             z   == Join(Join(p.trail, d.words), d.resume)
             all == Join(p.keys, z)
             c   == SeedBuffer(e.buf, Join(d.words, d.resume))
             o   == Retyped(e, by, r)
         IN  /\ Good(o) /\ o.offer = NoOffer /\ o.wire = d.rest
             /\ o.buf = Repointed(c, p, r)
             /\ Len(all) <= Len(e.screen) =>
                  o.screen = Join(Join(Keep(e.screen, Len(e.screen) - Len(all)), r.word), z)
             /\ o.done.right = EndsAt(e.screen, Len(e.screen), all)
             /\ o.done.strayed = (p.strayed \/ d.away)
             /\ o.slips = {} => /\ e.slips = {} /\ ~p.strayed /\ ~d.away
                                /\ ~Mistaken(z, c, p, r)
<1> DEFINE d == Absorb(by, e.wire)
           p == e.offer
           v == Join(d.words, d.resume)
           z == Join(Join(p.trail, d.words), d.resume)
           all == Join(p.keys, z)
           c == SeedBuffer(e.buf, v)
           o == Retyped(e, by, r)
           from == IF Len(all) <= Len(e.screen) THEN Len(e.screen) - Len(all) ELSE 0
           t == Join(Join(Keep(e.screen, from), r.word), z)
           away == p.strayed \/ d.away
           res == [by |-> by, right |-> EndsAt(e.screen, Len(e.screen), all),
                   strayed |-> away]
           sl == e.slips \cup (IF away THEN {"strayed"} ELSE {})
                         \cup (IF Mistaken(z, c, p, r) THEN {"mistaken"} ELSE {})
<1>1. /\ p \in Offer /\ p # NoOffer /\ Shaped(p) /\ e.buf \in Buffer /\ e \in Cores
      /\ e.screen \in Seq(Char) /\ e.slips \in SUBSET {"strayed", "mistaken"}
      /\ p.strayed \in BOOLEAN
  BY DEF Good, Cores, Pending, Offer, NoOffer
<1>2. /\ d.words \in Seq(Char) /\ d.resume \in Seq(Char) /\ d.rest \in Seq(Press)
      /\ d.away \in BOOLEAN
  BY TextTypes DEF Absorbed
<1>3. /\ p.trail \in Seq(Char) /\ p.keys \in Seq(Char)
  BY <1>1, OfferTexts
<1>4. ASSUME NEW x \in Seq(Char), NEW y \in Seq(Char) PROVE Join(x, y) \in Seq(Char)
  BY <1>4, ConcatProperties DEF Join
<1>5. /\ v \in Seq(Char) /\ z \in Seq(Char) /\ all \in Seq(Char)
  <2> HIDE DEF d, p
  <2>1. Join(p.trail, d.words) \in Seq(Char) /\ v \in Seq(Char)
    BY <1>2, <1>3, <1>4
  <2>2. z \in Seq(Char)
    BY <1>2, <1>4, <2>1
  <2> HIDE DEF z
  <2>3. QED
    BY <1>3, <1>4, <2>1, <2>2
<1>6. c \in Buffer
  BY <1>1, <1>5, SeedType
<1>7. r.word \in Seq(Char) /\ Repointed(c, p, r) \in Buffer
  BY <1>1, <1>6, RepointedType
<1>8. t \in Seq(Char)
  <2> HIDE DEF all, z, d, p
  <2>1. Len(e.screen) \in Nat /\ Len(all) \in Nat
    BY <1>1, <1>5
  <2>2. from \in 0..Len(e.screen)
    BY <2>1
  <2> HIDE DEF from
  <2>3. Keep(e.screen, from) \in Seq(Char)
    BY <1>1, <2>2, KeepFields
  <2>4. Join(Keep(e.screen, from), r.word) \in Seq(Char)
    BY <1>4, <1>7, <2>3
  <2>5. QED
    BY <1>4, <1>5, <2>4
<1>9. res \in Result /\ sl \in SUBSET {"strayed", "mistaken"}
  <2> HIDE DEF all, z, c, d, p
  <2>1. away \in BOOLEAN /\ EndsAt(e.screen, Len(e.screen), all) \in BOOLEAN
    BY <1>1, <1>2 DEF EndsAt
  <2>2. QED
    BY <1>1, <2>1 DEF Result
<1> DEFINE f == Cleared(e)
           re == Repointed(c, p, r)
<1>10. Good(f) /\ f.offer = NoOffer /\ Kept(e, f) /\ f.buf = e.buf
  BY <1>1, ClearedFields
<1>11. o = After(f, t, re, d.rest, res, sl)
  <2>1. f.slips = e.slips /\ f.screen = e.screen
    BY <1>10 DEF Kept
  <2>2. o = [f EXCEPT
               !.screen = SubSeq(@, 1, from) \o r.word \o z,
               !.buf    = Repointed(c, p, r),
               !.wire   = d.rest, !.done = res,
               !.slips  = @ \cup (IF away THEN {"strayed"} ELSE {})
                            \cup (IF Mistaken(z, c, p, r) THEN {"mistaken"} ELSE {})]
    BY Zenon DEF Retyped, Join
  <2>3. SubSeq(f.screen, 1, from) \o r.word \o z = t
    BY <2>1, Zenon DEF Join, Keep
  <2> DEFINE m == Mistaken(z, c, p, r)
  <2>4. f \in Cores
    BY <1>10 DEF Good
  <2>5. sl = f.slips \cup (IF away THEN {"strayed"} ELSE {})
                     \cup (IF m THEN {"mistaken"} ELSE {})
    BY <2>1, Zenon
  <2> HIDE DEF f, from, c, d, res, away, p, z, t, o, m, sl, re
  <2>6. o = [f EXCEPT !.screen = t, !.buf = re, !.wire = d.rest, !.done = res,
                      !.slips = sl]
    <3>1. Repointed(c, p, r) = re
      BY DEF re
    <3>2. QED
      BY <2>2, <2>3, <2>4, <2>5, <3>1 DEF Cores, m
  <2>7. QED
    BY <2>6 DEF After
<1>a. re \in Buffer
  BY <1>7
<1> HIDE DEF t, res, sl, c, d, p, o, z, all, from, f, re
<1>12. /\ Good(o) /\ o.offer = NoOffer
       /\ o.screen = t /\ o.buf = re /\ o.wire = d.rest
       /\ o.done = res /\ o.slips = sl
  <2> DEFINE h == After(f, t, re, d.rest, res, sl)
  <2>1. /\ Good(h) /\ h.offer = f.offer /\ h.screen = t /\ h.buf = re
        /\ h.wire = d.rest /\ h.done = res /\ h.slips = sl
    BY <1>2, <1>a, <1>8, <1>9, <1>10, WorldGood
  <2> HIDE DEF h
  <2>2. o = h
    BY <1>11 DEF h
  <2>3. QED
    BY <1>10, <2>1, <2>2, Zenon
<1>13. /\ res.right = EndsAt(e.screen, Len(e.screen), all)
       /\ res.strayed = (p.strayed \/ d.away)
  BY Zenon DEF res
<1>14. sl = {} => e.slips = {} /\ ~p.strayed /\ ~d.away /\ ~Mistaken(z, c, p, r)
  BY DEF sl
<1>15. Len(all) <= Len(e.screen) =>
         t = Join(Join(Keep(e.screen, Len(e.screen) - Len(all)), r.word), z)
  BY Zenon DEF t, from
<1>16. /\ Good(o) /\ o.offer = NoOffer /\ o.wire = d.rest
       /\ o.buf = Repointed(c, p, r)
       /\ Len(all) <= Len(e.screen) =>
            o.screen = Join(Join(Keep(e.screen, Len(e.screen) - Len(all)), r.word), z)
       /\ o.done.right = EndsAt(e.screen, Len(e.screen), all)
       /\ o.done.strayed = (p.strayed \/ d.away)
       /\ o.slips = {} => /\ e.slips = {} /\ ~p.strayed /\ ~d.away
                          /\ ~Mistaken(z, c, p, r)
  BY <1>12, <1>13, <1>14, <1>15, Zenon DEF re
<1>17. QED
  BY <1>16, Zenon DEF o, d, p, c, z, all

RestOf(w, m) == SubSeq(w, m + 1, Len(w))

LEMMA SceneFrom ==
  ASSUME NEW e \in Cores, NEW S, Scene(e, S), NEW m \in 0..Len(e.wire),
         NEW f, f.wire = RestOf(e.wire, m), f.screen = e.screen
  PROVE  \E T : Scene(f, T) /\ T[0] = S[m]
<1> DEFINE w == e.wire
           l == Len(w)
           v == f.wire
<1>1. w \in Seq(Press) /\ l \in Nat
  BY DEF Cores
<1>2. m \in 0..l /\ l \in l..l /\ l \in 0..l /\ l \in m..l
  BY <1>1
<1>3. /\ v \in Seq(Press) /\ Len(v) = l - m
      /\ \A i \in 1..l - m : v[i] = w[m + i]
  BY <1>1, <1>2, Cut DEF RestOf
<1>4. /\ S \in [0..l -> Seq(Char)] /\ S[l] = e.screen
      /\ \A i \in 1..l : Effect(w[i], S[i - 1], S[i])
  BY DEF Scene
<1> DEFINE T == [i \in 0..l - m |-> S[m + i]]
<1> HIDE DEF w, l, v
<1>5. T \in [0..l - m -> Seq(Char)]
  <2>1. ASSUME NEW i \in 0..l - m PROVE S[m + i] \in Seq(Char)
    <3>1. m + i \in 0..l
      BY <1>1, <1>2
    <3>2. QED
      BY <1>4, <3>1
  <2>2. QED
    BY <2>1
<1>6. T[0] = S[m] /\ T[l - m] = S[l]
  BY <1>1, <1>2
<1>7. ASSUME NEW i \in 1..l - m PROVE Effect(v[i], T[i - 1], T[i])
  <2> DEFINE j == m + i
             h == i - 1
  <2>1. /\ j \in 1..l /\ j - 1 = m + h /\ h \in 0..l - m /\ i \in 0..l - m
    BY <1>1, <1>2
  <2>2. v[i] = w[j] /\ T[i] = S[j] /\ T[h] = S[m + h]
    BY <1>3, <2>1
  <2> HIDE DEF j, h, T
  <2>3. Effect(w[j], S[j - 1], S[j])
    BY <1>4, <2>1
  <2>4. Effect(v[i], T[h], T[i])
    BY <2>1, <2>2, <2>3
  <2>5. QED
    BY <2>4 DEF h
<1> HIDE DEF T
<1>8. Scene(f, T)
  BY <1>3, <1>4, <1>5, <1>6, <1>7 DEF Scene, v
<1>9. QED
  BY <1>6, <1>8

LEMMA SceneEnd ==
  ASSUME NEW f, f.wire = <<>>, f.screen \in Seq(Char), Behind(f, f.screen)
  PROVE  Sight(f)
<1> DEFINE S == [i \in 0..0 |-> f.screen]
<1>1. Len(f.wire) = 0
  OBVIOUS
<1>2. S \in [0..0 -> Seq(Char)] /\ S[0] = f.screen /\ ~ \E i \in 1..0 : TRUE
  OBVIOUS
<1> HIDE DEF S
<1>3. Scene(f, S)
  BY <1>1, <1>2 DEF Scene
<1>4. QED
  BY <1>2, <1>3 DEF Sight

LEMMA RetypedSound ==
  ASSUME NEW e, Good(e), Pending(e), Vouched(e.offer, e.buf), Absorbable(e.wire),
         NEW by \in {"key", "pointer"}, NEW n, Stops(by, e.wire, n),
         Absorbed(Absorb(by, e.wire), e.wire, n), ~Absorb(by, e.wire).suspicious,
         NEW r \in Replacement(e.offer)
  PROVE  Lands(e, Retyped(e, by, r)) /\ Retyped(e, by, r).offer = NoOffer
<1> DEFINE d   == Absorb(by, e.wire)
           p   == e.offer
           z   == Join(Join(p.trail, d.words), d.resume)
           all == Join(p.keys, z)
           c   == SeedBuffer(e.buf, Join(d.words, d.resume))
           o   == Retyped(e, by, r)
<1>1. /\ Good(o) /\ o.offer = NoOffer /\ o.wire = d.rest
      /\ o.buf = Repointed(c, p, r)
      /\ Len(all) <= Len(e.screen) =>
           o.screen = Join(Join(Keep(e.screen, Len(e.screen) - Len(all)), r.word), z)
      /\ o.done.right = EndsAt(e.screen, Len(e.screen), all)
      /\ o.done.strayed = (p.strayed \/ d.away)
      /\ o.slips = {} => /\ e.slips = {} /\ ~p.strayed /\ ~d.away
                         /\ ~Mistaken(z, c, p, r)
  BY RetypedFields
<1>2. ASSUME e.slips = {}, ~p.strayed, ~d.away, Told(e)
      PROVE  /\ d.rest = <<>>
             /\ Len(all) <= Len(e.screen) /\ EndsAt(e.screen, Len(e.screen), all)
             /\ ~Mistaken(z, c, p, r)
                  => Described(Repointed(c, p, r),
                       Join(Join(Keep(e.screen, Len(e.screen) - Len(all)), r.word), z))
  <2>1. PICK S : Scene(e, S) /\ Behind(e, S[0])
    BY <1>2 DEF Told, Sight
  <2>2. Drained(by, e, S, n, d)
    BY <1>2, <2>1 DEF Drained, Good
  <2>3. QED
    BY <1>2, <2>1, <2>2, RetypedTracks
<1> HIDE DEF all, z, c, o, d, p
<1>3. ASSUME Told(e), e.slips = {} PROVE o.done.right \/ o.done.strayed
  BY <1>1, <1>2, <1>3
<1>4. ASSUME Told(e), o.slips = {} PROVE Sight(o)
  <2>1. /\ o.wire = <<>> /\ Described(o.buf, o.screen)
    BY <1>1, <1>2, <1>4
  <2>2. o.screen \in Seq(Char)
    BY <1>1 DEF Good, Cores
  <2>3. Behind(o, o.screen)
    BY <1>1, <2>1 DEF Behind, OfferedAt
  <2>4. QED
    BY <2>1, <2>2, <2>3, SceneEnd
<1>5. QED
  BY <1>1, <1>3, <1>4 DEF Lands, Told, o

LEMMA SeedOrphans ==
  ASSUME NEW b \in Buffer, b.prevWord # <<>> \/ b.boundaryRun = <<>>,
         NEW x \in Seq(Letter)
  PROVE  LET c == SeedBuffer(b, x) IN c.prevWord # <<>> \/ c.boundaryRun = <<>>
<1>0. x \in Seq(Char) /\ Len(x) \in Nat
  BY TextTypes
<1>1. PICK f : Feeds(f, b, x, Len(x)) /\ SeedBuffer(b, x) = f[Len(x)]
  BY <1>0, SeedFunction
<1> DEFINE n == Len(x)
           T == {i \in 0..n : f[i].prevWord # <<>> \/ f[i].boundaryRun = <<>>}
<1>2. /\ f \in [0..n -> Buffer] /\ f[0] = b
      /\ \A i \in 1..n : f[i] = FeedChar(f[i - 1], x[i])
      /\ \A i \in 1..n : x[i] \in Letter
  BY <1>1 DEF Feeds
<1>3. n \in Nat
  BY <1>0
<1> HIDE DEF n
<1>4. 0 \in T
  BY <1>2, <1>3
<1>5. ASSUME NEW i \in 1..n, i - 1 \in T PROVE i \in T
  <2> DEFINE g == f[i - 1]
  <2>1. /\ i - 1 \in 0..n /\ i \in 0..n
        /\ g.prevWord # <<>> \/ g.boundaryRun = <<>>
    BY <1>3, <1>5
  <2>2. g \in Buffer /\ x[i] \in Letter /\ f[i] = FeedWord(g, x[i])
    BY <1>2, <2>1 DEF FeedChar
  <2> HIDE DEF g
  <2>3. f[i].prevWord # <<>> \/ f[i].boundaryRun = <<>>
    BY <2>1, <2>2 DEF FeedWord, Buffer
  <2>4. QED
    BY <2>1, <2>3
<1> HIDE DEF T
<1>6. \A i \in 0..n : i \in T
  BY <1>3, <1>4, <1>5, StepByStep
<1>7. n \in 0..n
  BY <1>3
<1>8. QED
  BY <1>1, <1>6, <1>7 DEF T, n

LEMMA AbortedSound ==
  ASSUME NEW e, Good(e), Pending(e), Vouched(e.offer, e.buf),
         NEW n, NEW d, n \in 0..Len(e.wire), Absorbed(d, e.wire, n), d.suspicious
  PROVE  LET o == Aborted(e, d)
         IN  /\ Good(o) /\ o.offer = NoOffer
             /\ Told(e) => Told(o)
             /\ o.done = e.done /\ o.slips = e.slips
<1> DEFINE o == Aborted(e, d)
           p == e.offer
           b == e.buf
           c == SeedBuffer(b, d.words)
           f == Cleared(e)
<1>1. /\ p \in Offer /\ p # NoOffer /\ Shaped(p) /\ b \in Buffer /\ e \in Cores
      /\ d.words \in Seq(Letter) /\ d.words \in Seq(Char) /\ d.rest \in Seq(Press)
  BY TextTypes DEF Good, Cores, Pending, Offer, NoOffer, Absorbed
<1>2. c \in Buffer /\ Poison(c) \in Buffer
  BY <1>1, SeedType, PoisonFields DEF Holds
<1>3. Good(f) /\ f.offer = NoOffer /\ Kept(e, f) /\ f.buf = b
  BY <1>1, ClearedFields
<1>4. o = [f EXCEPT !.buf = Poison(c), !.wire = d.rest]
  BY <1>3 DEF Aborted, Good, Cores
<1> HIDE DEF f, c, o
<1>5. /\ o \in Cores /\ o.offer = NoOffer /\ o.armed = f.armed /\ o.outs = f.outs
      /\ o.buf = Poison(c) /\ o.wire = d.rest /\ o.screen = e.screen
      /\ o.done = e.done /\ o.slips = e.slips
  BY <1>1, <1>2, <1>3, <1>4 DEF Good, Cores, Kept
<1>6. Good(o)
  BY <1>3, <1>5 DEF Good, Shaped, Fronted
<1>7. ASSUME Told(e), e.slips = {} PROVE Sight(o)
  <2>1. PICK S : Scene(e, S) /\ Behind(e, S[0])
    BY <1>7 DEF Told, Sight
  <2>2. Len(e.wire) \in Nat
    BY <1>1 DEF Cores
  <2>3. S[0] \in Seq(Char)
    BY <2>1, <2>2 DEF Scene
  <2>4. b.prevWord # <<>> \/ b.boundaryRun = <<>>
    <3>1. CASE p.grace = "none"
      BY <1>1, <3>1, SegmentReaches DEF Vouched
    <3>2. CASE p.grace # "none"
      BY <1>1, <2>1, <3>2 DEF Behind, OfferedAt, Blank, Holds
    <3>3. QED
      BY <3>1, <3>2
  <2>5. c.prevWord # <<>> \/ c.boundaryRun = <<>>
    BY <1>1, <2>4, SeedOrphans DEF c
  <2>6. /\ c.prevWord # <<>> => c.boundaryRun # <<>>
        /\ c.prevLead # NoKey => c.prevWord # <<>>
    BY <1>1, <2>1, <2>3, SeedDescribed DEF c, Behind, Described
  <2>7. \A t : Described(Poison(c), t)
    BY <1>2, <2>5, <2>6, PoisonFields DEF Described, Holds
  <2>8. PICK T : Scene(o, T) /\ T[0] = S[n + 1]
    <3>1. n + 1 \in 0..Len(e.wire) /\ n + 2 = (n + 1) + 1
      BY <2>2 DEF Absorbed
    <3>2. o.wire = RestOf(e.wire, n + 1)
      BY <1>5, <3>1 DEF Absorbed, RestOf
    <3> DEFINE m == n + 1
    <3>3. m \in 0..Len(e.wire) /\ o.wire = RestOf(e.wire, m)
      BY <3>1, <3>2
    <3> HIDE DEF m
    <3>4. \E T : Scene(o, T) /\ T[0] = S[m]
      BY <1>1, <1>5, <2>1, <3>3, SceneFrom
    <3>5. QED
      BY <3>4 DEF m
  <2>9. Behind(o, T[0])
    BY <1>5, <2>7 DEF Behind, OfferedAt
  <2>10. QED
    BY <2>8, <2>9 DEF Sight
<1>8. QED
  BY <1>5, <1>6, <1>7 DEF Told, o

LEMMA ClearedSound ==
  ASSUME NEW e, Good(e), Pending(e)
  PROVE  /\ Good(Cleared(e)) /\ Cleared(e).offer = NoOffer
         /\ Told(e) => Told(Cleared(e))
         /\ Cleared(e).done = e.done /\ Cleared(e).slips = e.slips
<1> DEFINE f == Cleared(e)
<1>1. Good(f) /\ f.offer = NoOffer /\ f.buf = e.buf /\ Kept(e, f)
  BY ClearedFields DEF Good
<1> HIDE DEF f
<1>2. ASSUME Sight(e) PROVE Sight(f)
  <2>1. PICK S : Scene(e, S) /\ Behind(e, S[0])
    BY <1>2 DEF Sight
  <2>2. Scene(f, S)
    BY <1>1, <2>1 DEF Scene, Kept
  <2>3. Behind(f, S[0])
    BY <1>1, <2>1 DEF Behind, OfferedAt
  <2>4. QED
    BY <2>2, <2>3 DEF Sight
<1>3. QED
  BY <1>1, <1>2 DEF Told, Kept, f

LEMMA AcceptedSound ==
  ASSUME NEW e, Good(e), Absorbable(e.wire), e.done = Nothing, NEW g,
         NEW by \in {"key", "pointer"}, NEW o \in Accepted(e, g, by)
  PROVE  Lands(e, o) /\ (o = e \/ o.offer = NoOffer)
<1>1. CASE o = e
  BY <1>1 DEF Lands, Nothing
<1>2. CASE Pending(e) /\ o = Cleared(e)
  BY <1>2, ClearedSound DEF Lands, Nothing
<1>3. CASE Pending(e) /\ Vouched(e.offer, e.buf) /\ o # e /\ o # Cleared(e)
  <2>1. PICK n : Stops(by, e.wire, n) /\ Absorbed(Absorb(by, e.wire), e.wire, n)
    BY AbsorbFields DEF Good, Cores
  <2>2. n \in 0..Len(e.wire)
    BY <2>1 DEF Stops
  <2>3. CASE Absorb(by, e.wire).suspicious
    <3> DEFINE d == Absorb(by, e.wire)
    <3>1. o = Aborted(e, d)
      BY <1>3, <2>3 DEF Accepted
    <3> HIDE DEF d
    <3>2. Absorbed(d, e.wire, n) /\ d.suspicious
      BY <2>1, <2>3 DEF d
    <3>3. /\ Good(o) /\ o.offer = NoOffer
          /\ Told(e) => Told(o)
          /\ o.done = e.done /\ o.slips = e.slips
      BY <1>3, <2>2, <3>1, <3>2, AbortedSound
    <3>4. QED
      BY <3>3 DEF Lands, Nothing
  <2>4. CASE ~Absorb(by, e.wire).suspicious
    <3> DEFINE d == Absorb(by, e.wire)
               R == {Retyped(e, by, r) : r \in Replacement(e.offer)}
    <3>0. o \in {v \in R : Len(v.screen) <= MaxText}
      BY <1>3, <2>4, Zenon DEF Accepted
    <3>1. PICK r \in Replacement(e.offer) : o = Retyped(e, by, r)
      BY <3>0, Zenon
    <3> DEFINE q == Retyped(e, by, r)
    <3>2. Lands(e, q) /\ q.offer = NoOffer
      BY <1>3, <2>1, <2>4, RetypedSound
    <3> HIDE DEF q
    <3>3. o = q
      BY <3>1 DEF q
    <3>4. QED
      BY <3>2, <3>3, Zenon
  <2>5. QED
    BY <2>3, <2>4
<1>4. QED
  BY <1>1, <1>2, <1>3 DEF Accepted

-----------------------------------------------------------------------------
(* The engine thread, press by press. *)

\* The world as the engine finds it when it takes the first press.
HeadOff(e) == [e EXCEPT !.wire = Tail(@)]

LEMMA HeadTaken ==
  ASSUME NEW e, Good(e), e.wire # <<>>, NEW f, f = HeadOff(e)
  PROVE  /\ Good(f) /\ f.buf = e.buf /\ f.offer = e.offer /\ f.screen = e.screen
         /\ f.done = e.done /\ f.slips = e.slips
         /\ Head(e.wire) \in Press
         /\ Sight(e) => \E S, T : /\ S \in Seq(Char) /\ Behind(e, S)
                                  /\ T[0] \in Seq(Char)
                                  /\ Effect(Head(e.wire), S, T[0]) /\ Scene(f, T)
<1>1. e \in Cores /\ e.wire \in Seq(Press) /\ Len(e.wire) \in Nat
  BY DEF Good, Cores
<1>2. /\ Head(e.wire) \in Press /\ Tail(e.wire) \in Seq(Press)
      /\ Tail(e.wire) = SubSeq(e.wire, 2, Len(e.wire))
  BY <1>1, HeadTailProperties, TailIsSubSeq
<1>3. Head(e.wire) = e.wire[1] /\ 1 \in 0..Len(e.wire) /\ 1 \in 1..Len(e.wire)
      /\ 0 \in 0..Len(e.wire)
  <2>1. Len(e.wire) # 0
    BY <1>1, EmptySeq
  <2>2. QED
    BY <1>1, <2>1
<1>4. /\ f \in Cores /\ f.buf = e.buf /\ f.offer = e.offer /\ f.armed = e.armed
      /\ f.outs = e.outs /\ f.screen = e.screen /\ f.done = e.done
      /\ f.slips = e.slips /\ f.wire = Tail(e.wire)
  BY <1>1, <1>2 DEF Cores, HeadOff
<1>5. Good(f)
  BY <1>4 DEF Good, Fronted
<1>6. ASSUME Sight(e)
      PROVE  \E S, T : /\ S \in Seq(Char) /\ Behind(e, S)
                       /\ T[0] \in Seq(Char)
                       /\ Effect(Head(e.wire), S, T[0]) /\ Scene(f, T)
  <2>1. PICK S : Scene(e, S) /\ Behind(e, S[0])
    BY <1>6 DEF Sight
  <2>2. S[0] \in Seq(Char) /\ S[1] \in Seq(Char) /\ Effect(e.wire[1], S[1 - 1], S[1])
    BY <1>3, <2>1 DEF Scene
  <2>3. f.wire = SubSeq(e.wire, 1 + 1, Len(e.wire))
    BY <1>2, <1>4
  <2>4. PICK T : Scene(f, T) /\ T[0] = S[1]
    <3>1. PICK m : m = 1
      OBVIOUS
    <3>2. m \in 0..Len(e.wire) /\ f.wire = RestOf(e.wire, m)
      BY <1>3, <2>3, <3>1 DEF RestOf
    <3>3. \E T : Scene(f, T) /\ T[0] = S[m]
      BY <1>1, <1>4, <2>1, <3>2, SceneFrom
    <3>4. QED
      BY <3>1, <3>3
  <2>5. Effect(Head(e.wire), S[0], T[0])
    BY <1>3, <2>2, <2>4
  <2>6. QED
    BY <2>1, <2>2, <2>4, <2>5
<1>7. QED
  BY <1>2, <1>4, <1>5, <1>6

\* Showing the highlight of a live offer.
LEMMA HighlightSound ==
  ASSUME NEW e, Good(e), Pending(e), NEW f,
         f = [e EXCEPT !.armed = TRUE,
                       !.outs = Append(@, [kind |-> "highlight",
                                           generation |-> e.offer.generation])]
  PROVE  Good(f) /\ f.buf = e.buf /\ f.offer = e.offer /\ Kept(e, f)
<1> DEFINE h == [kind |-> "highlight", generation |-> e.offer.generation]
<1>1. e.offer \in Offer /\ e.offer # NoOffer /\ e.outs \in Seq(Event) /\ e \in Cores
  BY DEF Good, Cores, Pending
<1>2. h \in Event
  BY <1>1, OfferIsSome DEF Event
<1>3. /\ Append(e.outs, h) \in Seq(Event) /\ Append(e.outs, h) # <<>>
      /\ Append(e.outs, h)[Len(Append(e.outs, h))] = h
  BY <1>1, <1>2, LastAdded
<1>4. f = [e EXCEPT !.armed = TRUE, !.outs = Append(e.outs, h)]
  BY <1>1 DEF Cores
<1>5. /\ f \in Cores /\ f.offer = e.offer /\ f.armed = TRUE
      /\ f.outs = Append(e.outs, h)
      /\ f.buf = e.buf /\ f.wire = e.wire /\ f.screen = e.screen
      /\ f.done = e.done /\ f.slips = e.slips
  BY <1>1, <1>3, <1>4 DEF Cores
<1>6. h.kind = "highlight" /\ h.generation = e.offer.generation
  OBVIOUS
<1> HIDE DEF h
<1>7. Fronted(f)
  BY <1>1, <1>3, <1>5, <1>6 DEF Fronted, Announced
<1>8. QED
  BY <1>5, <1>7 DEF Good, Kept

\* Where nothing but the slot or the buffer changes, the texts are the same.
LEMMA ScenesKept ==
  ASSUME NEW e, NEW f, Kept(e, f), NEW S
  PROVE  Scene(e, S) => Scene(f, S)
BY DEF Kept, Scene

LEMMA ClaimedSound ==
  ASSUME NEW e, Good(e), e.wire # <<>>, e.done = Nothing,
         NEW f, f = HeadOff(e), NEW k \in {Accept, Move}, Head(e.wire).key = k,
         k = Accept => Absorbable(f.wire), NEW o \in Claimed(f, k)
  PROVE  Lands(e, o)
<1>1. /\ Good(f) /\ f.buf = e.buf /\ f.offer = e.offer
      /\ f.done = e.done /\ f.slips = e.slips
  BY HeadTaken
<1>2. ASSUME Sight(e) PROVE Sight(f)
  <2>1. PICK S, T : /\ S \in Seq(Char) /\ Behind(e, S) /\ T[0] \in Seq(Char)
                    /\ Effect(Head(e.wire), S, T[0]) /\ Scene(f, T)
    BY <1>2, HeadTaken
  <2>2. T[0] = S
    BY <2>1 DEF Effect
  <2>3. Behind(f, T[0])
    BY <1>1, <2>1, <2>2 DEF Behind
  <2>4. QED
    BY <2>1, <2>3 DEF Sight
<1>3. Told(e) => Told(f)
  BY <1>1, <1>2 DEF Told
<1>4. CASE o = f
  BY <1>1, <1>3, <1>4 DEF Lands, Nothing
<1>5. CASE Pending(f) /\ k = Accept
  <2>1. o \in Accepted(f, f.offer.generation, "key")
    BY <1>5 DEF Claimed
  <2>2. Lands(f, o)
    BY <1>1, <1>5, <2>1, AcceptedSound
  <2>3. QED
    BY <1>1, <1>3, <2>2 DEF Lands
<1>6. CASE Pending(f) /\ k # Accept /\ o # f
  <2>1. o = [f EXCEPT !.armed = TRUE,
                      !.outs = Append(@, [kind |-> "highlight",
                                          generation |-> f.offer.generation])]
    BY <1>6 DEF Claimed
  <2>2. Good(o) /\ o.buf = f.buf /\ o.offer = f.offer /\ Kept(f, o)
    BY <1>1, <1>6, <2>1, HighlightSound
  <2>3. ASSUME Sight(f) PROVE Sight(o)
    <3>1. PICK S : Scene(f, S) /\ Behind(f, S[0])
      BY <2>3 DEF Sight
    <3>2. Scene(o, S) /\ Behind(o, S[0])
      BY <2>2, <3>1, ScenesKept DEF Behind
    <3>3. QED
      BY <3>2 DEF Sight
  <2>4. QED
    BY <1>1, <1>3, <2>2, <2>3 DEF Lands, Told, Kept, Nothing
<1>7. QED
  BY <1>4, <1>5, <1>6 DEF Claimed

LEMMA UnclaimedSound ==
  ASSUME NEW e, Good(e), e.wire # <<>>, e.done = Nothing, claims \in BOOLEAN,
         NEW f, f = HeadOff(e), NEW k, Head(e.wire).key = k,
         NEW away, Head(e.wire).away = away, NEW idle \in BOOLEAN,
         k = Accept => Absorbable(f.wire), NEW o \in Unclaimed(f, k, away, idle)
  PROVE  Lands(e, o)
<1>1. /\ Good(f) /\ f.buf = e.buf /\ f.offer = e.offer
      /\ f.done = e.done /\ f.slips = e.slips
      /\ k \in Char \cup Special /\ away \in BOOLEAN
  BY HeadTaken DEF Press
<1> DEFINE g == GraceTick(f, k)
           chord == IF k = Accept /\ Pending(g)
                    THEN Accepted(g, g.offer.generation, "key") ELSE {g}
<1>2. /\ Good(g) /\ g.buf = f.buf /\ Kept(f, g)
      /\ \/ g.offer = NoOffer
         \/ g.offer = f.offer /\ f.offer.grace = "none"
         \/ g.offer = f.offer /\ f.offer.grace = "open" /\ k = Click
  BY <1>1, GraceTickFields
<1>3. PICK q \in chord : o \in Handled(IdleCheck(q, idle), k, away)
  BY DEF Unclaimed
<1>4. CASE k = Accept /\ Pending(g)
  <2>1. q \in Accepted(g, g.offer.generation, "key")
    BY <1>3, <1>4
  <2> HIDE DEF g, chord
  <2>2. g.done = Nothing /\ g.slips = e.slips /\ g.wire = f.wire
    BY <1>1, <1>2 DEF Kept
  <2>3. Absorbable(g.wire)
    BY <1>4, <2>2
  <2>4. Lands(g, q)
    BY <1>2, <2>1, <2>2, <2>3, AcceptedSound
  <2>5. ASSUME Sight(e) PROVE Sight(g)
    <3>1. PICK S, T : /\ S \in Seq(Char) /\ Behind(e, S) /\ T[0] \in Seq(Char)
                      /\ Effect(Head(e.wire), S, T[0]) /\ Scene(f, T)
      BY <2>5, HeadTaken
    <3>2. T[0] = S
      BY <1>4, <3>1 DEF Effect
    <3>3. Behind(g, T[0])
      BY <1>1, <1>2, <3>1, <3>2 DEF Behind, OfferedAt
    <3>4. Scene(g, T)
      BY <1>2, <3>1, ScenesKept
    <3>5. QED
      BY <3>3, <3>4 DEF Sight
  <2> DEFINE i == IdleCheck(q, idle)
  <2>6. Good(i) /\ Kept(q, i)
    <3>1. Good(q)
      BY <2>4 DEF Lands
    <3>2. QED
      BY <3>1, IdleFields DEF Kept
  <2>7. o \in Handled(i, k, away) /\ k \in {Shortcut, Accept, Move}
    BY <1>3, <1>4
  <2> HIDE DEF i
  <2>8. Good(o) /\ Kept(i, o) /\ \A t \in Seq(Char) : Behind(o, t)
    BY <2>6, <2>7, HandledModifier
  <2>9. Kept(q, o)
    BY <2>6, <2>8 DEF Kept
  <2>10. ASSUME Sight(q) PROVE Sight(o)
    <3>1. PICK S : Scene(q, S) /\ Behind(q, S[0])
      BY <2>10 DEF Sight
    <3>2. Scene(o, S)
      BY <2>9, <3>1, ScenesKept
    <3>3. S[0] \in Seq(Char)
      <4>1. Len(o.wire) \in Nat
        BY <2>8 DEF Good, Cores
      <4>2. QED
        BY <3>2, <4>1 DEF Scene
    <3>4. QED
      BY <2>8, <3>2, <3>3 DEF Sight
  <2>11. QED
    BY <2>2, <2>4, <2>5, <2>8, <2>9, <2>10 DEF Lands, Told, Kept
<1>5. CASE ~(k = Accept /\ Pending(g))
  <2>1. q = g
    BY <1>3, <1>5
  <2> DEFINE i == IdleCheck(g, idle)
  <2>2. o \in Handled(i, k, away)
    BY <1>3, <2>1
  <2> HIDE DEF g, chord
  <2>3. \/ i = g
        \/ Good(i) /\ i.buf = Abandon(g.buf) /\ i.offer = NoOffer /\ Kept(g, i)
    BY <1>2, IdleFields
  <2> HIDE DEF i
  <2>4. Good(i) /\ Kept(f, i)
    BY <1>2, <2>3 DEF Kept
  <2>5. Calm(i, k)
    BY <1>2, <2>3 DEF Calm
  <2>6. Good(o) /\ Kept(i, o) /\ ReadsOn(i, k, away, o)
    BY <1>1, <2>2, <2>4, <2>5, HandledSound
  <2>7. Kept(f, o)
    BY <2>4, <2>6 DEF Kept
  <2>8. ASSUME Sight(e) PROVE Sight(o)
    <3>1. PICK S, T : /\ S \in Seq(Char) /\ Behind(e, S) /\ T[0] \in Seq(Char)
                      /\ Effect(Head(e.wire), S, T[0]) /\ Scene(f, T)
      BY <2>8, HeadTaken
    <3>2. Behind(g, S)
      BY <1>1, <1>2, <3>1 DEF Behind, OfferedAt
    <3>3. Behind(i, S)
      <4>1. CASE i = g
        BY <3>2, <4>1
      <4>2. CASE i.buf = Abandon(g.buf) /\ i.offer = NoOffer
        <5>1. g.buf \in Buffer
          BY <1>2 DEF Good, Cores
        <5>2. Described(Abandon(g.buf), S)
          BY <3>1, <5>1, DescribedEmptied
        <5>3. QED
          BY <4>2, <5>2 DEF Behind, OfferedAt
      <4>3. QED
        BY <2>3, <4>1, <4>2
    <3>4. Effect([key |-> k, away |-> away], S, T[0])
      BY <3>1 DEF Effect
    <3>5. Behind(o, T[0])
      BY <2>6, <3>1, <3>3, <3>4 DEF ReadsOn
    <3>6. Scene(o, T)
      BY <2>7, <3>1, ScenesKept
    <3>7. QED
      BY <3>5, <3>6 DEF Sight
  <2>9. QED
    BY <1>1, <2>6, <2>7, <2>8 DEF Lands, Told, Kept, Nothing
<1>6. QED
  BY <1>4, <1>5

-----------------------------------------------------------------------------
(***************************************************************************)
(* The inductive invariant: the slot, the claim and the last event under   *)
(* way agree, and short of a known slip the buffer and the offer describe  *)
(* the text at the first press the engine has not read, from which every   *)
(* press under way leads to the text on the screen.                        *)
(***************************************************************************)
Landed == slips = {} => done.right \/ done.strayed

Inv ==
  /\ Good(Core) /\ Told(Core)
  /\ claims \in BOOLEAN /\ tip \in 0..MaxOffers
  /\ cmds \in Seq(Command) /\ done \in Result /\ Landed

LEMMA CoreFields ==
  /\ Core.buf = buf /\ Core.offer = offer /\ Core.armed = armed
  /\ Core.outs = outs /\ Core.made = made /\ Core.wire = wire
  /\ Core.screen = screen /\ Core.done = Nothing /\ Core.slips = slips
BY DEF Core

LEMMA CoreTypes ==
  ASSUME Inv
  PROVE  /\ buf \in Buffer /\ offer \in Offer \cup {NoOffer} /\ armed \in BOOLEAN
         /\ outs \in Seq(Event) /\ made \in 0..MaxOffers /\ wire \in Seq(Press)
         /\ screen \in Seq(Char) /\ slips \in SUBSET {"strayed", "mistaken"}
         /\ Nothing \in Result
<1>1. Core \in Cores
  BY DEF Inv, Good
<1>2. QED
  BY <1>1 DEF Core, Cores

\* What a step leaves is good when its parts are.
LEMMA CoreGood ==
  ASSUME buf' \in Buffer, offer' \in Offer \cup {NoOffer}, armed' \in BOOLEAN,
         outs' \in Seq(Event), made' \in 0..MaxOffers, wire' \in Seq(Press),
         screen' \in Seq(Char), slips' \in SUBSET {"strayed", "mistaken"},
         Shaped(offer'), armed' => offer' # NoOffer,
         outs' = <<>> /\ tip' # 0 => offer' # NoOffer /\ offer'.generation = tip',
         Announced(outs', offer')
  PROVE  Good(Core)'
<1>1. Nothing \in Result
  BY DEF Nothing, Result
<1>2. (Core \in Cores)'
  BY <1>1 DEF Core, Cores
<1>3. Shaped(Core.offer)'
  BY DEF Core
<1>4. Fronted(Core)'
  BY DEF Core, Fronted
<1>5. QED
  BY <1>2, <1>3, <1>4 DEF Good

LEMMA CoreTold ==
  ASSUME NEW S, S \in [0..Len(wire') -> Seq(Char)], S[Len(wire')] = screen',
         \A i \in 1..Len(wire') : Effect(wire'[i], S[i - 1], S[i]),
         Described(buf', S[0]), OfferedAt(offer', buf', S[0])
  PROVE  Told(Core)'
<1>1. Scene(Core, S)'
  BY DEF Core, Scene
<1>2. Behind(Core, S[0])'
  BY DEF Core, Behind
<1>3. QED
  BY <1>1, <1>2 DEF Told, Sight

\* What the engine's step leaves.
LEMMA Settled ==
  ASSUME Inv, NEW o, Lands(Core, o), Become(o), tip' = tip, claims' = claims,
         cmds' \in Seq(Command)
  PROVE  Inv' /\ (slips = {} => done'.right \/ done'.strayed)
<1>1. /\ buf' = o.buf /\ offer' = o.offer /\ armed' = o.armed
      /\ outs' = o.outs /\ made' = o.made
      /\ wire' = o.wire /\ screen' = o.screen /\ done' = o.done /\ slips' = o.slips
  BY DEF Become
<1>2. /\ Good(o)
      /\ o.slips = {} => slips = {}
  BY CoreFields DEF Lands
<1>3. Told(Core) /\ Core.slips = slips /\ tip \in 0..MaxOffers
  BY CoreFields DEF Inv
<1>4. Told(o) /\ (slips = {} => o.done.right \/ o.done.strayed)
  BY <1>3 DEF Lands
<1>5. Good(Core)'
  BY <1>1, <1>2, CoreGood DEF Good, Cores, Fronted
<1>6. Told(Core)'
  <2>1. CASE slips' = {}
    <3>1. PICK S : Scene(o, S) /\ Behind(o, S[0])
      BY <1>1, <1>4, <2>1 DEF Told, Sight
    <3>2. QED
      BY <1>1, <3>1, CoreTold DEF Scene, Behind
  <2>2. CASE slips' # {}
    BY <2>2 DEF Told, Core
  <2>3. QED
    BY <2>1, <2>2
<1>7. done' \in Result
  BY <1>1, <1>2 DEF Good, Cores
<1>8. slips' = {} => slips = {}
  BY <1>1, CoreFields DEF Lands
<1>9. QED
  BY <1>1, <1>3, <1>4, <1>5, <1>6, <1>7, <1>8 DEF Inv, Landed

\* A step of the user or the clock that leaves the history alone.
LEMMA Undisturbed ==
  ASSUME Inv, Good(Core)', Told(Core)', UNCHANGED <<done, slips, claims>>,
         tip' \in 0..MaxOffers, cmds' \in Seq(Command)
  PROVE  Inv'
BY DEF Inv, Landed

LEMMA TextPresses ==
  ASSUME NEW s, NEW t
  PROVE  /\ \A k \in Char : Effect([key |-> k, away |-> FALSE], s, Append(s, k))
         /\ t = RubOut(s) => Effect([key |-> Backspace, away |-> FALSE], s, t)
         /\ (\E n \in 0..Len(s) : t = Keep(s, n))
               => Effect([key |-> HeldBackspace, away |-> FALSE], s, t)
<1>1. \A k \in Char : k \notin {Backspace, HeldBackspace, Accept, Move, Click}
  BY SpecialKeys DEF Special
<1>2. Backspace \notin Char /\ HeldBackspace \notin Char
  BY SpecialKeys DEF Special
<1>3. /\ Backspace \notin {HeldBackspace, Click, Accept, Move}
      /\ HeldBackspace \notin {Click, Accept, Move}
  BY SpecialKeys
<1>4. ASSUME NEW k \in Char
      PROVE  Effect([key |-> k, away |-> FALSE], s, Append(s, k))
  <2> DEFINE p == [key |-> k, away |-> FALSE]
             u == Append(s, k)
  <2>1. p.key = k /\ u = Append(s, p.key)
    OBVIOUS
  <2> HIDE DEF p, u
  <2>2. QED
    BY <1>1, <2>1 DEF Effect, p, u
<1>5. ASSUME t = RubOut(s) PROVE Effect([key |-> Backspace, away |-> FALSE], s, t)
  <2> DEFINE p == [key |-> Backspace, away |-> FALSE]
  <2>1. p.key = Backspace
    OBVIOUS
  <2> HIDE DEF p
  <2>2. QED
    BY <1>2, <1>3, <1>5, <2>1 DEF Effect, p
<1>6. ASSUME \E n \in 0..Len(s) : t = Keep(s, n)
      PROVE  Effect([key |-> HeldBackspace, away |-> FALSE], s, t)
  <2> DEFINE p == [key |-> HeldBackspace, away |-> FALSE]
  <2>1. p.key = HeldBackspace
    OBVIOUS
  <2> HIDE DEF p
  <2>2. QED
    BY <1>2, <1>3, <1>6, <2>1 DEF Effect, p
<1>7. QED
  BY <1>4, <1>5, <1>6

\* A press: one text more.
LEMMA Pressed ==
  ASSUME Inv, NEW k \in Char \cup Special, NEW away \in BOOLEAN, ToWire(k, away),
         screen' \in Seq(Char), Effect([key |-> k, away |-> away], screen, screen'),
         UNCHANGED others, tip' \in {0, tip}, cmds' \in Seq(Command)
  PROVE  Inv'
<1> DEFINE p == [key |-> k, away |-> away]
           n == Len(wire)
<1>1. /\ buf' = buf /\ offer' = offer /\ armed' = armed /\ made' = made
      /\ claims' = claims /\ done' = done /\ slips' = slips /\ outs' = outs
  BY DEF others, engine
<1>2. /\ buf \in Buffer /\ offer \in Offer \cup {NoOffer} /\ armed \in BOOLEAN
      /\ outs \in Seq(Event) /\ made \in 0..MaxOffers /\ wire \in Seq(Press)
      /\ screen \in Seq(Char) /\ slips \in SUBSET {"strayed", "mistaken"}
  BY CoreTypes
<1>3. p \in Press
  BY DEF Press
<1>4. wire' = Append(wire, p)
  BY DEF ToWire
<1> HIDE DEF p
<1>5. /\ wire' \in Seq(Press) /\ n \in Nat /\ Len(wire') = n + 1
      /\ \A i \in 1..n : wire'[i] = wire[i]
      /\ wire'[n + 1] = p
  BY <1>2, <1>3, <1>4, AppendProperties
<1>6. Shaped(offer) /\ Fronted(Core)
  BY CoreFields DEF Inv, Good
<1>7. Good(Core)'
  BY <1>1, <1>2, <1>5, <1>6, CoreFields, CoreGood DEF Fronted
<1>8. Told(Core)'
  <2>1. CASE slips = {}
    <3>1. PICK S : Scene(Core, S) /\ Behind(Core, S[0])
      BY <2>1, CoreFields DEF Inv, Told, Sight
    <3>2. /\ S \in [0..n -> Seq(Char)] /\ S[n] = screen
          /\ \A i \in 1..n : Effect(wire[i], S[i - 1], S[i])
          /\ Described(buf, S[0]) /\ OfferedAt(offer, buf, S[0])
      BY <3>1, CoreFields DEF Scene, Behind
    <3> DEFINE T == [i \in 0..n + 1 |-> IF i = n + 1 THEN screen' ELSE S[i]]
    <3> HIDE DEF n
    <3>3. T \in [0..n + 1 -> Seq(Char)]
      <4>1. ASSUME NEW i \in 0..n + 1, i # n + 1 PROVE S[i] \in Seq(Char)
        <5>1. i \in 0..n
          BY <1>5, <4>1
        <5>2. QED
          BY <3>2, <5>1
      <4>2. QED
        BY <4>1
    <3>4. T[n + 1] = screen' /\ T[0] = S[0] /\ \A i \in 0..n : T[i] = S[i]
      BY <1>5
    <3> HIDE DEF T
    <3>5. ASSUME NEW i \in 1..n + 1 PROVE Effect(wire'[i], T[i - 1], T[i])
      <4>1. CASE i = n + 1
        <5>1. T[i - 1] = screen /\ T[i] = screen' /\ wire'[i] = p
          BY <1>5, <3>2, <3>4, <4>1
        <5>2. QED
          BY <5>1 DEF p
      <4>2. CASE i # n + 1
        <5>1. i \in 1..n /\ i \in 0..n /\ i - 1 \in 0..n
          BY <1>5, <4>2
        <5>2. T[i - 1] = S[i - 1] /\ T[i] = S[i] /\ wire'[i] = wire[i]
          BY <1>5, <3>4, <5>1
        <5>3. Effect(wire[i], S[i - 1], S[i])
          BY <3>2, <5>1
        <5>4. QED
          BY <5>2, <5>3
      <4>3. QED
        BY <4>1, <4>2
    <3>6. Described(buf', T[0]) /\ OfferedAt(offer', buf', T[0])
      BY <1>1, <3>2, <3>4
    <3>7. T \in [0..Len(wire') -> Seq(Char)] /\ T[Len(wire')] = screen'
      BY <1>5, <3>3, <3>4 DEF n
    <3>8. \A i \in 1..Len(wire') : Effect(wire'[i], T[i - 1], T[i])
      BY <1>5, <3>5 DEF n
    <3>9. QED
      BY <3>6, <3>7, <3>8, CoreTold
  <2>2. CASE slips # {}
    BY <1>1, <2>2 DEF Told, Core
  <2>3. QED
    BY <2>1, <2>2
<1>9. tip' \in 0..MaxOffers
  BY SuggestionsAssumption DEF Inv
<1>10. QED
  BY <1>1, <1>7, <1>8, <1>9, Undisturbed

LEMMA TypeSound ==
  ASSUME Inv, NEW k \in Char, Type(k)
  PROVE  Inv'
<1>1. screen \in Seq(Char) /\ cmds \in Seq(Command)
  BY CoreTypes DEF Inv
<1>2. ToWire(k, FALSE) /\ screen' = Append(screen, k) /\ UNCHANGED others
      /\ tip' = tip /\ cmds' = cmds
  BY DEF Type
<1>3. screen' \in Seq(Char)
  BY <1>1, <1>2, AppendProperties
<1>4. Effect([key |-> k, away |-> FALSE], screen, screen')
  BY <1>2, TextPresses
<1>5. QED
  BY <1>1, <1>2, <1>3, <1>4, Pressed

LEMMA EraseSound ==
  ASSUME Inv, Erase
  PROVE  Inv'
<1>1. screen \in Seq(Char) /\ cmds \in Seq(Command) /\ Len(screen) \in Nat
  BY CoreTypes DEF Inv
<1>2. UNCHANGED others /\ tip' = tip /\ cmds' = cmds
  BY DEF Erase
<1>3. CASE ToWire(Backspace, FALSE)
           /\ screen' = IF screen = <<>> THEN <<>> ELSE Front(screen)
  <2>1. screen' = RubOut(screen)
    BY <1>3 DEF RubOut, Keep, Front
  <2>2. screen' \in Seq(Char)
    <3>1. CASE screen = <<>>
      BY <1>3, <3>1
    <3>2. CASE screen # <<>>
      <4>1. Len(screen) # 0
        BY <1>1, <3>2, EmptySeq
      <4> DEFINE n == Len(screen) - 1
      <4>2. n \in 0..Len(screen)
        BY <1>1, <4>1
      <4>3. screen' = Keep(screen, n)
        BY <2>1, <3>2 DEF RubOut
      <4> HIDE DEF n
      <4>4. QED
        BY <1>1, <4>2, <4>3, KeepFields
    <3>3. QED
      BY <3>1, <3>2
  <2>3. Effect([key |-> Backspace, away |-> FALSE], screen, screen')
    BY <2>1, TextPresses
  <2>4. QED
    BY <1>1, <1>2, <1>3, <2>2, <2>3, Pressed DEF Special
<1>4. CASE ToWire(HeldBackspace, FALSE)
           /\ \E n \in 0..Len(screen) : screen' = SubSeq(screen, 1, n)
  <2>1. PICK n \in 0..Len(screen) : screen' = Keep(screen, n)
    BY <1>4 DEF Keep
  <2>2. screen' \in Seq(Char)
    BY <1>1, <2>1, KeepFields
  <2>3. Effect([key |-> HeldBackspace, away |-> FALSE], screen, screen')
    BY <2>1, TextPresses
  <2>4. QED
    BY <1>1, <1>2, <1>4, <2>2, <2>3, Pressed DEF Special
<1>5. QED
  BY <1>3, <1>4 DEF Erase

\* Presses that are no text, with the text they may lead to.
LEMMA OtherPresses ==
  ASSUME NEW s, NEW t
  PROVE  /\ \A k \in {Shortcut, Nav} : Effect([key |-> k, away |-> FALSE], s, t)
         /\ Effect([key |-> Click, away |-> TRUE], s, t)
         /\ \A k \in {Click, Accept, Move} : Effect([key |-> k, away |-> FALSE], s, s)
<1>1. /\ {Shortcut, Nav, Click, Accept, Move} \cap Char = {}
      /\ \A k \in {Shortcut, Nav, Click, Accept, Move} :
           k # Backspace /\ k # HeldBackspace
      /\ \A k \in {Shortcut, Nav} : k # Click /\ k # Accept /\ k # Move
      /\ Click # Accept /\ Click # Move
  BY SpecialKeys DEF Special
<1>2. ASSUME NEW k \in {Shortcut, Nav}
      PROVE  Effect([key |-> k, away |-> FALSE], s, t)
  <2> DEFINE p == [key |-> k, away |-> FALSE]
  <2>1. p.key = k
    OBVIOUS
  <2> HIDE DEF p
  <2>2. QED
    BY <1>1, <2>1 DEF Effect, p
<1>3. Effect([key |-> Click, away |-> TRUE], s, t)
  <2> DEFINE p == [key |-> Click, away |-> TRUE]
  <2>1. p.key = Click /\ p.away = TRUE
    OBVIOUS
  <2> HIDE DEF p
  <2>2. QED
    BY <1>1, <2>1 DEF Effect, p
<1>4. ASSUME NEW k \in {Click, Accept, Move}
      PROVE  Effect([key |-> k, away |-> FALSE], s, s)
  <2> DEFINE p == [key |-> k, away |-> FALSE]
  <2>1. p.key = k
    OBVIOUS
  <2> HIDE DEF p
  <2>2. QED
    BY <1>1, <2>1 DEF Effect, p
<1>5. QED
  BY <1>2, <1>3, <1>4

LEMMA WanderSound ==
  ASSUME Inv, Wander
  PROVE  Inv'
<1>1. screen \in Seq(Char) /\ cmds \in Seq(Command) /\ Texts \subseteq Seq(Char)
  BY CoreTypes, SuggestionsAssumption DEF Inv
<1>2. UNCHANGED others /\ tip' = tip /\ cmds' = cmds /\ screen' \in Seq(Char)
  BY <1>1 DEF Wander
<1>3. Shortcut \in Special /\ Nav \in Special /\ Click \in Special
  BY DEF Special
<1>4. CASE ToWire(Shortcut, FALSE)
  BY <1>1, <1>2, <1>3, <1>4, OtherPresses, Pressed
<1>5. CASE ToWire(Nav, FALSE)
  BY <1>1, <1>2, <1>3, <1>5, OtherPresses, Pressed
<1>6. CASE ToWire(Click, TRUE)
  BY <1>1, <1>2, <1>3, <1>6, OtherPresses, Pressed
<1>7. QED
  BY <1>4, <1>5, <1>6 DEF Wander

LEMMA PressAcceptSound ==
  ASSUME Inv, PressAccept
  PROVE  Inv'
<1>1. screen \in Seq(Char) /\ cmds \in Seq(Command) /\ Accept \in Special
  BY CoreTypes DEF Inv, Special
<1>2. /\ UNCHANGED others /\ tip' = tip /\ cmds' = cmds /\ screen' = screen
      /\ ToWire(Accept, FALSE)
  BY DEF PressAccept
<1>3. QED
  BY <1>1, <1>2, OtherPresses, Pressed

LEMMA PressArrowSound ==
  ASSUME Inv, PressArrow
  PROVE  Inv'
<1>1. screen \in Seq(Char) /\ cmds \in Seq(Command) /\ Move \in Special
  BY CoreTypes DEF Inv, Special
<1>2. /\ UNCHANGED others /\ tip' = tip /\ cmds' = cmds /\ screen' = screen
      /\ ToWire(Move, FALSE)
  BY DEF PressArrow
<1>3. QED
  BY <1>1, <1>2, OtherPresses, Pressed

LEMMA Answered ==
  ASSUME Inv, tip # 0, NEW kind \in {"accept", "timeout"}
  PROVE  Append(cmds, [kind |-> kind, generation |-> tip]) \in Seq(Command)
<1>1. tip \in 1..MaxOffers /\ cmds \in Seq(Command)
  BY SuggestionsAssumption DEF Inv
<1>2. [kind |-> kind, generation |-> tip] \in Command
  BY <1>1 DEF Command
<1>3. QED
  BY <1>1, <1>2, AppendProperties

LEMMA ClickTooltipSound ==
  ASSUME Inv, ClickTooltip
  PROVE  Inv'
<1>1. screen \in Seq(Char) /\ Click \in Special
  BY CoreTypes DEF Special
<1>2. /\ UNCHANGED others /\ tip' = 0 /\ screen' = screen
      /\ ToWire(Click, FALSE) /\ tip # 0
      /\ cmds' = Append(cmds, [kind |-> "accept", generation |-> tip])
  BY DEF ClickTooltip
<1>3. cmds' \in Seq(Command)
  BY <1>2, Answered
<1>4. QED
  BY <1>1, <1>2, <1>3, OtherPresses, Pressed

\* Nothing the texts depend on has changed.
LEMMA SameTexts ==
  ASSUME Inv, UNCHANGED <<buf, wire, screen, slips>>,
         \A t : OfferedAt(offer, buf, t) => OfferedAt(offer', buf, t)
  PROVE  Told(Core)'
<1>1. CASE slips = {}
  <2>1. PICK S : Scene(Core, S) /\ Behind(Core, S[0])
    BY <1>1, CoreFields DEF Inv, Told, Sight
  <2>2. /\ S \in [0..Len(wire) -> Seq(Char)] /\ S[Len(wire)] = screen
        /\ \A i \in 1..Len(wire) : Effect(wire[i], S[i - 1], S[i])
        /\ Described(buf, S[0]) /\ OfferedAt(offer, buf, S[0])
    BY <2>1, CoreFields DEF Scene, Behind
  <2>3. OfferedAt(offer', buf, S[0])
    BY <2>2
  <2>4. QED
    BY <2>2, <2>3, CoreTold
<1>2. CASE slips # {}
  BY <1>2 DEF Told, Core
<1>3. QED
  BY <1>1, <1>2

\* The slot's clocks.
LEMMA OfferAged ==
  ASSUME Inv, NEW p \in Offer, offer # NoOffer, offer' = p,
         p.generation = offer.generation, p.keys = offer.keys, p.trail = offer.trail,
         p.strayed = offer.strayed, (p.grace = "none") <=> (offer.grace = "none"),
         UNCHANGED <<buf, armed, made, claims, done, slips, outs, tip, cmds, wire, screen>>
  PROVE  Inv'
<1>1. p # NoOffer
  BY OfferIsSome
<1>2. Shaped(offer) /\ Fronted(Core)
  BY CoreFields DEF Inv, Good
<1>3. Shaped(offer')
  BY <1>2 DEF Shaped
<1>4. Good(Core)'
  BY <1>1, <1>2, <1>3, CoreFields, CoreTypes, CoreGood DEF Fronted, Announced
<1>5. Told(Core)'
  BY <1>1, SameTexts DEF OfferedAt
<1>6. QED
  BY <1>4, <1>5, Undisturbed DEF Inv

LEMMA ExpireSound ==
  ASSUME Inv, Expire
  PROVE  Inv'
<1> DEFINE p == [offer EXCEPT !.expired = TRUE]
<1>1. offer \in Offer /\ offer # NoOffer
  BY CoreTypes DEF Expire
<1>2. /\ p \in Offer
      /\ p.generation = offer.generation /\ p.keys = offer.keys
      /\ p.trail = offer.trail /\ p.strayed = offer.strayed /\ p.grace = offer.grace
  BY <1>1 DEF Offer
<1>3. /\ offer' = p
      /\ UNCHANGED <<buf, armed, made, claims, done, slips, outs, tip, cmds, wire, screen>>
  BY DEF Expire
<1> HIDE DEF p
<1>4. QED
  BY <1>1, <1>2, <1>3, OfferAged

LEMMA GraceLapsesSound ==
  ASSUME Inv, GraceLapses
  PROVE  Inv'
<1> DEFINE p == [offer EXCEPT !.grace = "lapsed"]
<1>1. offer \in Offer /\ offer # NoOffer /\ offer.grace = "open"
  BY CoreTypes DEF GraceLapses
<1>2. /\ p \in Offer
      /\ p.generation = offer.generation /\ p.keys = offer.keys
      /\ p.trail = offer.trail /\ p.strayed = offer.strayed /\ p.grace = "lapsed"
  BY <1>1 DEF Offer
<1>3. /\ offer' = p
      /\ UNCHANGED <<buf, armed, made, claims, done, slips, outs, tip, cmds, wire, screen>>
  BY DEF GraceLapses
<1> HIDE DEF p
<1>4. QED
  BY <1>1, <1>2, <1>3, OfferAged

LEMMA TailLast ==
  ASSUME NEW S, NEW s \in Seq(S), s # <<>>
  PROVE  /\ Tail(s) \in Seq(S) /\ Head(s) \in S
         /\ Tail(s) # <<>> => Tail(s)[Len(Tail(s))] = s[Len(s)]
         /\ Tail(s) = <<>> => s[Len(s)] = Head(s)
<1>1. /\ Tail(s) \in Seq(S) /\ Head(s) \in S /\ Head(s) = s[1]
      /\ Len(s) \in Nat \ {0} /\ Len(Tail(s)) = Len(s) - 1
      /\ \A i \in 1..Len(Tail(s)) : Tail(s)[i] = s[i + 1]
  BY HeadTailProperties, EmptySeq
<1> DEFINE t == Tail(s)
           n == Len(s)
<1>2. /\ t \in Seq(S) /\ n \in Nat \ {0} /\ Len(t) = n - 1
      /\ \A i \in 1..Len(t) : t[i] = s[i + 1]
      /\ Head(s) = s[1]
  BY <1>1
<1> HIDE DEF t, n
<1>3. t # <<>> => t[Len(t)] = s[n]
  <2>1. SUFFICES ASSUME t # <<>> PROVE t[Len(t)] = s[n]
    OBVIOUS
  <2>2. Len(t) # 0
    BY <1>2, <2>1, EmptySeq
  <2>3. n - 1 \in 1..Len(t) /\ n - 1 + 1 = n
    BY <1>2, <2>2
  <2>4. QED
    BY <1>2, <2>3
<1>4. t = <<>> => n = 1
  <2>1. t = <<>> => Len(t) = 0
    BY <1>2, EmptySeq
  <2>2. QED
    BY <1>2, <2>1
<1>5. QED
  BY <1>1, <1>2, <1>3, <1>4 DEF t, n

LEMMA TakeEventSound ==
  ASSUME Inv, TakeEvent
  PROVE  Inv'
<1> DEFINE h == Head(outs)
<1>1. outs \in Seq(Event) /\ outs # <<>> /\ offer \in Offer \cup {NoOffer}
  BY CoreTypes DEF TakeEvent
<1>2. /\ outs' \in Seq(Event) /\ h \in Event
      /\ outs' # <<>> => outs'[Len(outs')] = outs[Len(outs)]
      /\ outs' = <<>> => outs[Len(outs)] = h
  BY <1>1, TailLast DEF TakeEvent
<1>3. /\ UNCHANGED <<buf, offer, armed, made, claims, done, slips, cmds, wire, screen>>
      /\ tip' \in IF h.kind = "hide" THEN {0} ELSE {0, h.generation}
  BY DEF TakeEvent, engine
<1> HIDE DEF h
<1>4. h.generation \in 0..MaxOffers /\ 0 \in 0..MaxOffers
  BY <1>2, SuggestionsAssumption DEF Event
<1>5. tip' \in 0..MaxOffers
  BY <1>3, <1>4
<1>6. Shaped(offer) /\ (armed => offer # NoOffer) /\ Announced(outs, offer)
  BY CoreFields DEF Inv, Good, Fronted
<1>7. Announced(outs', offer)
  BY <1>1, <1>2, <1>6 DEF Announced
<1>8. outs' = <<>> /\ tip' # 0 => offer # NoOffer /\ offer.generation = tip'
  BY <1>1, <1>2, <1>3, <1>6 DEF Announced
<1>9. Good(Core)'
  BY <1>2, <1>3, <1>6, <1>7, <1>8, CoreTypes, CoreGood
<1>10. Told(Core)'
  BY <1>3, SameTexts
<1>11. QED
  BY <1>3, <1>5, <1>9, <1>10, Undisturbed DEF Inv

LEMMA TimesOutSound ==
  ASSUME Inv, TimesOut
  PROVE  Inv'
<1>1. /\ UNCHANGED <<buf, offer, armed, made, claims, done, slips, outs, wire, screen>>
      /\ tip' = 0 /\ tip # 0
      /\ cmds' = Append(cmds, [kind |-> "timeout", generation |-> tip])
  BY DEF TimesOut, engine
<1>2. cmds' \in Seq(Command) /\ tip' \in 0..MaxOffers
  BY <1>1, Answered, SuggestionsAssumption
<1>3. Shaped(offer) /\ Fronted(Core)
  BY CoreFields DEF Inv, Good
<1>4. Good(Core)'
  BY <1>1, <1>3, CoreFields, CoreTypes, CoreGood DEF Fronted
<1>5. Told(Core)'
  BY <1>1, SameTexts
<1>6. QED
  BY <1>1, <1>2, <1>4, <1>5, Undisturbed

-----------------------------------------------------------------------------
(* The engine's steps.  The last conclusion is ReplacedInPlace. *)
Sound == Inv' /\ (slips = {} => done'.right \/ done'.strayed)

LEMMA HandleKeySound ==
  ASSUME Inv, NEW idle \in BOOLEAN, HandleKey(idle)
  PROVE  Sound
<1> DEFINE f == HeadOff(Core)
           h == Head(wire)
<1>1. /\ Good(Core) /\ Core.wire = wire /\ Core.done = Nothing /\ wire # <<>>
      /\ claims \in BOOLEAN /\ wire \in Seq(Press) /\ cmds \in Seq(Command)
  BY CoreFields, CoreTypes DEF Inv, HandleKey
<1>2. PICK o : /\ h.key = Accept => Absorbable(f.wire)
               /\ o \in IF claims /\ h.key \in {Accept, Move}
                        THEN Claimed(f, h.key) ELSE Unclaimed(f, h.key, h.away, idle)
               /\ Become(o) /\ UNCHANGED <<cmds, claims, tip>>
  BY DEF HandleKey, HeadOff, outside
<1> HIDE DEF f, h
<1>3. f = HeadOff(Core) /\ h = Head(Core.wire)
  BY <1>1 DEF f, h
<1>4. Lands(Core, o)
  <2>1. CASE claims /\ h.key \in {Accept, Move}
    BY <1>1, <1>2, <1>3, <2>1, ClaimedSound
  <2>2. CASE ~(claims /\ h.key \in {Accept, Move})
    BY <1>1, <1>2, <1>3, <2>2, UnclaimedSound
  <2>3. QED
    BY <2>1, <2>2
<1>5. QED
  BY <1>1, <1>2, <1>4, Settled DEF Sound

LEMMA DismissLands ==
  ASSUME NEW e, Good(e), e.done = Nothing, NEW o \in {e, Dismiss(e)}
  PROVE  Lands(e, o)
<1>1. Nothing.right = TRUE
  BY DEF Nothing
<1>2. CASE o = e
  BY <1>1, <1>2 DEF Lands
<1>3. CASE Pending(e) /\ o = Cleared(e)
  BY <1>1, <1>3, ClearedSound DEF Lands
<1>4. QED
  BY <1>2, <1>3 DEF Dismiss

LEMMA HandleCommandSound ==
  ASSUME Inv, HandleCommand
  PROVE  Sound
<1>1. /\ Good(Core) /\ Core.wire = wire /\ Core.done = Nothing
      /\ cmds # <<>> /\ Absorbable(Core.wire) /\ cmds \in Seq(Command)
  BY CoreFields DEF Inv, HandleCommand
<1>2. PICK o : /\ o \in IF Head(cmds).kind = "accept"
                        THEN Accepted(Core, Head(cmds).generation, "pointer")
                        ELSE {DismissOnly(Core, Head(cmds).generation)}
               /\ Become(o) /\ cmds' = Tail(cmds) /\ UNCHANGED <<claims, tip>>
  BY DEF HandleCommand, outside
<1>3. Lands(Core, o)
  <2>1. CASE o \in Accepted(Core, Head(cmds).generation, "pointer")
    BY <1>1, <2>1, AcceptedSound
  <2>2. CASE o = DismissOnly(Core, Head(cmds).generation)
    <3>1. o \in {Core, Dismiss(Core)}
      BY <2>2 DEF DismissOnly, Dismiss
    <3>2. QED
      BY <1>1, <3>1, DismissLands
  <2>3. QED
    BY <1>2, <2>1, <2>2
<1>4. cmds' \in Seq(Command)
  BY <1>1, <1>2, TailLast
<1>5. QED
  BY <1>2, <1>3, <1>4, Settled DEF Sound

LEMMA EndsOfferSound ==
  ASSUME Inv, EndsOffer
  PROVE  Sound
<1>1. Good(Core) /\ Core.done = Nothing /\ cmds \in Seq(Command)
  BY CoreFields DEF Inv
<1>2. Become(Dismiss(Core)) /\ UNCHANGED <<cmds, claims, tip>>
  BY DEF EndsOffer, outside
<1>3. Lands(Core, Dismiss(Core))
  BY <1>1, DismissLands
<1>4. QED
  BY <1>1, <1>2, <1>3, Settled DEF Sound

LEMMA SettingsReloadedSound ==
  ASSUME Inv, SettingsReloaded
  PROVE  Sound
<1> DEFINE f == Fed(Core, FreshBuffer)
           o == Dismiss(f)
<1>1. Good(Core) /\ Core.done = Nothing /\ cmds \in Seq(Command) /\ buf \in Buffer
  BY CoreFields, CoreTypes DEF Inv
<1>2. Become(o) /\ UNCHANGED <<cmds, claims, tip>>
  BY DEF SettingsReloaded, outside
<1> HIDE DEF o, f
<1>3. FreshBuffer \in Buffer
  BY FreshFields DEF Holds
<1>4. Good(f) /\ f.buf = FreshBuffer /\ Kept(Core, f)
  BY <1>1, <1>3, FedGood DEF f
<1>5. Good(o) /\ o.offer = NoOffer /\ o.buf = FreshBuffer /\ Kept(f, o)
  BY <1>4, DismissGood DEF o
<1>6. Kept(Core, o)
  BY <1>4, <1>5 DEF Kept
<1>7. ASSUME Sight(Core) PROVE Sight(o)
  <2>1. PICK S : Scene(Core, S)
    BY <1>7 DEF Sight
  <2>2. Scene(o, S)
    BY <1>6, <2>1, ScenesKept
  <2>3. S[0] \in Seq(Char)
    <3>1. Len(wire) \in Nat /\ S \in [0..Len(wire) -> Seq(Char)]
      BY <2>1, CoreFields, CoreTypes DEF Scene
    <3>2. 0 \in 0..Len(wire)
      BY <3>1
    <3>3. QED
      BY <3>1, <3>2
  <2>4. Behind(o, S[0])
    BY <1>1, <1>5, <2>3, DescribedEmptied DEF Behind, OfferedAt
  <2>5. QED
    BY <2>2, <2>4 DEF Sight
<1>8. Lands(Core, o)
  <2>1. o.done = Nothing /\ o.slips = Core.slips /\ Nothing.right = TRUE
    BY <1>1, <1>6 DEF Kept, Nothing
  <2>2. Told(Core) => Told(o)
    BY <1>7, <2>1 DEF Told
  <2>3. QED
    BY <1>5, <2>1, <2>2 DEF Lands
<1>9. QED
  BY <1>1, <1>2, <1>8, Settled DEF Sound

-----------------------------------------------------------------------------
(* The specification. *)

LEMMA InitSound == Init => Inv
<1> SUFFICES ASSUME Init PROVE Inv
  OBVIOUS
<1>1. screen \in Seq(Char) /\ Nothing \in Result
  BY SuggestionsAssumption DEF Init, Nothing, Result
<1>2. /\ buf = FreshBuffer /\ offer = NoOffer /\ armed = FALSE /\ made = 0
      /\ outs = <<>> /\ cmds = <<>> /\ wire = <<>> /\ tip = 0
      /\ claims \in BOOLEAN /\ done = Nothing /\ slips = {}
  BY DEF Init
<1>3. FreshBuffer \in Buffer /\ Described(FreshBuffer, screen)
  <2>1. Blank(FreshBuffer) /\ FreshBuffer.prevLead = NoKey
    BY FreshFields DEF Blank
  <2>2. QED
    BY <1>1, <2>1, DescribedBlank DEF Blank, Holds
<1>4. /\ <<>> \in Seq(Event) /\ <<>> \in Seq(Press) /\ <<>> \in Seq(Command)
      /\ 0 \in 0..MaxOffers /\ Len(<<>>) = 0
  BY EmptySeqs, SuggestionsAssumption
<1>5. Core \in Cores
  BY <1>1, <1>2, <1>3, <1>4 DEF Core, Cores
<1>6. Good(Core)
  BY <1>2, <1>5, CoreFields DEF Good, Shaped, Fronted, Announced
<1>7. Sight(Core)
  <2> DEFINE S == [i \in 0..0 |-> screen]
  <2>1. S \in [0..0 -> Seq(Char)] /\ S[0] = screen
    BY <1>1
  <2> HIDE DEF S
  <2>2. Scene(Core, S)
    BY <1>2, <1>4, <2>1, CoreFields DEF Scene
  <2>3. Behind(Core, S[0])
    BY <1>2, <1>3, <2>1, CoreFields DEF Behind, OfferedAt
  <2>4. QED
    BY <2>2, <2>3 DEF Sight
<1>8. Landed
  BY <1>2 DEF Landed, Nothing
<1>9. QED
  BY <1>1, <1>2, <1>4, <1>6, <1>7, <1>8 DEF Inv, Told

LEMMA StepSound ==
  ASSUME Inv, [Next]_vars
  PROVE  Inv' /\ (slips = {} => done'.right \/ done'.strayed \/ UNCHANGED done)
<1>1. CASE \E k \in Char : Type(k)
  <2>1. UNCHANGED done
    BY <1>1 DEF Type, others, engine
  <2>2. QED
    BY <1>1, <2>1, TypeSound
<1>2. CASE Erase
  BY <1>2, EraseSound DEF Erase, others, engine
<1>3. CASE Wander
  BY <1>3, WanderSound DEF Wander, others, engine
<1>4. CASE ClickTooltip
  BY <1>4, ClickTooltipSound DEF ClickTooltip, others, engine
<1>5. CASE PressAccept
  BY <1>5, PressAcceptSound DEF PressAccept, others, engine
<1>6. CASE PressArrow
  BY <1>6, PressArrowSound DEF PressArrow, others, engine
<1>7. CASE Expire
  BY <1>7, ExpireSound DEF Expire
<1>8. CASE GraceLapses
  BY <1>8, GraceLapsesSound DEF GraceLapses
<1>9. CASE \E idle \in BOOLEAN : HandleKey(idle)
  BY <1>9, HandleKeySound DEF Sound
<1>10. CASE HandleCommand
  BY <1>10, HandleCommandSound DEF Sound
<1>11. CASE SettingsReloaded
  BY <1>11, SettingsReloadedSound DEF Sound
<1>12. CASE EndsOffer
  BY <1>12, EndsOfferSound DEF Sound
<1>13. CASE TakeEvent
  BY <1>13, TakeEventSound DEF TakeEvent, engine
<1>14. CASE TimesOut
  BY <1>14, TimesOutSound DEF TimesOut, engine
<1>15. CASE UNCHANGED vars
  <2>1. UNCHANGED <<buf, offer, armed, made, claims, done, slips, outs, tip, cmds, wire, screen>>
    BY <1>15 DEF vars
  <2>2. Shaped(offer) /\ Fronted(Core)
    BY CoreFields DEF Inv, Good
  <2>3. Good(Core)'
    BY <2>1, <2>2, CoreFields, CoreTypes, CoreGood DEF Fronted
  <2>4. Told(Core)'
    BY <2>1, SameTexts
  <2>5. QED
    BY <2>1, <2>3, <2>4, Undisturbed DEF Inv
<1>16. QED
  BY <1>1, <1>2, <1>3, <1>4, <1>5, <1>6, <1>7, <1>8, <1>9, <1>10, <1>11,
     <1>12, <1>13, <1>14, <1>15 DEF Next

\* The engine is behind the text, at every moment of every run: however the
\* presses, the clicks, the deadlines, the commands and the tooltip's events
\* interleave, the invariant above holds.
THEOREM AlwaysBehind == Spec => []Inv
<1>1. Inv /\ [Next]_vars => Inv'
  BY StepSound
<1>2. QED
  BY InitSound, <1>1, PTL DEF Spec

\* The variables of the spelling offer keep their types: no generation beyond
\* the last one made out, no event, command or press of another kind.
THEOREM OfferTypes == Spec => []TypeOK
<1>1. Inv => TypeOK
  <2> SUFFICES ASSUME Inv PROVE TypeOK
    OBVIOUS
  <2>1. QED
    BY CoreTypes DEF Inv, TypeOK, Event, Press, Command, Result
<1>2. QED
  BY AlwaysBehind, <1>1, PTL

\* track_suggestion_trail(): whatever is typed and erased behind the offered
\* word, the trail keeps the separator that closed it and gains none that submits.
THEOREM TrailKeepsShape == Spec => []TrailShape
<1>1. Inv => TrailShape
  BY CoreFields DEF Inv, Good, Shaped, TrailShape
<1>2. QED
  BY AlwaysBehind, <1>1, PTL

\* KeyClaims and the tooltip: a key is kept back only for a pending offer, and
\* once its events have arrived the tooltip shows that offer or nothing.
THEOREM PendingInFront == Spec => []OfferInFront
<1>1. Inv => OfferInFront
  BY CoreFields DEF Inv, Good, Fronted, OfferInFront
<1>2. QED
  BY AlwaysBehind, <1>1, PTL

\* The engine's buffer, with every press read, is the text on the screen, or
\* will be from the next separator on -- behind any number of replacements.
THEOREM BufferIsScreen == Spec => []BufferFollows
<1>1. Inv => BufferFollows
  <2> SUFFICES ASSUME Inv, wire = <<>>, slips = {}
               PROVE  IF buf.poisoned
                      THEN \A s \in Separator :
                             Tracks(FeedBoundary(buf, s), Append(screen, s))
                      ELSE Tracks(buf, screen)
    BY DEF BufferFollows
  <2>1. PICK S : Scene(Core, S) /\ Behind(Core, S[0])
    BY CoreFields DEF Inv, Told, Sight
  <2>2. Described(buf, screen)
    <3>1. Len(wire) = 0
      OBVIOUS
    <3>2. QED
      BY <2>1, <3>1, CoreFields DEF Scene, Behind
  <2>3. buf \in Buffer /\ screen \in Seq(Char)
    BY CoreTypes
  <2>4. CASE buf.poisoned
    <3>1. ASSUME NEW s \in Separator
          PROVE  Tracks(FeedBoundary(buf, s), Append(screen, s))
      <4>1. /\ ~FeedBoundary(buf, s).poisoned
            /\ Described(FeedBoundary(buf, s), Append(screen, s))
        BY <2>2, <2>3, DescribedSeparator
      <4>2. QED
        BY <4>1 DEF Described
    <3>2. QED
      BY <2>4, <3>1
  <2>5. CASE ~buf.poisoned
    BY <2>2, <2>5 DEF Described
  <2>6. QED
    BY <2>4, <2>5
<1>2. QED
  BY AlwaysBehind, <1>1, PTL

\* accept_suggestion(): short of a known slip, what is erased and typed anew is
\* the offered word and its trail, and they end at the caret.
THEOREM RetypedInPlace == Spec => ReplacedInPlace
<1>1. Inv /\ [Next]_vars => [slips = {} => done'.right \/ done'.strayed]_vars
  BY StepSound DEF Inv, Landed
<1>2. QED
  BY AlwaysBehind, <1>1, PTL DEF Spec, ReplacedInPlace

LEMMA Shortened ==
  ASSUME NEW S, NEW s \in Seq(S), s # <<>>
  PROVE  Tail(s) # s /\ \A x \in S : Tail(s) # Append(s, x)
<1>1. Len(s) \in Nat /\ Len(s) > 0 /\ Len(Tail(s)) = Len(s) - 1
  BY HeadTailProperties, EmptySeq
<1>2. \A x \in S : Len(Append(s, x)) = Len(s) + 1
  BY AppendProperties
<1> DEFINE t == Tail(s)
           n == Len(s)
<1>3. n \in Nat /\ Len(t) = n - 1
  BY <1>1
<1> HIDE DEF t
<1>4. t # s
  <2>1. t = s => n = n - 1
    BY <1>3
  <2> HIDE DEF n
  <2>2. QED
    BY <1>3, <2>1
<1>5. ASSUME NEW x \in S PROVE t # Append(s, x)
  <2>1. t = Append(s, x) => n - 1 = n + 1
    BY <1>2, <1>3
  <2> HIDE DEF n
  <2>2. QED
    BY <1>3, <2>1
<1>6. QED
  BY <1>4, <1>5 DEF t

\* dismiss_suggestion_only(): the time-out of a tooltip that has gone leaves
\* the offer alone which has been made since.
THEOREM TimeoutLeavesOthers == Spec => TimeoutIsOwn
<1> DEFINE A == cmds # <<>> /\ Head(cmds).kind = "timeout" /\ cmds' = Tail(cmds)
                  /\ offer # NoOffer /\ Head(cmds).generation # offer.generation
                => offer' = offer
<1>1. Inv /\ [Next]_vars => [A]_vars
  <2> SUFFICES ASSUME Inv, Next, cmds # <<>>, Head(cmds).kind = "timeout",
                      cmds' = Tail(cmds), Head(cmds).generation # offer.generation
               PROVE  offer' = offer
    BY DEF vars
  <2>1. cmds \in Seq(Command)
    BY DEF Inv
  <2>2. cmds' # cmds /\ ~ClickTooltip /\ ~TimesOut
    <3>1. cmds' # cmds /\ \A c \in Command : cmds' # Append(cmds, c)
      BY <2>1, Shortened
    <3>2. ASSUME tip # 0
          PROVE  /\ [kind |-> "accept", generation |-> tip] \in Command
                 /\ [kind |-> "timeout", generation |-> tip] \in Command
      BY <3>2, SuggestionsAssumption DEF Inv, Command
    <3>3. ~ClickTooltip
      BY <3>1, <3>2 DEF ClickTooltip
    <3>4. ~TimesOut
      BY <3>1, <3>2 DEF TimesOut
    <3>5. QED
      BY <3>1, <3>3, <3>4
  <2>3. HandleCommand
    <3>1. \A k \in Char : ~Type(k)
      BY <2>2 DEF Type
    <3>2. ~Erase /\ ~Wander /\ ~PressAccept /\ ~PressArrow
      BY <2>2 DEF Erase, Wander, PressAccept, PressArrow
    <3>3. ~Expire /\ ~GraceLapses /\ ~TakeEvent
      BY <2>2 DEF Expire, GraceLapses, TakeEvent
    <3>4. ~SettingsReloaded /\ ~EndsOffer /\ \A idle \in BOOLEAN : ~HandleKey(idle)
      BY <2>2 DEF SettingsReloaded, EndsOffer, HandleKey
    <3>5. QED
      BY <2>2, <3>1, <3>2, <3>3, <3>4 DEF Next
  <2>4. Become(DismissOnly(Core, Head(cmds).generation))
    BY <2>3 DEF HandleCommand
  <2>5. DismissOnly(Core, Head(cmds).generation) = Core
    BY CoreFields DEF DismissOnly
  <2>6. QED
    BY <2>4, <2>5, CoreFields DEF Become
<1>2. QED
  BY AlwaysBehind, <1>1, PTL DEF Spec, TimeoutIsOwn
=============================================================================
