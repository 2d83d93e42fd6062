--------------------------- MODULE SegmenterProofs ---------------------------
(* Segments fit the model, make up the text and hold no line break, cuts are  *)
(* as far right as they can be, and segmentation ends, for every text,        *)
(* tokenizer and limit.                                                       *)
EXTENDS Segmenter, TLAPS

Finite == INSTANCE FiniteSetTheorems

-----------------------------------------------------------------------------
(* Facts about sequences and sets of numbers. *)

Elements(seq) == {seq[k] : k \in DOMAIN seq}

\* A sequence of whatever.
IsSeq(seq) == seq \in Seq(Elements(seq))

LEMMA EmptyIsSeq == IsSeq(<<>>) /\ Len(<<>>) = 0 /\ DOMAIN <<>> = {}
  BY DEF IsSeq, Elements

LEMMA SeqFacts ==
    ASSUME NEW seq, IsSeq(seq)
    PROVE  /\ Len(seq) \in Nat
           /\ DOMAIN seq = 1 .. Len(seq)
           /\ seq # <<>> <=> Len(seq) > 0
  BY DEF IsSeq

LEMMA AppendFacts ==
    ASSUME NEW seq, IsSeq(seq), NEW e
    PROVE  /\ IsSeq(Append(seq, e))
           /\ Len(Append(seq, e)) = Len(seq) + 1
           /\ Append(seq, e) # <<>>
           /\ \A k \in 1 .. Len(seq) : Append(seq, e)[k] = seq[k]
           /\ Append(seq, e)[Len(seq) + 1] = e
  <1> DEFINE S == Elements(seq) \cup {e}
             t == Append(seq, e)
  <1>1. seq \in Seq(Elements(seq)) /\ Elements(seq) \subseteq S
    BY DEF IsSeq
  <1>2. seq \in Seq(S)
    BY <1>1, SMT
  <1>3. /\ t \in Seq(S)
        /\ Len(t) = Len(seq) + 1
        /\ Len(seq) \in Nat
        /\ DOMAIN t = 1 .. Len(seq) + 1
        /\ \A k \in 1 .. Len(seq) : t[k] = seq[k]
        /\ t[Len(seq) + 1] = e
    BY <1>2
  <1>4. \A k \in 1 .. Len(t) : t[k] \in Elements(t)
    BY <1>3 DEF Elements
  <1>5. t \in Seq(Elements(t))
    BY <1>3, <1>4
  <1>6. t # <<>>
    BY <1>3
  <1>7. QED
    BY <1>3, <1>5, <1>6 DEF IsSeq

LEMMA SingletonFacts ==
    ASSUME NEW e
    PROVE  IsSeq(<<e>>) /\ Len(<<e>>) = 1 /\ <<e>>[1] = e /\ <<e>> # <<>>
  <1>1. <<e>> \in Seq({e}) /\ DOMAIN <<e>> = {1} /\ <<e>>[1] = e /\ Len(<<e>>) = 1
    OBVIOUS
  <1>2. Elements(<<e>>) = {e}
    BY <1>1 DEF Elements
  <1>3. QED
    BY <1>1, <1>2 DEF IsSeq

\* A function on 1 .. n is a sequence of length n.
LEMMA FunctionFacts ==
    ASSUME NEW n \in Nat, NEW f, DOMAIN f = 1 .. n, f = [k \in 1 .. n |-> f[k]]
    PROVE  IsSeq(f) /\ Len(f) = n
  <1> DEFINE S == Elements(f)
  <1>1. \A k \in 1 .. n : f[k] \in S
    BY DEF Elements
  <1> HIDE DEF S
  <1>2. f \in [1 .. n -> S]
    BY <1>1
  <1>3. f \in Seq(S) /\ Len(f) = n
    BY <1>2
  <1>4. QED
    BY <1>3 DEF IsSeq, S

\* A bounded set of numbers has a last element: the one with the fewest above it.
LEMMA MinimalSubset ==
    ASSUME NEW S, NEW T, T \subseteq Finite!FiniteSubsetsOf(S), T # {}
    PROVE  \E x \in T : \A y \in T : ~ (<<y, x>> \in Finite!StrictSubsetOrdering(S))
  <1>1. Finite!IsWellFoundedOn(Finite!StrictSubsetOrdering(S), Finite!FiniteSubsetsOf(S))
    BY Finite!FS_StrictSubsetOrderingWellFounded, Zenon
  <1>2. QED
    BY <1>1, Finite!WFMin, Zenon

LEMMA LastExists ==
    ASSUME NEW n \in Nat, NEW S, S \subseteq 0 .. n, S # {}
    PROVE  \E m \in S : \A k \in S : k <= m
  <1> DEFINE Above(k) == {j \in S : j > k}
             T == {Above(k) : k \in S}
  <1>1. \A k \in S : k \in Nat
    OBVIOUS
  <1>2. Finite!IsFiniteSet(S)
    <2>1. Finite!IsFiniteSet(0 .. n)
      BY Finite!FS_Interval
    <2>2. QED
      BY <2>1, Finite!FS_Subset
  <1>4. T \subseteq Finite!FiniteSubsetsOf(S)
    BY <1>2, Finite!FS_Subset DEF Finite!FiniteSubsetsOf
  <1>5. T # {}
    OBVIOUS
  <1> HIDE DEF T
  <1>6. PICK x \in T : \A y \in T : ~ (<<y, x>> \in Finite!StrictSubsetOrdering(S))
    BY <1>4, <1>5, MinimalSubset
  <1> USE DEF T
  <1>7. PICK m \in S : x = Above(m)
    BY <1>6
  <1>8. ASSUME NEW k \in S, k > m PROVE FALSE
    <2>1. Above(k) \in T
      OBVIOUS
    <2>2. Above(k) \subseteq Above(m) /\ Above(k) # Above(m)
      <3>1. \A j \in S : j > k => j > m
        BY <1>1, <1>8
      <3>2. k \in Above(m) /\ k \notin Above(k)
        BY <1>1, <1>8
      <3>3. QED
        BY <3>1, <3>2
    <2>3. <<Above(k), Above(m)>> \in Finite!StrictSubsetOrdering(S)
      BY <2>2 DEF Finite!StrictSubsetOrdering
    <2>4. QED
      BY <2>1, <2>3, <1>6, <1>7
  <1>9. QED
    BY <1>1, <1>8

-----------------------------------------------------------------------------
(* The text and its segments. *)

\* The content ends at i: behind its last scalar that is no blank.
ContentIs(i) ==
    /\ i = 0 \/ At(i - 1) \notin Blanks
    /\ \A j \in i .. Len(text) - 1 : At(j) \in Blanks

LEMMA ContentFacts ==
    ASSUME text \in Seq(STRING)
    PROVE  ContentEnd \in 0 .. Len(text) /\ ContentIs(ContentEnd)
  <1> DEFINE S == {0} \cup {i \in 1 .. Len(text) : text[i] \notin Blanks}
  <1>1. Len(text) \in Nat
    OBVIOUS
  <1>2. S \subseteq 0 .. Len(text) /\ S # {}
    BY <1>1
  <1> HIDE DEF S
  <1>3. PICK m \in S : \A k \in S : k <= m
    BY <1>1, <1>2, LastExists
  <1>4. m \in 0 .. Len(text)
    BY <1>2, <1>3
  <1>5. m = 0 \/ At(m - 1) \notin Blanks
    BY <1>3, <1>4 DEF S, At
  <1>6. ASSUME NEW j \in m .. Len(text) - 1 PROVE At(j) \in Blanks
    <2>1. j + 1 \in 1 .. Len(text) /\ ~ (j + 1 <= m)
      BY <1>1, <1>4
    <2>2. j + 1 \notin S
      BY <2>1, <1>3
    <2>3. QED
      BY <1>1, <2>1, <2>2 DEF S, At
  <1>7. \E i \in 0 .. Len(text) : ContentIs(i)
    BY <1>4, <1>5, <1>6 DEF ContentIs
  <1>8. ContentEnd = CHOOSE i \in 0 .. Len(text) : ContentIs(i)
    BY DEF ContentEnd, ContentIs
  <1>9. QED
    BY <1>7, <1>8, Zenon

LEMMA ContentEndNat == text \in Seq(STRING) => ContentEnd \in Nat
  BY ContentFacts

-----------------------------------------------------------------------------
(* No segment is longer than the model takes. *)

Fit(from, stop) == Pieces(<<from, stop>>) <= MaxPieces

\* What a search has found fits; a cut inside a word is always found.
FitInv ==
    /\ IsSeq(result)
    /\ EverySegmentFits
    /\ phase \in {"search", "prefix"} => \A b \in best : Fit(start, b.stop)
    /\ phase = "prefix" => best # {}

LEMMA NeededFacts ==
    /\ phase = "scan" => Needed = <<0, ContentEnd>>
    /\ phase = "unit" => Needed = <<units[unit].from, units[unit].stop>>
    /\ phase = "split" => Needed = <<start, units[unit].stop>>
    /\ phase = "search" => Needed = <<start, Tried.stop>>
    /\ phase = "first" => Needed = <<start, start + 1>>
    /\ phase = "prefix" => Needed = <<start, PrefixMiddle>>
  BY DEF Needed

LEMMA FoundFacts == best # {} => Found \in best
  BY DEF Found

\* push_segment adds one segment or refuses.
LEMMA PushFacts ==
    ASSUME NEW from, NEW stop, NEW next, NEW then, Push(from, stop, next, then)
    PROVE  \/ phase' = then /\ result' = Append(result, Unit(from, stop, next))
           \/ phase' = "tooMany" /\ result' = result
  BY DEF Push

LEMMA PushFits ==
    ASSUME IsSeq(result), EverySegmentFits, text' = text,
           NEW from, NEW stop, NEW next, NEW then,
           Push(from, stop, next, then), Fit(from, stop)
    PROVE  IsSeq(result') /\ EverySegmentFits'
  <1>1. CASE result' = result
    BY <1>1 DEF EverySegmentFits, Between, IsSeq
  <1>2. CASE result' = Append(result, Unit(from, stop, next))
    <2>1. /\ IsSeq(result')
          /\ \A k \in 1 .. Len(result) : result'[k] = result[k]
          /\ result'[Len(result) + 1] = Unit(from, stop, next)
          /\ Len(result') = Len(result) + 1
      BY <1>2, AppendFacts
    <2>2. /\ DOMAIN result' = 1 .. Len(result) + 1
          /\ DOMAIN result = 1 .. Len(result)
          /\ Len(result) \in Nat
      BY <2>1, SeqFacts
    <2>3. Count(Between(from, stop)) <= MaxPieces
      BY DEF Fit, Pieces
    <2>4. ASSUME NEW k \in DOMAIN result'
          PROVE  Count(Between(result'[k].from, result'[k].stop)) <= MaxPieces
      <3>1. CASE k \in DOMAIN result
        BY <2>1, <2>2, <3>1 DEF EverySegmentFits
      <3>2. CASE k = Len(result) + 1
        BY <2>1, <2>3, <3>2 DEF Unit
      <3>3. QED
        BY <2>2, <3>1, <3>2
    <2>5. QED
      BY <2>1, <2>4 DEF EverySegmentFits, Between
  <1>3. QED
    BY <1>1, <1>2, PushFacts

LEMMA FitInit == Init => FitInv
  BY EmptyIsSeq DEF Init, FitInv, EverySegmentFits

\* The steps that add no segment and do not search.
LEMMA OtherFits ==
    ASSUME FitInv,
           \/ Whole \/ Scan \/ Finish \/ RefuseText \/ Refuse \/ (Ended /\ UNCHANGED vars)
    PROVE  FitInv'
  <1>1. text' = text /\ result' = result
    BY DEF Whole, Scan, Finish, RefuseText, Refuse, vars, search
  <1>2. IsSeq(result') /\ EverySegmentFits'
    BY <1>1 DEF FitInv, EverySegmentFits, Between, IsSeq
  <1>3. CASE Ended /\ UNCHANGED vars
    BY <1>2, <1>3 DEF FitInv, vars, search, Fit, Pieces, Between
  <1>4. CASE ~(Ended /\ UNCHANGED vars)
    <2>1. phase' \notin {"search", "prefix"}
      BY <1>4 DEF Whole, Scan, Finish, RefuseText, Refuse, Ended
    <2>2. QED
      BY <1>2, <2>1 DEF FitInv
  <1>5. QED
    BY <1>3, <1>4

\* The steps of the searches find what fits.
LEMMA SearchFits ==
    ASSUME FitInv, Probe \/ NextPriority \/ FirstScalar \/ Bisect
    PROVE  FitInv'
  <1>1. text' = text /\ result' = result /\ start' = start
    BY DEF Probe, NextPriority, FirstScalar, Bisect
  <1>2. IsSeq(result') /\ EverySegmentFits'
    BY <1>1 DEF FitInv, EverySegmentFits, Between, IsSeq
  <1>3. \A i, j : Fit(i, j)' <=> Fit(i, j)
    BY <1>1 DEF Fit, Pieces, Between
  <1>4. CASE Probe
    <2>1. phase = "search" /\ phase' = "search"
      BY <1>4 DEF Probe
    <2>2. best' = best \/ (best' = {Tried} /\ Fits(Needed))
      BY <1>4 DEF Probe
    <2>3. Fits(Needed) => Fit(start, Tried.stop)
      BY <2>1, NeededFacts DEF Fits, Fit
    <2>4. \A b \in best' : Fit(start, b.stop)
      BY <2>1, <2>2, <2>3 DEF FitInv
    <2>5. QED
      BY <1>1, <1>2, <2>1, <2>4 DEF FitInv, Fit, Pieces, Between
  <1>5. CASE NextPriority
    <2>1. best' = {} /\ phase' # "prefix"
      BY <1>5 DEF NextPriority
    <2>2. QED
      BY <1>2, <2>1 DEF FitInv
  <1>6. CASE FirstScalar
    <2>1. CASE phase' = "unsplittable"
      BY <1>2, <2>1 DEF FitInv
    <2>2. CASE phase' = "prefix"
      <3>1. Fits(Needed) /\ best' = {InWord(start + 1)} /\ phase = "first"
        BY <1>6, <2>2 DEF FirstScalar
      <3>2. Fit(start, start + 1)
        BY <3>1, NeededFacts DEF Fits, Fit
      <3>3. \A b \in best' : b.stop = start + 1
        BY <3>1 DEF InWord
      <3>4. best' # {}
        BY <3>1
      <3>5. QED
        BY <1>1, <1>2, <3>2, <3>3, <3>4 DEF FitInv, Fit, Pieces, Between
    <2>3. QED
      BY <1>6, <2>1, <2>2 DEF FirstScalar
  <1>7. CASE Bisect
    <2>1. phase = "prefix" /\ phase' = "prefix"
      BY <1>7 DEF Bisect
    <2>2. best' = best \/ (best' = {InWord(PrefixMiddle)} /\ Fits(Needed))
      BY <1>7 DEF Bisect
    <2>3. Fits(Needed) => Fit(start, PrefixMiddle)
      BY <2>1, NeededFacts DEF Fits, Fit
    <2>4. InWord(PrefixMiddle).stop = PrefixMiddle
      BY DEF InWord
    <2>5. /\ \A b \in best' : Fit(start, b.stop)
          /\ best' # {}
      BY <2>1, <2>2, <2>3, <2>4 DEF FitInv
    <2>6. QED
      BY <1>1, <1>2, <2>1, <2>5 DEF FitInv, Fit, Pieces, Between
  <1>8. QED
    BY <1>4, <1>5, <1>6, <1>7

\* The steps that add a segment.
LEMMA CutFits ==
    ASSUME FitInv, EndScan \/ TakeUnit \/ TakeRest \/ CutAtBreak \/ CutInWord
    PROVE  FitInv'
  <1>1. text' = text /\ IsSeq(result) /\ EverySegmentFits
    BY DEF FitInv, EndScan, TakeUnit, TakeRest, CutAtBreak, CutInWord
  <1>2. CASE EndScan
    <2>1. phase' \in {"done", "unit"}
      BY <1>2 DEF EndScan
    <2>2. CASE result' = result
      BY <1>1, <2>1, <2>2 DEF FitInv, EverySegmentFits, Between, IsSeq
    <2>3. CASE result' # result
      <3>1. /\ phase = "scan"
            /\ Pieces(Needed) <= MaxPieces
            /\ result' = <<Unit(0, ContentEnd, Len(text))>>
        BY <1>2, <2>3 DEF EndScan
      <3>2. Fit(0, ContentEnd)
        BY <3>1, NeededFacts DEF Fit
      <3>3. IsSeq(result') /\ Len(result') = 1 /\ result'[1] = Unit(0, ContentEnd, Len(text))
        BY <3>1, SingletonFacts
      <3>4. \A k \in DOMAIN result' : k = 1
        BY <3>3, SeqFacts
      <3>5. EverySegmentFits'
        BY <1>1, <3>2, <3>3, <3>4 DEF EverySegmentFits, Fit, Pieces, Between, Unit
      <3>6. QED
        BY <2>1, <3>3, <3>5 DEF FitInv
    <2>4. QED
      BY <2>2, <2>3
  <1>3. CASE TakeUnit
    <2>1. CASE Fits(Needed) /\ Push(units[unit].from, units[unit].stop, units[unit].next, "unit")
      <3>1. Fit(units[unit].from, units[unit].stop)
        BY <1>3, <2>1, NeededFacts DEF TakeUnit, Fits, Fit
      <3>2. IsSeq(result') /\ EverySegmentFits' /\ phase' \in {"unit", "tooMany"}
        BY <1>1, <2>1, <3>1, PushFits, PushFacts
      <3>3. QED
        BY <3>2 DEF FitInv
    <2>2. CASE phase' = "split" /\ result' = result
      BY <1>1, <2>2 DEF FitInv, EverySegmentFits, Between, IsSeq
    <2>3. QED
      BY <1>3, <2>1, <2>2 DEF TakeUnit
  <1>4. CASE TakeRest
    <2>1. CASE Fits(Needed) /\ Push(start, units[unit].stop, units[unit].next, "unit")
      <3>1. Fit(start, units[unit].stop)
        BY <1>4, <2>1, NeededFacts DEF TakeRest, Fits, Fit
      <3>2. IsSeq(result') /\ EverySegmentFits' /\ phase' \in {"unit", "tooMany"}
        BY <1>1, <2>1, <3>1, PushFits, PushFacts
      <3>3. QED
        BY <3>2 DEF FitInv
    <2>2. CASE phase' = "search" /\ best' = {} /\ result' = result
      BY <1>1, <2>2 DEF FitInv, EverySegmentFits, Between, IsSeq
    <2>3. QED
      BY <1>4, <2>1, <2>2 DEF TakeRest
  <1>5. CASE CutAtBreak \/ CutInWord
    <2>1. Push(start, Found.stop, Found.next, "split")
      BY <1>5 DEF CutAtBreak, CutInWord
    <2>2. Found \in best /\ phase \in {"search", "prefix"}
      BY <1>5, FoundFacts DEF CutAtBreak, CutInWord, FitInv
    <2>3. Fit(start, Found.stop)
      BY <2>2 DEF FitInv
    <2>4. IsSeq(result') /\ EverySegmentFits' /\ phase' \in {"split", "tooMany"}
      BY <1>1, <2>1, <2>3, PushFits, PushFacts
    <2>5. QED
      BY <2>4 DEF FitInv
  <1>6. QED
    BY <1>2, <1>3, <1>4, <1>5

LEMMA FitNext == FitInv /\ [Next]_vars => FitInv'
  <1> SUFFICES ASSUME FitInv, [Next]_vars PROVE FitInv'
    OBVIOUS
  <1>1. CASE UNCHANGED vars
    BY <1>1 DEF FitInv, EverySegmentFits, Fit, Pieces, Between, IsSeq, vars, search
  <1>2. QED
    BY <1>1, OtherFits, SearchFits, CutFits DEF Next, Step

\* For every tokenizer, also one that finds fewer pieces in more text, and every
\* text and limit: no segment has more pieces than the model takes.
THEOREM SegmentsFit == Spec => []EverySegmentFits
  <1>1. FitInv => EverySegmentFits
    BY DEF FitInv
  <1>2. QED
    BY FitInit, FitNext, <1>1, PTL DEF Spec

-----------------------------------------------------------------------------
(* The segments are the text. *)

End(seq) == IF seq = <<>> THEN 0 ELSE seq[Len(seq)].next

Joined(seq) ==
    /\ seq # <<>> => seq[1].from = 0
    /\ \A k \in 2 .. Len(seq) : seq[k].from = seq[k - 1].next

\* Units and segments are contiguous, the scan begins its unit where the last one
\* ends, and so does the segmentation of a unit, or of its rest.
JoinInv ==
    /\ text \in Seq(STRING)
    /\ IsSeq(units) /\ Joined(units)
    /\ IsSeq(result) /\ Joined(result)
    /\ phase \in {"whole", "scan"} => result = <<>> /\ start = End(units)
    /\ phase \in {"unit", "split", "search", "first", "prefix"} =>
           /\ units # <<>> /\ End(units) = Len(text)
           /\ unit \in 1 .. Len(units) + 1
    /\ phase = "unit" =>
           /\ unit \in 1 .. Len(units) => End(result) = units[unit].from
           /\ unit = Len(units) + 1 => End(result) = Len(text) /\ result # <<>>
    /\ phase \in {"split", "search", "first", "prefix"} =>
           unit \in 1 .. Len(units) /\ End(result) = start
    /\ phase = "done" => result # <<>> /\ End(result) = Len(text)

LEMMA JoinAppend ==
    ASSUME NEW seq, IsSeq(seq), Joined(seq), NEW stop, NEW next
    PROVE  LET longer == Append(seq, Unit(End(seq), stop, next))
           IN  /\ IsSeq(longer) /\ Joined(longer)
               /\ longer # <<>> /\ End(longer) = next
  <1> DEFINE u == Unit(End(seq), stop, next)
             longer == Append(seq, u)
  <1>1. /\ IsSeq(longer)
        /\ Len(longer) = Len(seq) + 1
        /\ longer # <<>>
        /\ \A k \in 1 .. Len(seq) : longer[k] = seq[k]
        /\ longer[Len(seq) + 1] = u
    BY AppendFacts
  <1>2. Len(seq) \in Nat /\ (seq # <<>> <=> Len(seq) > 0)
    BY SeqFacts
  <1>3. u.from = End(seq) /\ u.next = next
    BY DEF Unit
  <1> HIDE DEF longer, u
  <1>4. longer[1].from = 0
    <2>1. CASE seq = <<>>
      BY <2>1, <1>1, <1>2, <1>3 DEF End
    <2>2. CASE seq # <<>>
      BY <2>2, <1>1, <1>2 DEF Joined
    <2>3. QED
      BY <2>1, <2>2
  <1>5. ASSUME NEW k \in 2 .. Len(longer) PROVE longer[k].from = longer[k - 1].next
    <2>1. CASE k = Len(seq) + 1
      <3>1. seq # <<>> /\ k - 1 = Len(seq) /\ k - 1 \in 1 .. Len(seq)
        BY <2>1, <1>2, <1>5
      <3>2. End(seq) = seq[k - 1].next
        BY <3>1 DEF End
      <3>3. QED
        BY <2>1, <3>1, <3>2, <1>1, <1>3
    <2>2. CASE k \in 2 .. Len(seq)
      <3>1. k \in 1 .. Len(seq) /\ k - 1 \in 1 .. Len(seq)
        BY <2>2, <1>2
      <3>2. QED
        BY <2>2, <3>1, <1>1 DEF Joined
    <2>3. QED
      BY <2>1, <2>2, <1>1, <1>2
  <1>6. Joined(longer)
    BY <1>4, <1>5 DEF Joined
  <1>7. End(longer) = next
    BY <1>1, <1>3 DEF End
  <1>8. QED
    BY <1>1, <1>6, <1>7 DEF longer, u

\* What the scan leaves: contiguous units up to the end of the text, or none and
\* a text that fits because it is blank.
LEMMA RemainderFacts ==
    ASSUME JoinInv, phase = "scan"
    PROVE  /\ IsSeq(Remainder) /\ Joined(Remainder)
           /\ Remainder # <<>> => End(Remainder) = Len(text)
           /\ Remainder = <<>> => Pieces(<<0, ContentEnd>>) = 0
  <1>1. IsSeq(units) /\ Joined(units) /\ start = End(units)
    BY DEF JoinInv
  <1>2. CASE start < ContentEnd
    <2>1. Remainder = Append(units, Unit(End(units), ContentEnd, Len(text)))
      BY <1>1, <1>2 DEF Remainder
    <2>2. QED
      BY <1>1, <2>1, JoinAppend
  <1>3. CASE ~ (start < ContentEnd) /\ units = <<>>
    <2>1. ContentEnd \in Nat /\ start = 0
      BY <1>1, <1>3, ContentEndNat DEF JoinInv, End
    <2>2. ContentEnd = 0
      BY <1>3, <2>1
    <2>3. SubSeq(text, 1, 0) = <<>>
      BY DEF JoinInv
    <2>4. Pieces(<<0, ContentEnd>>) = 0
      <3>1. Pieces(<<0, 0>>) = Count(Between(0, 0))
        BY DEF Pieces
      <3>2. Between(0, 0) = <<>>
        BY <2>3 DEF Between
      <3>3. Count(Between(0, 0)) = 0
        BY <3>2, SegmenterAssumption
      <3>4. QED
        BY <2>2, <3>1, <3>3
    <2>6. Remainder = <<>>
      BY <1>3, EmptyIsSeq DEF Remainder
    <2>7. QED
      BY <2>4, <2>6, EmptyIsSeq DEF Joined
  <1>4. CASE ~ (start < ContentEnd) /\ units # <<>>
    <2> DEFINE last == Unit(units[Len(units)].from, units[Len(units)].stop, Len(text))
    <2>1. /\ Len(units) \in Nat /\ Len(units) > 0
          /\ DOMAIN units = 1 .. Len(units)
      BY <1>1, <1>4, SeqFacts
    <2>2. last.from = units[Len(units)].from /\ last.next = Len(text)
      BY DEF Unit
    <2>3. Remainder = [k \in 1 .. Len(units) |-> IF k = Len(units) THEN last ELSE units[k]]
      BY <1>4, <2>1 DEF Remainder
    <2> HIDE DEF last
    <2>4. IsSeq(Remainder) /\ Len(Remainder) = Len(units)
      <3> DEFINE f == Remainder
      <3>1. DOMAIN f = 1 .. Len(units) /\ f = [k \in 1 .. Len(units) |-> f[k]]
        BY <2>3, Zenon
      <3> HIDE DEF f
      <3>2. IsSeq(f) /\ Len(f) = Len(units)
        BY <2>1, <3>1, FunctionFacts
      <3>3. QED
        BY <3>2 DEF f
    <2>5. Remainder # <<>>
      BY <2>1, <2>4, SeqFacts
    <2>6. \A k \in 1 .. Len(units) : Remainder[k].from = units[k].from
      BY <2>2, <2>3
    <2>7. \A k \in 1 .. Len(units) : k # Len(units) => Remainder[k] = units[k]
      BY <2>3
    <2>8. Remainder[Len(units)].next = Len(text)
      <3>1. Len(units) \in 1 .. Len(units)
        BY <2>1
      <3>2. Remainder[Len(units)] = last
        BY <2>3, <3>1, Zenon
      <3>3. QED
        BY <2>2, <3>2
    <2>9. ASSUME NEW k \in 2 .. Len(Remainder)
          PROVE  Remainder[k].from = Remainder[k - 1].next
      <3>1. k \in 1 .. Len(units) /\ k - 1 \in 1 .. Len(units) /\ k - 1 # Len(units)
        BY <2>1, <2>4
      <3>2. units[k].from = units[k - 1].next
        BY <1>1, <2>1, <2>4 DEF Joined
      <3>3. QED
        BY <3>1, <3>2, <2>6, <2>7
    <2>10. Remainder[1].from = 0
      BY <1>1, <1>4, <2>1, <2>6 DEF Joined
    <2>11. Joined(Remainder)
      BY <2>9, <2>10 DEF Joined
    <2>12. End(Remainder) = Len(text)
      BY <2>4, <2>5, <2>8 DEF End
    <2>13. QED
      BY <2>4, <2>5, <2>11, <2>12
  <1>5. QED
    BY <1>2, <1>3, <1>4

LEMMA JoinInit == Init => JoinInv
  <1> SUFFICES ASSUME Init PROVE JoinInv
    OBVIOUS
  <1>1. text \in Seq(STRING)
    BY SegmenterAssumption DEF Init
  <1>2. units = <<>> /\ result = <<>> /\ start = 0 /\ phase = "whole"
    BY DEF Init
  <1>3. Joined(<<>>) /\ End(<<>>) = 0
    BY EmptyIsSeq DEF Joined, End
  <1>4. QED
    BY <1>1, <1>2, <1>3, EmptyIsSeq DEF JoinInv

LEMMA ScanJoins ==
    ASSUME JoinInv, Whole \/ Scan
    PROVE  JoinInv'
  <1>1. /\ text' = text /\ result' = result /\ result = <<>>
        /\ phase \in {"whole", "scan"} /\ phase' = "scan"
        /\ start = End(units)
    BY DEF JoinInv, Whole, Scan
  <1>2. IsSeq(units') /\ Joined(units') /\ start' = End(units')
    <2>1. CASE units' = units /\ start' = start
      BY <1>1, <2>1 DEF JoinInv
    <2>2. CASE /\ units' = Append(units, Unit(start, Look(index).stop, Look(index).next))
               /\ start' = Look(index).next
      BY <1>1, <2>2, JoinAppend DEF JoinInv
    <2>3. QED
      BY <2>1, <2>2 DEF Whole, Scan
  <1>3. text' \in Seq(STRING) /\ IsSeq(result') /\ Joined(result')
    BY <1>1 DEF JoinInv
  <1>4. QED
    BY <1>1, <1>2, <1>3 DEF JoinInv

LEMMA EndScanJoins ==
    ASSUME JoinInv, EndScan
    PROVE  JoinInv'
  <1>1. /\ phase = "scan" /\ text' = text /\ units' = Remainder
        /\ text \in Seq(STRING) /\ IsSeq(result) /\ Joined(result) /\ result = <<>>
    BY DEF JoinInv, EndScan
  <1>2. IsSeq(units') /\ Joined(units')
    BY <1>1, RemainderFacts
  <1>3. CASE phase' = "done" /\ result' = <<Unit(0, ContentEnd, Len(text))>>
    <2>1. /\ IsSeq(result') /\ result' # <<>> /\ Len(result') = 1
          /\ result'[1].from = 0 /\ result'[1].next = Len(text)
      BY <1>3, SingletonFacts DEF Unit
    <2>2. Joined(result') /\ End(result') = Len(text')
      BY <1>1, <2>1 DEF Joined, End
    <2>3. QED
      BY <1>1, <1>2, <1>3, <2>1, <2>2 DEF JoinInv
  <1>4. CASE /\ Len(Remainder) > 1 \/ Pieces(Needed) > MaxPieces
             /\ phase' = "unit" /\ unit' = 1 /\ result' = result
    <2>1. Remainder # <<>>
      <3>1. ASSUME Remainder = <<>> PROVE FALSE
        <4>1. Len(Remainder) = 0
          BY <3>1
        <4>2. Pieces(<<0, ContentEnd>>) > MaxPieces
          BY <1>1, <1>4, <4>1, NeededFacts
        <4>3. Pieces(<<0, ContentEnd>>) = 0
          BY <1>1, <3>1, RemainderFacts
        <4>4. QED
          BY <4>2, <4>3, SegmenterAssumption
      <3>2. QED
        BY <3>1
    <2>2. units' # <<>> /\ End(units') = Len(text')
      BY <1>1, <2>1, RemainderFacts
    <2>3. Len(units') \in Nat /\ Len(units') > 0
      BY <1>2, <2>2, SeqFacts
    <2>4. End(result') = units'[1].from
      BY <1>1, <1>2, <1>4, <2>2 DEF Joined, End
    <2>5. unit' \in 1 .. Len(units') /\ unit' # Len(units') + 1
      BY <1>4, <2>3
    <2>6. QED
      BY <1>1, <1>2, <1>4, <2>2, <2>4, <2>5 DEF JoinInv
  <1>5. QED
    BY <1>3, <1>4 DEF EndScan

\* A pushed segment begins where the last one ends.
LEMMA PushJoins ==
    ASSUME IsSeq(result), Joined(result), NEW stop, NEW next, NEW then,
           Push(End(result), stop, next, then)
    PROVE  /\ IsSeq(result') /\ Joined(result')
           /\ \/ phase' = then /\ result' # <<>> /\ End(result') = next
              \/ phase' = "tooMany"
  <1>1. CASE phase' = then /\ result' = Append(result, Unit(End(result), stop, next))
    BY <1>1, JoinAppend
  <1>2. CASE phase' = "tooMany" /\ result' = result
    BY <1>2
  <1>3. QED
    BY <1>1, <1>2, PushFacts

\* The steps within the units.
Splitting == phase \in {"split", "search", "first", "prefix"}

LEMMA SplitFacts ==
    ASSUME JoinInv, phase = "unit" \/ Splitting
    PROVE  /\ text \in Seq(STRING) /\ IsSeq(units) /\ Joined(units)
           /\ IsSeq(result) /\ Joined(result)
           /\ units # <<>> /\ End(units) = Len(text)
           /\ Len(units) \in Nat /\ unit \in 1 .. Len(units) + 1
           /\ Splitting => unit \in 1 .. Len(units) /\ End(result) = start
           /\ phase = "unit" /\ unit <= Len(units) =>
                  unit \in 1 .. Len(units) /\ End(result) = units[unit].from
           /\ phase = "unit" /\ unit > Len(units) =>
                  End(result) = Len(text) /\ result # <<>>
  BY SeqFacts DEF JoinInv, Splitting

\* After a unit comes the next, or the end of the text.
LEMMA NextUnit ==
    ASSUME JoinInv, phase = "unit" \/ Splitting, unit \in 1 .. Len(units),
           UNCHANGED <<text, units>>, unit' = unit + 1, phase' = "unit",
           IsSeq(result'), Joined(result'), result' # <<>>,
           End(result') = units[unit].next
    PROVE  JoinInv'
  <1>1. /\ text \in Seq(STRING) /\ IsSeq(units) /\ Joined(units)
        /\ units # <<>> /\ End(units) = Len(text) /\ Len(units) \in Nat
    BY SplitFacts
  <1>2. unit' \in 1 .. Len(units) + 1
    BY <1>1
  <1>3. ASSUME unit' \in 1 .. Len(units) PROVE End(result') = units[unit'].from
    <2>1. unit' \in 2 .. Len(units) /\ unit' - 1 = unit
      BY <1>1, <1>3
    <2>2. units[unit'].from = units[unit].next
      BY <1>1, <2>1 DEF Joined
    <2>3. QED
      BY <2>2
  <1>4. ASSUME unit' = Len(units) + 1 PROVE End(result') = Len(text)
    <2>1. unit = Len(units)
      BY <1>1, <1>4
    <2>2. QED
      BY <1>1, <2>1 DEF End
  <1>5. QED
    BY <1>1, <1>2, <1>3, <1>4 DEF JoinInv

LEMMA TakeJoins ==
    ASSUME JoinInv, TakeUnit \/ TakeRest
    PROVE  JoinInv'
  <1>1. phase = "unit" \/ Splitting
    BY DEF TakeUnit, TakeRest, Splitting
  <1>2. /\ text \in Seq(STRING) /\ IsSeq(units) /\ Joined(units)
        /\ IsSeq(result) /\ Joined(result)
        /\ units # <<>> /\ End(units) = Len(text) /\ Len(units) \in Nat
        /\ unit \in 1 .. Len(units)
        /\ UNCHANGED <<text, units>>
    BY <1>1, SplitFacts DEF TakeUnit, TakeRest, Splitting
  <1>3. CASE /\ Push(End(result), units[unit].stop, units[unit].next, "unit")
             /\ unit' = unit + 1
    <2>1. IsSeq(result') /\ Joined(result')
      BY <1>2, <1>3, PushJoins
    <2>2. CASE phase' = "unit" /\ result' # <<>> /\ End(result') = units[unit].next
      BY <1>1, <1>2, <1>3, <2>1, <2>2, NextUnit
    <2>3. CASE phase' = "tooMany"
      BY <1>2, <2>1, <2>3 DEF JoinInv
    <2>4. QED
      BY <1>2, <1>3, <2>2, <2>3, PushJoins
  <1>4. CASE /\ phase' \in {"split", "search"} /\ result' = result /\ unit' = unit
             /\ start' = End(result)
    <2>1. End(result') = start'
      BY <1>4
    <2>2. unit' \in 1 .. Len(units') /\ unit' \in 1 .. Len(units') + 1
      BY <1>2, <1>4
    <2>3. IsSeq(result') /\ Joined(result') /\ IsSeq(units') /\ Joined(units')
          /\ units' # <<>> /\ End(units') = Len(text') /\ text' \in Seq(STRING)
      BY <1>2, <1>4
    <2>4. QED
      BY <1>4, <2>1, <2>2, <2>3 DEF JoinInv
  <1>5. CASE TakeUnit
    <2>1. End(result) = units[unit].from
      BY <1>5, SplitFacts DEF TakeUnit
    <2>2. \/ /\ Push(End(result), units[unit].stop, units[unit].next, "unit")
             /\ unit' = unit + 1
          \/ /\ phase' = "split" /\ result' = result /\ unit' = unit
             /\ start' = End(result)
      BY <1>5, <2>1 DEF TakeUnit
    <2>3. QED
      BY <2>2, <1>3, <1>4
  <1>6. CASE TakeRest
    <2>1. End(result) = start /\ start' = start
      BY <1>6, SplitFacts DEF TakeRest, Splitting
    <2>2. \/ /\ Push(End(result), units[unit].stop, units[unit].next, "unit")
             /\ unit' = unit + 1
          \/ phase' = "search" /\ result' = result /\ unit' = unit
      BY <1>6, <2>1 DEF TakeRest
    <2>3. QED
      BY <2>1, <2>2, <1>3, <1>4
  <1>7. QED
    BY <1>5, <1>6

LEMMA CutJoins ==
    ASSUME JoinInv, CutAtBreak \/ CutInWord
    PROVE  JoinInv'
  <1>1. Splitting /\ UNCHANGED <<text, units, unit>>
    BY DEF CutAtBreak, CutInWord, Splitting
  <1>2. /\ text \in Seq(STRING) /\ IsSeq(units) /\ Joined(units)
        /\ IsSeq(result) /\ Joined(result)
        /\ units # <<>> /\ End(units) = Len(text) /\ Len(units) \in Nat
        /\ unit \in 1 .. Len(units) /\ unit \in 1 .. Len(units) + 1
        /\ End(result) = start
    BY <1>1, SplitFacts
  <1>3. Push(End(result), Found.stop, Found.next, "split") /\ start' = Found.next
    BY <1>2 DEF CutAtBreak, CutInWord
  <1>4. /\ IsSeq(result') /\ Joined(result')
        /\ \/ phase' = "split" /\ End(result') = start'
           \/ phase' = "tooMany"
    BY <1>2, <1>3, PushJoins
  <1>5. CASE phase' = "split" /\ End(result') = start'
    BY <1>1, <1>2, <1>4, <1>5 DEF JoinInv
  <1>6. CASE phase' = "tooMany"
    BY <1>1, <1>2, <1>4, <1>6 DEF JoinInv
  <1>7. QED
    BY <1>4, <1>5, <1>6

LEMMA SearchJoins ==
    ASSUME JoinInv, Probe \/ NextPriority \/ FirstScalar \/ Bisect
    PROVE  JoinInv'
  <1>1. /\ Splitting /\ UNCHANGED <<text, units, unit, start, result>>
        /\ phase' \in {"search", "first", "prefix", "unsplittable"}
    BY DEF Probe, NextPriority, FirstScalar, Bisect, Splitting
  <1>2. /\ text \in Seq(STRING) /\ IsSeq(units) /\ Joined(units)
        /\ IsSeq(result) /\ Joined(result)
        /\ units # <<>> /\ End(units) = Len(text) /\ Len(units) \in Nat
        /\ unit \in 1 .. Len(units) /\ unit \in 1 .. Len(units) + 1
        /\ End(result) = start
    BY <1>1, SplitFacts
  <1>3. /\ text' \in Seq(STRING) /\ IsSeq(units') /\ Joined(units')
        /\ IsSeq(result') /\ Joined(result')
        /\ units' # <<>> /\ End(units') = Len(text')
        /\ unit' \in 1 .. Len(units') /\ unit' \in 1 .. Len(units') + 1
        /\ End(result') = start'
    BY <1>1, <1>2
  <1>4. QED
    BY <1>1, <1>3 DEF JoinInv

LEMMA EndJoins ==
    ASSUME JoinInv, Finish \/ RefuseText \/ Refuse
    PROVE  JoinInv'
  <1>1. UNCHANGED <<text, units, unit, start, result>>
    BY DEF Finish, RefuseText, Refuse
  <1>2. /\ text' \in Seq(STRING) /\ IsSeq(units') /\ Joined(units')
        /\ IsSeq(result') /\ Joined(result')
    BY <1>1 DEF JoinInv
  <1>3. CASE Finish
    <2>1. phase' = "done" /\ result' # <<>> /\ End(result') = Len(text')
      BY <1>1, <1>3, SplitFacts DEF Finish
    <2>2. QED
      BY <1>2, <2>1 DEF JoinInv
  <1>4. CASE RefuseText \/ Refuse
    <2>1. phase' \in {"tooLarge", "failed", "workLimit"}
      BY <1>4 DEF RefuseText, Refuse
    <2>2. QED
      BY <1>2, <2>1 DEF JoinInv
  <1>5. QED
    BY <1>3, <1>4

LEMMA JoinNext == JoinInv /\ [Next]_vars => JoinInv'
  <1> SUFFICES ASSUME JoinInv, [Next]_vars PROVE JoinInv'
    OBVIOUS
  <1>1. CASE UNCHANGED vars
    BY <1>1 DEF JoinInv, Joined, End, IsSeq, vars, search
  <1>2. QED
    BY <1>1, ScanJoins, EndScanJoins, TakeJoins, CutJoins, SearchJoins, EndJoins
       DEF Next, Step

\* For every text, tokenizer and limit: segments that are returned are the text,
\* in order, without gap or overlap.
THEOREM SegmentsAreTheText == Spec => []Lossless
  <1>1. JoinInv => Lossless
    <2> SUFFICES ASSUME JoinInv, phase = "done" PROVE Lossless
      BY DEF Lossless
    <2>1. result # <<>> /\ End(result) = Len(text) /\ Joined(result)
      BY DEF JoinInv
    <2>2. QED
      BY <2>1 DEF Lossless, Joined, End
  <1>2. QED
    BY JoinInit, JoinNext, <1>1, PTL DEF Spec

-----------------------------------------------------------------------------
(* No segment holds a line break: what the scan passes and what it leaves.    *)

LEMMA FirstExists ==
    ASSUME NEW i \in Nat, NEW n \in Nat, NEW S, S \subseteq i .. n, S # {}
    PROVE  \E m \in S : \A k \in S : m <= k
  <1> DEFINE T == {n - k : k \in S}
  <1>1. T \subseteq 0 .. n /\ T # {}
    OBVIOUS
  <1> HIDE DEF T
  <1>2. PICK t \in T : \A k \in T : k <= t
    BY <1>1, LastExists
  <1>3. PICK m \in S : t = n - m
    BY <1>2 DEF T
  <1>4. ASSUME NEW k \in S PROVE m <= k
    <2>1. n - k \in T
      BY DEF T
    <2>2. n - k <= n - m
      BY <2>1, <1>2, <1>3
    <2>3. k \in Int /\ m \in Int
      OBVIOUS
    <2>4. QED
      BY <2>2, <2>3
  <1>5. QED
    BY <1>3, <1>4

LEMMA SkipFacts ==
    ASSUME NEW S, NEW i \in Nat, NEW end \in Nat, i <= end
    PROVE  /\ Skip(S, i, end) \in i .. end
           /\ Skip(S, i, end) = end \/ At(Skip(S, i, end)) \notin S
           /\ \A k \in i .. Skip(S, i, end) - 1 : At(k) \in S
  <1> DEFINE Stops == {j \in i .. end : j = end \/ At(j) \notin S}
             Is(j) == /\ j = end \/ At(j) \notin S
                      /\ \A k \in i .. j - 1 : At(k) \in S
  <1>1. Stops \subseteq i .. end /\ end \in Stops
    OBVIOUS
  <1>2. PICK m \in Stops : \A k \in Stops : m <= k
    <2>1. Stops # {}
      BY <1>1
    <2> HIDE DEF Stops
    <2>2. QED
      BY <1>1, <2>1, FirstExists
  <1>3. m \in i .. end /\ (m = end \/ At(m) \notin S)
    BY <1>2
  <1>4. ASSUME NEW k \in i .. m - 1 PROVE At(k) \in S
    <2>1. k \in i .. end /\ ~ (m <= k)
      BY <1>3
    <2>2. k \notin Stops
      BY <2>1, <1>2
    <2>3. QED
      BY <2>1, <2>2
  <1>5. \E j \in i .. end : Is(j)
    BY <1>3, <1>4
  <1>6. Skip(S, i, end) = CHOOSE j \in i .. end : Is(j)
    BY DEF Skip
  <1> HIDE DEF Is
  <1>7. Skip(S, i, end) \in i .. end /\ Is(Skip(S, i, end))
    BY <1>5, <1>6, Zenon
  <1>8. QED
    BY <1>7 DEF Is

Clear(from, stop) ==
    /\ from \in Nat /\ stop \in Nat
    /\ \A i \in from .. stop - 1 : At(i) # "\n"

\* Only at the end of the content are all scalars up to it blanks.
LEMMA NoBlanksToTheEnd ==
    ASSUME text \in Seq(STRING), NEW i \in Nat, i <= ContentEnd,
           \A k \in i .. ContentEnd - 1 : At(k) \in Blanks
    PROVE  i = ContentEnd
  <1>1. ContentEnd \in Nat /\ (ContentEnd = 0 \/ At(ContentEnd - 1) \notin Blanks)
    BY ContentFacts DEF ContentIs
  <1>2. ASSUME i < ContentEnd PROVE FALSE
    <2>1. ContentEnd - 1 \in i .. ContentEnd - 1 /\ ContentEnd # 0
      BY <1>1, <1>2
    <2>2. QED
      BY <1>1, <2>1
  <1>3. QED
    BY <1>1, <1>2

LEMMA LineBreakIsNoMark ==
    "\n" \in Blanks /\ "\n" \notin Terminators /\ "\n" \notin Closing
  BY DEF Blanks, Terminators, Closing

\* Of what the scan passes at one position, the part that becomes content holds
\* no line break.
LEMMA LookFacts ==
    ASSUME text \in Seq(STRING), NEW i \in Nat, i < ContentEnd
    PROVE  /\ Look(i).next \in i .. ContentEnd
           /\ Look(i).cut =>
                  /\ Look(i).stop \in i .. Look(i).next
                  /\ Clear(i, Look(i).stop)
                  /\ Look(i).next = ContentEnd => Look(i).stop = ContentEnd
           /\ ~ Look(i).cut => Clear(i, Look(i).next)
  <1>1. ContentEnd \in Nat
    BY ContentEndNat
  <1>2. CASE At(i) \in Terminators
    <2> DEFINE marks == Skip(Terminators, i, ContentEnd)
               stop == Skip(Closing, marks, ContentEnd)
               after == Skip(Blanks, stop, ContentEnd)
    <2>1. marks \in i .. ContentEnd /\ \A k \in i .. marks - 1 : At(k) \in Terminators
      BY <1>1, SkipFacts
    <2> HIDE DEF marks
    <2>2. stop \in marks .. ContentEnd /\ \A k \in marks .. stop - 1 : At(k) \in Closing
      BY <1>1, <2>1, SkipFacts
    <2> HIDE DEF stop
    <2>3. /\ after \in stop .. ContentEnd
          /\ \A k \in stop .. after - 1 : At(k) \in Blanks
      BY <1>1, <2>1, <2>2, SkipFacts
    <2> HIDE DEF after
    <2>4. ASSUME NEW k \in i .. stop - 1 PROVE At(k) # "\n"
      <3>1. k \in i .. marks - 1 \/ k \in marks .. stop - 1
        BY <2>1, <2>2
      <3>2. At(k) \in Terminators \/ At(k) \in Closing
        BY <2>1, <2>2, <3>1
      <3>3. QED
        BY <3>2, LineBreakIsNoMark
    <2>5. Clear(i, stop) /\ Clear(i, marks)
      BY <1>1, <2>1, <2>2, <2>4 DEF Clear
    <2>6. after = ContentEnd => stop = ContentEnd
      BY <1>1, <2>1, <2>2, <2>3, NoBlanksToTheEnd
    <2>7. Look(i) = AtTerminator(i)
      <3>1. At(i) \notin Blanks
        BY <1>2 DEF Terminators, Blanks
      <3>2. QED
        BY <1>2, <3>1 DEF Look
    <2>8. /\ Look(i).stop = stop
          /\ Look(i).cut => Look(i).next = after
          /\ ~ Look(i).cut => Look(i).next = marks
      BY <2>7 DEF AtTerminator, marks, stop, after
    <2>9. CASE Look(i).cut
      BY <1>1, <2>1, <2>2, <2>3, <2>5, <2>6, <2>8, <2>9
    <2>10. CASE ~ Look(i).cut
      BY <1>1, <2>1, <2>5, <2>8, <2>10
    <2>11. QED
      BY <2>9, <2>10
  <1>3. CASE At(i) \notin Terminators /\ At(i) \in Blanks
    <2> DEFINE after == Skip(Blanks, i, ContentEnd)
    <2>1. after \in i .. ContentEnd /\ \A k \in i .. after - 1 : At(k) \in Blanks
      BY <1>1, SkipFacts
    <2>2. Look(i) = [cut |-> \E j \in i .. after - 1 : At(j) = "\n",
                     stop |-> i, next |-> after]
      BY <1>3 DEF Look, AtBlank
    <2> HIDE DEF after
    <2>3. after # ContentEnd
      BY <1>1, <2>1, NoBlanksToTheEnd
    <2>4. Clear(i, i)
      BY DEF Clear
    <2>5. ~ Look(i).cut => Clear(i, after)
      BY <1>1, <2>1, <2>2 DEF Clear
    <2>6. Look(i).stop = i /\ Look(i).next = after
      BY <2>2
    <2>7. QED
      BY <1>1, <2>1, <2>3, <2>4, <2>5, <2>6
  <1>4. CASE At(i) \notin Terminators /\ At(i) \notin Blanks
    <2>1. Look(i) = [cut |-> FALSE, stop |-> i, next |-> i + 1]
      BY <1>4 DEF Look
    <2>2. At(i) # "\n"
      BY <1>4, LineBreakIsNoMark
    <2>3. Clear(i, i + 1)
      BY <2>2 DEF Clear
    <2>4. QED
      BY <1>1, <2>1, <2>3
  <1>5. QED
    BY <1>2, <1>3, <1>4

UnitsAreClear == \A k \in DOMAIN units : Clear(units[k].from, units[k].stop)

\* Since the last unit no line break has been passed; a scan that ends with a
\* unit has taken all of the content into it.
ScanIsClear ==
    phase \in {"whole", "scan"} =>
        /\ index \in 0 .. ContentEnd
        /\ start \in 0 .. index
        /\ Clear(start, index)
        /\ start = ContentEnd /\ units # <<>> => units[Len(units)].stop = ContentEnd

LEMMA ClearJoins ==
    ASSUME NEW i, NEW j, NEW k, Clear(i, j), Clear(j, k)
    PROVE  Clear(i, k)
  <1>1. i \in Nat /\ j \in Nat /\ k \in Nat
    BY DEF Clear
  <1>2. ASSUME NEW n \in i .. k - 1 PROVE At(n) # "\n"
    <2>1. n \in i .. j - 1 \/ n \in j .. k - 1
      BY <1>1
    <2>2. QED
      BY <2>1 DEF Clear
  <1>3. QED
    BY <1>1, <1>2 DEF Clear

\* A part of what is clear is clear.
LEMMA ClearWithin ==
    ASSUME NEW i, NEW j, NEW from \in Nat, NEW stop \in Nat,
           Clear(i, j), i <= from, stop <= j
    PROVE  Clear(from, stop)
  BY DEF Clear

LEMMA AppendIsClear ==
    ASSUME IsSeq(units), UnitsAreClear, text' = text,
           NEW from, NEW stop, NEW next, Clear(from, stop),
           units' = Append(units, Unit(from, stop, next))
    PROVE  UnitsAreClear'
  <1>1. /\ IsSeq(units')
        /\ \A k \in 1 .. Len(units) : units'[k] = units[k]
        /\ units'[Len(units) + 1] = Unit(from, stop, next)
        /\ Len(units') = Len(units) + 1
    BY AppendFacts
  <1>2. /\ DOMAIN units' = 1 .. Len(units) + 1
        /\ DOMAIN units = 1 .. Len(units)
        /\ Len(units) \in Nat
    BY <1>1, SeqFacts
  <1>3. ASSUME NEW k \in DOMAIN units' PROVE Clear(units'[k].from, units'[k].stop)
    <2>1. CASE k \in DOMAIN units
      BY <1>1, <1>2, <2>1 DEF UnitsAreClear
    <2>2. CASE k = Len(units) + 1
      BY <1>1, <2>2 DEF Unit
    <2>3. QED
      BY <1>2, <2>1, <2>2
  <1>4. QED
    BY <1>3 DEF UnitsAreClear, Clear, At

LEMMA ScanKeepsClear ==
    ASSUME JoinInv, ScanIsClear, UnitsAreClear, Whole \/ Scan
    PROVE  ScanIsClear' /\ UnitsAreClear'
  <1>1. /\ text' = text /\ text \in Seq(STRING) /\ IsSeq(units)
        /\ phase \in {"whole", "scan"} /\ ContentEnd \in Nat
    BY ContentEndNat DEF JoinInv, Whole, Scan
  <1>2. /\ index \in 0 .. ContentEnd /\ start \in 0 .. index /\ Clear(start, index)
        /\ start = ContentEnd /\ units # <<>> => units[Len(units)].stop = ContentEnd
    BY <1>1 DEF ScanIsClear
  <1>3. CASE Whole
    <2>1. UNCHANGED <<text, units, index, start>>
      BY <1>3 DEF Whole
    <2>2. QED
      BY <1>1, <1>2, <2>1 DEF ScanIsClear, UnitsAreClear, Clear, At, ContentEnd
  <1>4. CASE Scan
    <2> DEFINE here == Look(index)
    <2>1. index \in Nat /\ index < ContentEnd /\ index' = here.next
      BY <1>1, <1>2, <1>4 DEF Scan
    <2>2. /\ here.next \in index .. ContentEnd
          /\ here.cut =>
                 /\ here.stop \in index .. here.next
                 /\ Clear(index, here.stop)
                 /\ here.next = ContentEnd => here.stop = ContentEnd
          /\ ~ here.cut => Clear(index, here.next)
      BY <1>1, <2>1, LookFacts
    <2>3. CASE here.cut
      <3>1. units' = Append(units, Unit(start, here.stop, here.next)) /\ start' = here.next
        BY <1>4, <2>3 DEF Scan
      <3> HIDE DEF here
      <3>2. Clear(start, here.stop)
        BY <1>2, <2>2, <2>3, ClearJoins
      <3>3. UnitsAreClear'
        BY <1>1, <3>1, <3>2, AppendIsClear
      <3>4. units'[Len(units')] = Unit(start, here.stop, here.next)
        BY <1>1, <3>1, AppendFacts
      <3>5. start' = ContentEnd => units'[Len(units')].stop = ContentEnd
        BY <2>2, <2>3, <3>1, <3>4 DEF Unit
      <3>6. index' \in 0 .. ContentEnd /\ start' \in 0 .. index' /\ Clear(start', index')
        BY <1>1, <1>2, <2>1, <2>2, <3>1 DEF Clear
      <3>7. ContentEnd' = ContentEnd /\ Clear(start, index)' = Clear(start', index')
        BY <1>1 DEF ContentEnd, Clear, At
      <3>8. QED
        BY <3>3, <3>5, <3>6, <3>7 DEF ScanIsClear
    <2>4. CASE ~ here.cut
      <3>1. units' = units /\ start' = start
        BY <1>4, <2>4 DEF Scan
      <3> HIDE DEF here
      <3>2. Clear(start, here.next)
        BY <1>2, <2>2, <2>4, ClearJoins
      <3>3. UnitsAreClear'
        BY <1>1, <3>1 DEF UnitsAreClear, Clear, At
      <3>4. index' \in 0 .. ContentEnd /\ start' \in 0 .. index' /\ Clear(start', index')
        BY <1>1, <1>2, <2>1, <2>2, <3>1, <3>2
      <3>5. ContentEnd' = ContentEnd /\ Clear(start, index)' = Clear(start', index')
        BY <1>1 DEF ContentEnd, Clear, At
      <3>6. QED
        BY <1>2, <3>1, <3>3, <3>4, <3>5 DEF ScanIsClear
    <2>5. QED
      BY <2>3, <2>4
  <1>5. QED
    BY <1>3, <1>4

-----------------------------------------------------------------------------
(* What the scan leaves is clear, and so is a text that stays whole.          *)

LEMMA RemainderIsClear ==
    ASSUME JoinInv, ScanIsClear, UnitsAreClear, EndScan
    PROVE  UnitsAreClear'
  <1>1. /\ text' = text /\ text \in Seq(STRING) /\ IsSeq(units)
        /\ phase = "scan" /\ ContentEnd \in Nat
        /\ index >= ContentEnd /\ units' = Remainder
    BY ContentEndNat DEF JoinInv, EndScan
  <1>2. /\ index \in 0 .. ContentEnd /\ start \in 0 .. index /\ Clear(start, index)
    BY <1>1 DEF ScanIsClear
  <1>3. index = ContentEnd
    BY <1>1, <1>2
  <1>4. CASE start < ContentEnd
    <2>1. units' = Append(units, Unit(start, ContentEnd, Len(text)))
      BY <1>1, <1>4 DEF Remainder
    <2>2. QED
      BY <1>1, <1>2, <1>3, <2>1, AppendIsClear
  <1>5. CASE ~ (start < ContentEnd)
    <2> DEFINE last == Unit(units[Len(units)].from, units[Len(units)].stop, Len(text))
    <2>1. last.from = units[Len(units)].from /\ last.stop = units[Len(units)].stop
      BY DEF Unit
    <2>2. units' = [k \in DOMAIN units |-> IF k = Len(units) THEN last ELSE units[k]]
      BY <1>1, <1>5 DEF Remainder
    <2> HIDE DEF last
    <2>3. DOMAIN units' = DOMAIN units
      BY <2>2, Zenon
    <2>4. ASSUME NEW k \in DOMAIN units
          PROVE  units'[k].from = units[k].from /\ units'[k].stop = units[k].stop
      <3>1. CASE k = Len(units)
        BY <2>1, <2>2, <3>1
      <3>2. CASE k # Len(units)
        BY <2>2, <3>2
      <3>3. QED
        BY <3>1, <3>2
    <2>5. \A k \in DOMAIN units' : Clear(units'[k].from, units'[k].stop)
      BY <2>3, <2>4 DEF UnitsAreClear
    <2>6. QED
      BY <1>1, <2>5 DEF UnitsAreClear, Clear, At
  <1>6. QED
    BY <1>4, <1>5

\* With at most one unit, the content is that unit's.
LEMMA WholeIsClear ==
    ASSUME JoinInv, ScanIsClear, UnitsAreClear, EndScan, Len(Remainder) <= 1
    PROVE  Clear(0, ContentEnd)
  <1>1. /\ text \in Seq(STRING) /\ IsSeq(units) /\ Joined(units)
        /\ phase = "scan" /\ ContentEnd \in Nat /\ start = End(units)
        /\ index >= ContentEnd
    BY ContentEndNat DEF JoinInv, EndScan
  <1>2. /\ index \in 0 .. ContentEnd /\ start \in 0 .. index /\ Clear(start, index)
        /\ start = ContentEnd /\ units # <<>> => units[Len(units)].stop = ContentEnd
    BY <1>1 DEF ScanIsClear
  <1>3. index = ContentEnd
    BY <1>1, <1>2
  <1>4. /\ Len(units) \in Nat /\ DOMAIN units = 1 .. Len(units)
        /\ units # <<>> <=> Len(units) > 0
    BY <1>1, SeqFacts
  <1>5. CASE units = <<>>
    <2>1. start = 0
      BY <1>1, <1>5 DEF End
    <2>2. QED
      BY <1>2, <1>3, <2>1
  <1>6. CASE units # <<>> /\ start < ContentEnd
    <2>1. Len(Remainder) = Len(units) + 1
      BY <1>1, <1>6, AppendFacts DEF Remainder
    <2>2. QED
      BY <1>4, <1>6, <2>1
  <1>7. CASE units # <<>> /\ ~ (start < ContentEnd)
    <2>1. start = ContentEnd
      BY <1>1, <1>2, <1>3, <1>7
    <2>2. Len(units) = 1
      <3> DEFINE g == Remainder
                 last == Unit(units[Len(units)].from, units[Len(units)].stop, Len(text))
      <3>1. g = [k \in 1 .. Len(units) |-> IF k = Len(units) THEN last ELSE units[k]]
        BY <1>4, <1>7 DEF Remainder
      <3> HIDE DEF g, last
      <3>2. DOMAIN g = 1 .. Len(units) /\ g = [k \in 1 .. Len(units) |-> g[k]]
        BY <3>1, Zenon
      <3>3. Len(g) = Len(units)
        BY <1>4, <3>2, FunctionFacts
      <3>4. QED
        BY <1>4, <1>7, <3>3 DEF g
    <2>3. units[1].from = 0 /\ units[1].stop = ContentEnd
      BY <1>1, <1>2, <1>7, <2>1, <2>2 DEF Joined
    <2>4. 1 \in DOMAIN units
      BY <1>4, <2>2
    <2>5. QED
      BY <2>3, <2>4 DEF UnitsAreClear
  <1>8. QED
    BY <1>5, <1>6, <1>7

LEMMA PushIsClear ==
    ASSUME IsSeq(result), LineBreaksAreKept, text' = text,
           NEW from, NEW stop, NEW next, NEW then,
           Push(from, stop, next, then), Clear(from, stop)
    PROVE  LineBreaksAreKept'
  <1>1. CASE result' = result
    BY <1>1 DEF LineBreaksAreKept, At
  <1>2. CASE result' = Append(result, Unit(from, stop, next))
    <2>1. /\ IsSeq(result')
          /\ \A k \in 1 .. Len(result) : result'[k] = result[k]
          /\ result'[Len(result) + 1] = Unit(from, stop, next)
          /\ Len(result') = Len(result) + 1
      BY <1>2, AppendFacts
    <2>2. /\ DOMAIN result' = 1 .. Len(result) + 1
          /\ DOMAIN result = 1 .. Len(result)
          /\ Len(result) \in Nat
      BY <2>1, SeqFacts
    <2>3. ASSUME NEW k \in DOMAIN result'
          PROVE  \A i \in result'[k].from .. result'[k].stop - 1 : At(i) # "\n"
      <3>1. CASE k \in DOMAIN result
        BY <2>1, <2>2, <3>1 DEF LineBreaksAreKept
      <3>2. CASE k = Len(result) + 1
        BY <2>1, <3>2 DEF Unit, Clear
      <3>3. QED
        BY <2>2, <3>1, <3>2
    <2>4. QED
      BY <2>3 DEF LineBreaksAreKept, At
  <1>3. QED
    BY <1>1, <1>2, PushFacts

LEMMA EndScanIsClear ==
    ASSUME JoinInv, ScanIsClear, UnitsAreClear, LineBreaksAreKept, EndScan
    PROVE  LineBreaksAreKept'
  <1>1. text' = text
    BY DEF EndScan
  <1>2. CASE result' = result
    BY <1>1, <1>2 DEF LineBreaksAreKept, At
  <1>3. CASE Len(Remainder) <= 1 /\ result' = <<Unit(0, ContentEnd, Len(text))>>
    <2>1. Clear(0, ContentEnd)
      BY <1>3, WholeIsClear
    <2>2. IsSeq(result') /\ Len(result') = 1 /\ result'[1] = Unit(0, ContentEnd, Len(text))
      BY <1>3, SingletonFacts
    <2>3. \A k \in DOMAIN result' : k = 1
      BY <2>2, SeqFacts
    <2>4. \A k \in DOMAIN result' :
              \A i \in result'[k].from .. result'[k].stop - 1 : At(i) # "\n"
      BY <2>1, <2>2, <2>3 DEF Unit, Clear
    <2>5. QED
      BY <1>1, <2>4 DEF LineBreaksAreKept, At
  <1>4. QED
    BY <1>2, <1>3 DEF EndScan

-----------------------------------------------------------------------------
(* A candidate of each rank exists: ranks are as many as candidates, and none *)
(* has the rank of another.                                                   *)

LEMMA SameCardinality == \A S : Cardinality(S) = Finite!Cardinality(S)
  BY DEF Cardinality, Finite!Cardinality

\* The rank of an element of S by the number that pos gives it.
RankBy(S, pos, b) == Finite!Cardinality({c \in S : pos[c] < pos[b]})

LEMMA RanksAreAll ==
    ASSUME NEW S, Finite!IsFiniteSet(S), NEW pos \in [S -> Int],
           \A b, c \in S : pos[b] = pos[c] => b = c,
           NEW k \in Nat, k < Finite!Cardinality(S)
    PROVE  \E b \in S : RankBy(S, pos, b) = k
  <1> DEFINE n == Finite!Cardinality(S)
             Left(b) == {c \in S : pos[c] < pos[b]}
             rank == [b \in S |-> RankBy(S, pos, b)]
  <1>1. n \in Nat
    BY Finite!FS_CardinalityType
  <1>2. ASSUME NEW b \in S
        PROVE  Finite!IsFiniteSet(Left(b)) /\ rank[b] = Finite!Cardinality(Left(b))
               /\ rank[b] \in 0 .. n - 1
    <2>1. Left(b) \in SUBSET S /\ b \notin Left(b)
      OBVIOUS
    <2>2. rank[b] = Finite!Cardinality(Left(b))
      BY DEF RankBy
    <2> HIDE DEF Left, rank
    <2>3. /\ Finite!IsFiniteSet(Left(b)) /\ Finite!Cardinality(Left(b)) <= n
          /\ n = Finite!Cardinality(Left(b)) => S = Left(b)
      BY <2>1, Finite!FS_Subset
    <2>4. Finite!Cardinality(Left(b)) \in Nat
      BY <2>3, Finite!FS_CardinalityType
    <2>5. S # Left(b)
      BY <2>1
    <2>6. Finite!Cardinality(Left(b)) # n
      BY <2>3, <2>5
    <2>7. QED
      BY <1>1, <2>2, <2>3, <2>4, <2>6
  <1>3. ASSUME NEW b \in S, NEW c \in S, pos[b] < pos[c] PROVE rank[b] # rank[c]
    <2>1. Left(b) \in SUBSET Left(c) /\ b \in Left(c) /\ b \notin Left(b)
      BY <1>3
    <2>2. /\ Finite!IsFiniteSet(Left(c))
          /\ rank[b] = Finite!Cardinality(Left(b)) /\ rank[c] = Finite!Cardinality(Left(c))
      BY <1>2
    <2> HIDE DEF Left, rank
    <2>3. Finite!Cardinality(Left(c)) = Finite!Cardinality(Left(b)) => Left(c) = Left(b)
      BY <2>1, <2>2, Finite!FS_Subset
    <2>4. QED
      BY <2>1, <2>2, <2>3
  <1>a. rank \in [S -> 0 .. n - 1]
    <2> HIDE DEF n
    <2>1. \A b \in S : rank[b] \in 0 .. n - 1
      BY <1>2
    <2>2. rank = [b \in S |-> rank[b]]
      OBVIOUS
    <2> HIDE DEF rank
    <2>3. QED
      BY <2>1, <2>2
  <1> HIDE DEF rank, n
  <1>4. ASSUME NEW b \in S, NEW c \in S, rank[b] = rank[c] PROVE b = c
    <2>1. pos[b] \in Int /\ pos[c] \in Int
      OBVIOUS
    <2>2. CASE pos[b] < pos[c]
      BY <1>3, <1>4, <2>2
    <2>3. CASE pos[c] < pos[b]
      BY <1>3, <1>4, <2>3
    <2>4. QED
      BY <2>1, <2>2, <2>3
  <1>5. rank \in Finite!Injection(S, 0 .. n - 1)
    BY <1>a, <1>4 DEF Finite!Injection, Finite!IsInjective
  <1>6. Finite!IsFiniteSet(0 .. n - 1) /\ Finite!Cardinality(0 .. n - 1) = n
    BY <1>1, Finite!FS_Interval
  <1>7. rank \in Finite!Surjection(S, 0 .. n - 1)
    BY <1>5, <1>6, Finite!FS_Injection DEF n
  <1>8. \A r \in 0 .. n - 1 : \E b \in S : rank[b] = r
    BY <1>7 DEF Finite!Surjection
  <1>9. PICK b \in S : rank[b] = k
    <2>1. k \in 0 .. n - 1
      BY <1>1 DEF n
    <2>2. QED
      BY <1>8, <2>1
  <1>10. QED
    BY <1>9 DEF rank

\* The break at a given position; break points lie within their unit.
Point(u, after, p) ==
    [stop |-> after, next |-> Skip(Blanks, after, u.stop), priority |-> p]

LEMMA BreakPointFacts ==
    ASSUME NEW u, u.from \in Nat, u.stop \in Nat, NEW b \in BreakPoints(u)
    PROVE  \E after \in u.from .. u.stop, p \in 0 .. 2 : b = Point(u, after, p)
  <1> DEFINE Scanned == u.from .. u.stop - 1
  <1>1. \/ \E i \in Scanned : b = Point(u, i, 2)
        \/ \E i \in Scanned : b = Point(u, i + 1, 0)
        \/ \E i \in Scanned : b = Point(u, i + 1, 1)
        \/ \E i \in Scanned : b = Point(u, Skip({"-"}, i, u.stop), 0)
    BY DEF BreakPoints, Point, Runs
  <1>2. \A i \in Scanned : i \in u.from .. u.stop /\ i + 1 \in u.from .. u.stop
    OBVIOUS
  <1>3. ASSUME NEW i \in Scanned PROVE Skip({"-"}, i, u.stop) \in u.from .. u.stop
    <2>1. i \in Nat /\ i <= u.stop /\ u.from <= i
      OBVIOUS
    <2>2. Skip({"-"}, i, u.stop) \in i .. u.stop
      BY <2>1, SkipFacts
    <2>3. QED
      BY <2>1, <2>2
  <1> HIDE DEF Scanned
  <1>4. QED
    BY <1>1, <1>2, <1>3

\* Where the rest of the unit being split begins and ends.
RestIsBounded ==
    units[unit].from \in Nat /\ units[unit].stop \in Nat /\ start \in Nat

LEMMA CandidatesFacts ==
    ASSUME RestIsBounded, NEW p
    PROVE  /\ \A b \in Candidates(p) :
                  /\ b.stop \in start + 1 .. units[unit].stop
                  /\ b.next \in start + 1 .. units[unit].stop
                  /\ b = Point(units[unit], b.stop, p)
           /\ Finite!IsFiniteSet(Candidates(p))
  <1> DEFINE u == units[unit]
             T == {Point(u, after, p) : after \in u.from .. u.stop}
  <1>1. ASSUME NEW b \in Candidates(p)
        PROVE  /\ b.stop \in start + 1 .. u.stop
               /\ b.next \in start + 1 .. u.stop
               /\ b = Point(u, b.stop, p)
               /\ b \in T
    <2>1. /\ b \in BreakPoints(u)
          /\ b.priority = p /\ b.stop > start /\ b.next > start /\ b.next < u.stop
      BY DEF Candidates
    <2>2. u.from \in Nat /\ u.stop \in Nat /\ start \in Nat
      BY DEF RestIsBounded
    <2> HIDE DEF u
    <2>3. PICK after \in u.from .. u.stop, q \in 0 .. 2 : b = Point(u, after, q)
      BY <2>1, <2>2, BreakPointFacts
    <2>4. b.stop = after /\ b.priority = q /\ b.next = Skip(Blanks, after, u.stop)
      BY <2>3 DEF Point
    <2>5. Skip(Blanks, after, u.stop) \in after .. u.stop
      BY <2>2, SkipFacts
    <2>6. QED
      BY <2>1, <2>2, <2>3, <2>4, <2>5
  <1>2. Finite!IsFiniteSet(u.from .. u.stop)
    BY Finite!FS_Interval DEF RestIsBounded
  <1>3. Finite!IsFiniteSet(T)
    <2> DEFINE D == u.from .. u.stop
               f == [after \in D |-> Point(u, after, p)]
    <2>1. f \in [D -> T] /\ \A t \in T : \E d \in D : f[d] = t
      OBVIOUS
    <2> HIDE DEF f, D, T
    <2>2. f \in Finite!Surjection(D, T)
      BY <2>1 DEF Finite!Surjection
    <2>3. QED
      BY <1>2, <2>2, Finite!FS_Surjection DEF D
  <1>4. Candidates(p) \in SUBSET T
    BY <1>1
  <1> HIDE DEF T
  <1>5. Finite!IsFiniteSet(Candidates(p))
    BY <1>3, <1>4, Finite!FS_Subset
  <1>6. QED
    BY <1>1, <1>5

\* The candidates on the left of a candidate.
Rank(p, b) == Cardinality({c \in Candidates(p) : c.stop < b.stop})

LEMMA CandidateFacts ==
    ASSUME RestIsBounded, NEW p, NEW k \in Nat, k < Cardinality(Candidates(p))
    PROVE  Candidate(p, k) \in Candidates(p) /\ Rank(p, Candidate(p, k)) = k
  <1> DEFINE S == Candidates(p)
             pos == [b \in S |-> b.stop]
  <1>1. Finite!IsFiniteSet(S)
    BY CandidatesFacts
  <1>2. \A b \in S : b.stop \in Int /\ b = Point(units[unit], b.stop, p)
    <2>1. \A b \in S : b.stop \in start + 1 .. units[unit].stop
                       /\ b = Point(units[unit], b.stop, p)
      BY CandidatesFacts
    <2>2. QED
      BY <2>1
  <1>3. k < Finite!Cardinality(S)
    BY SameCardinality
  <1> HIDE DEF S
  <1>4. pos \in [S -> Int]
    BY <1>2
  <1>5. \A b, c \in S : pos[b] = pos[c] => b = c
    <2>1. \A b, c \in S : b.stop = c.stop => b = c
      BY <1>2
    <2>2. QED
      BY <2>1
  <1>6. PICK b \in S : RankBy(S, pos, b) = k
    <2> HIDE DEF pos
    <2>1. QED
      BY <1>1, <1>3, <1>4, <1>5, RanksAreAll
  <1>7. {c \in S : pos[c] < pos[b]} = {c \in S : c.stop < b.stop}
    OBVIOUS
  <1>8. Cardinality({c \in S : c.stop < b.stop}) = k
    BY <1>6, <1>7, SameCardinality DEF RankBy
  <1>9. \E c \in Candidates(p) :
            Cardinality({d \in Candidates(p) : d.stop < c.stop}) = k
    BY <1>8 DEF S
  <1>10. Candidate(p, k) = CHOOSE c \in Candidates(p) :
            Cardinality({d \in Candidates(p) : d.stop < c.stop}) = k
    BY DEF Candidate
  <1> DEFINE Is(c) == Cardinality({d \in Candidates(p) : d.stop < c.stop}) = k
  <1>11. (\E c \in Candidates(p) : Is(c)) /\ Candidate(p, k) = CHOOSE c \in Candidates(p) : Is(c)
    BY <1>9, <1>10
  <1> HIDE DEF Is
  <1>12. Candidate(p, k) \in Candidates(p) /\ Is(Candidate(p, k))
    BY <1>11, Zenon
  <1>13. QED
    BY <1>12 DEF Is, Rank

\* A candidate further to the right has more on its left.
LEMMA RankFacts ==
    ASSUME RestIsBounded, NEW p, NEW b \in Candidates(p)
    PROVE  /\ Rank(p, b) \in Nat /\ Rank(p, b) < Cardinality(Candidates(p))
           /\ \A c \in Candidates(p) : b.stop < c.stop => Rank(p, b) < Rank(p, c)
  <1> DEFINE S == Candidates(p)
             Left(c) == {d \in S : d.stop < c.stop}
  <1>1. Finite!IsFiniteSet(S) /\ \A c \in S : c.stop \in Int
    <2>1. \A c \in S : c.stop \in start + 1 .. units[unit].stop
      BY CandidatesFacts
    <2>2. QED
      BY <2>1, CandidatesFacts
  <1> HIDE DEF S
  <1>2. ASSUME NEW c \in S
        PROVE  /\ Left(c) \in SUBSET S /\ c \notin Left(c)
               /\ Finite!IsFiniteSet(Left(c))
               /\ Finite!Cardinality(Left(c)) \in Nat
    <2>1. Left(c) \in SUBSET S /\ c \notin Left(c)
      BY <1>1
    <2> HIDE DEF Left
    <2>2. Finite!IsFiniteSet(Left(c))
      BY <1>1, <2>1, Finite!FS_Subset
    <2>3. QED
      BY <2>1, <2>2, Finite!FS_CardinalityType
  <1>3. \A c \in S : Rank(p, c) = Finite!Cardinality(Left(c))
    BY SameCardinality DEF Rank, S
  <1>4. ASSUME NEW T, Finite!IsFiniteSet(T), NEW U \in SUBSET T, U # T
        PROVE  Finite!Cardinality(U) < Finite!Cardinality(T)
    <2>1. /\ Finite!IsFiniteSet(U) /\ Finite!Cardinality(U) <= Finite!Cardinality(T)
          /\ Finite!Cardinality(T) = Finite!Cardinality(U) => T = U
      BY <1>4, Finite!FS_Subset
    <2>2. Finite!Cardinality(U) \in Nat /\ Finite!Cardinality(T) \in Nat
      BY <1>4, <2>1, Finite!FS_CardinalityType
    <2>3. QED
      BY <1>4, <2>1, <2>2
  <1>5. b \in S /\ Cardinality(Candidates(p)) = Finite!Cardinality(S)
    BY SameCardinality DEF S
  <1>6. Finite!Cardinality(Left(b)) < Finite!Cardinality(S)
    <2>1. Left(b) \in SUBSET S /\ Left(b) # S
      BY <1>2, <1>5
    <2> HIDE DEF Left
    <2>2. QED
      BY <1>1, <1>4, <2>1
  <1>7. ASSUME NEW c \in S, b.stop < c.stop
        PROVE  Finite!Cardinality(Left(b)) < Finite!Cardinality(Left(c))
    <2>1. Left(b) \in SUBSET Left(c) /\ b \in Left(c) /\ b \notin Left(b)
      BY <1>1, <1>5, <1>7
    <2>2. Finite!IsFiniteSet(Left(c)) /\ Left(b) # Left(c)
      BY <1>2, <2>1
    <2> HIDE DEF Left
    <2>3. QED
      BY <1>4, <2>1, <2>2
  <1> HIDE DEF Left
  <1>8. \A c \in S : b.stop < c.stop => Rank(p, b) < Rank(p, c)
    BY <1>3, <1>5, <1>7
  <1>9. QED
    BY <1>2, <1>3, <1>5, <1>6, <1>8 DEF S

LEMMA PrefixMiddleFacts ==
    ASSUME start \in Nat, high \in Nat, start <= high
    PROVE  PrefixMiddle \in start .. high
  <1> DEFINE S == {i \in start .. high : i = start \/ Bytes(<<start, i>>) <= MiddleByte}
             Is(i) == /\ i = start \/ Bytes(<<start, i>>) <= MiddleByte
                      /\ \A j \in i + 1 .. high : ~ (Bytes(<<start, j>>) <= MiddleByte)
  <1>1. S \subseteq 0 .. high /\ start \in S
    OBVIOUS
  <1>2. S # {}
    BY <1>1
  <1>3. PICK m \in S : \A k \in S : k <= m
    <2> HIDE DEF S
    <2>1. QED
      BY <1>1, <1>2, LastExists
  <1>4. m \in start .. high /\ (m = start \/ Bytes(<<start, m>>) <= MiddleByte)
    BY <1>3
  <1>5. ASSUME NEW j \in m + 1 .. high PROVE ~ (Bytes(<<start, j>>) <= MiddleByte)
    <2>1. j \in start .. high /\ ~ (j <= m)
      BY <1>4
    <2>2. j \notin S
      BY <2>1, <1>3
    <2>3. QED
      BY <2>1, <2>2
  <1>6. \E i \in start .. high : Is(i)
    BY <1>4, <1>5
  <1>7. PrefixMiddle = CHOOSE i \in start .. high : Is(i)
    BY DEF PrefixMiddle
  <1> HIDE DEF Is
  <1>8. QED
    BY <1>6, <1>7, Zenon

-----------------------------------------------------------------------------
(* Splitting a unit stays within it.                                          *)

RestIsInUnit ==
    /\ Splitting => start \in Nat /\ units[unit].from <= start
    /\ phase \in {"search", "first", "prefix"} => start < units[unit].stop

\* Candidates exist between the bounds of a search, and what has been found lies
\* in the rest of the unit.
SearchIsInRest ==
    /\ phase = "search" =>
           /\ prio \in 0 .. 2
           /\ low \in Nat /\ high \in Nat
           /\ low <= high /\ high <= Cardinality(Candidates(prio))
    /\ phase = "prefix" => best # {} /\ high \in start .. units[unit].stop
    /\ phase \in {"search", "prefix"} =>
           \A b \in best :
               b.stop \in start .. units[unit].stop /\ b.next \in Nat /\ start <= b.next

LinesInv ==
    /\ ScanIsClear
    /\ UnitsAreClear
    /\ RestIsInUnit
    /\ SearchIsInRest
    /\ LineBreaksAreKept

LEMMA UnitIsClear ==
    ASSUME JoinInv, UnitsAreClear,
           (phase = "unit" /\ unit <= Len(units)) \/ Splitting
    PROVE  /\ unit \in 1 .. Len(units) /\ IsSeq(result)
           /\ Clear(units[unit].from, units[unit].stop)
           /\ units[unit].from \in Nat /\ units[unit].stop \in Nat
  <1>1. unit \in 1 .. Len(units) /\ IsSeq(units) /\ IsSeq(result)
    BY SplitFacts
  <1>2. unit \in DOMAIN units
    BY <1>1, SeqFacts
  <1>3. Clear(units[unit].from, units[unit].stop)
    BY <1>2 DEF UnitsAreClear
  <1>4. QED
    BY <1>1, <1>3 DEF Clear

LEMMA RestFacts ==
    ASSUME JoinInv, LinesInv, Splitting
    PROVE  RestIsBounded /\ units[unit].from <= start
  BY UnitIsClear DEF LinesInv, RestIsInUnit, RestIsBounded

LEMMA CandidatesStay ==
    ASSUME UNCHANGED <<text, units, unit, start>>, NEW p, prio' = p
    PROVE  Candidates(prio)' = Candidates(p)
  BY DEF Candidates, BreakPoints, Runs, DashBreaks, Skip, At

LEMMA UnitsStayClear ==
    ASSUME UnitsAreClear, UNCHANGED <<text, units>>
    PROVE  UnitsAreClear'
  BY DEF UnitsAreClear, Clear, At

LEMMA ResultStaysClear ==
    ASSUME LineBreaksAreKept, UNCHANGED <<text, result>>
    PROVE  LineBreaksAreKept'
  BY DEF LineBreaksAreKept, At

LEMMA LinesInit == Init => LinesInv
  <1> SUFFICES ASSUME Init PROVE LinesInv
    OBVIOUS
  <1>1. /\ phase = "whole" /\ units = <<>> /\ result = <<>> /\ start = 0 /\ index = 0
        /\ text \in Seq(STRING)
    BY SegmenterAssumption DEF Init
  <1>2. ContentEnd \in Nat /\ DOMAIN <<>> = {}
    BY <1>1, ContentEndNat, EmptyIsSeq
  <1>3. Clear(0, 0)
    BY DEF Clear
  <1>4. ScanIsClear
    BY <1>1, <1>2, <1>3 DEF ScanIsClear
  <1>5. UnitsAreClear /\ LineBreaksAreKept
    BY <1>1, <1>2 DEF UnitsAreClear, LineBreaksAreKept
  <1>6. RestIsInUnit /\ SearchIsInRest
    BY <1>1 DEF RestIsInUnit, SearchIsInRest, Splitting
  <1>7. QED
    BY <1>4, <1>5, <1>6 DEF LinesInv

\* The steps of the scan, and those that end the segmentation.
LEMMA ScanKeepsLines ==
    ASSUME JoinInv, LinesInv,
           Whole \/ Scan \/ EndScan \/ Finish \/ RefuseText \/ Refuse
    PROVE  LinesInv'
  <1>1. phase' \notin {"split", "search", "first", "prefix"}
    BY DEF Whole, Scan, EndScan, Finish, RefuseText, Refuse
  <1>2. RestIsInUnit' /\ SearchIsInRest'
    BY <1>1 DEF RestIsInUnit, SearchIsInRest, Splitting
  <1>3. CASE Whole \/ Scan
    <2>1. ScanIsClear' /\ UnitsAreClear'
      BY <1>3, ScanKeepsClear DEF LinesInv
    <2>2. LineBreaksAreKept'
      BY <1>3, ResultStaysClear DEF LinesInv, Whole, Scan
    <2>3. QED
      BY <1>2, <2>1, <2>2 DEF LinesInv
  <1>4. CASE EndScan
    <2>1. UnitsAreClear' /\ LineBreaksAreKept'
      BY <1>4, RemainderIsClear, EndScanIsClear DEF LinesInv
    <2>2. phase' \notin {"whole", "scan"}
      BY <1>4 DEF EndScan
    <2>3. QED
      BY <1>2, <2>1, <2>2 DEF LinesInv, ScanIsClear
  <1>5. CASE Finish \/ RefuseText \/ Refuse
    <2>1. UNCHANGED <<text, units, result>> /\ phase' \notin {"whole", "scan"}
      BY <1>5 DEF Finish, RefuseText, Refuse
    <2>2. UnitsAreClear' /\ LineBreaksAreKept'
      BY <2>1, UnitsStayClear, ResultStaysClear DEF LinesInv
    <2>3. QED
      BY <1>2, <2>1, <2>2 DEF LinesInv, ScanIsClear
  <1>6. QED
    BY <1>3, <1>4, <1>5

LEMMA TakeKeepsLines ==
    ASSUME JoinInv, LinesInv, TakeUnit \/ TakeRest
    PROVE  LinesInv'
  <1>1. /\ (phase = "unit" /\ unit <= Len(units)) \/ Splitting
        /\ UNCHANGED <<text, units>>
        /\ phase' \notin {"whole", "scan"}
    BY DEF TakeUnit, TakeRest, Splitting, Push
  <1>2. UnitsAreClear /\ LineBreaksAreKept
    BY DEF LinesInv
  <1>3. /\ Clear(units[unit].from, units[unit].stop) /\ IsSeq(result)
        /\ units[unit].from \in Nat /\ units[unit].stop \in Nat
    BY <1>1, <1>2, UnitIsClear
  <1>4. UnitsAreClear' /\ ScanIsClear'
    BY <1>1, <1>2, UnitsStayClear DEF ScanIsClear
  <1>5. ASSUME NEW from, Clear(from, units[unit].stop),
               Push(from, units[unit].stop, units[unit].next, "unit")
        PROVE  LinesInv'
    <2>1. LineBreaksAreKept'
      BY <1>1, <1>2, <1>3, <1>5, PushIsClear
    <2>2. phase' \in {"unit", "tooMany"}
      BY <1>5, PushFacts
    <2>3. RestIsInUnit' /\ SearchIsInRest'
      BY <2>2 DEF RestIsInUnit, SearchIsInRest, Splitting
    <2>4. QED
      BY <1>4, <2>1, <2>3 DEF LinesInv
  <1>6. CASE TakeUnit
    <2>1. CASE Push(units[unit].from, units[unit].stop, units[unit].next, "unit")
      BY <1>3, <1>5, <2>1
    <2>2. CASE /\ phase' = "split" /\ start' = units[unit].from
               /\ unit' = unit /\ result' = result
      <3>1. RestIsInUnit'
        BY <1>1, <1>3, <2>2 DEF RestIsInUnit
      <3>2. SearchIsInRest'
        BY <2>2 DEF SearchIsInRest
      <3>3. LineBreaksAreKept'
        BY <1>1, <1>2, <2>2, ResultStaysClear
      <3>4. QED
        BY <1>4, <3>1, <3>2, <3>3 DEF LinesInv
    <2>3. QED
      BY <1>6, <2>1, <2>2 DEF TakeUnit
  <1>7. CASE TakeRest
    <2>1. Splitting /\ start < units[unit].stop /\ start' = start
      BY <1>7 DEF TakeRest, Splitting
    <2>2. RestIsBounded /\ units[unit].from <= start
      BY <2>1, RestFacts
    <2>3. CASE Push(start, units[unit].stop, units[unit].next, "unit")
      <3>1. Clear(start, units[unit].stop)
        BY <1>3, <2>2, ClearWithin DEF RestIsBounded
      <3>2. QED
        BY <1>5, <2>3, <3>1
    <2>4. CASE /\ phase' = "search" /\ prio' = 0 /\ low' = 0
               /\ high' = Cardinality(Candidates(0)) /\ best' = {}
               /\ unit' = unit /\ result' = result
      <3>1. RestIsInUnit'
        BY <1>1, <2>1, <2>2, <2>4 DEF RestIsInUnit, RestIsBounded
      <3>2. Candidates(prio)' = Candidates(0)
        BY <1>1, <2>1, <2>4, CandidatesStay
      <3>3. Cardinality(Candidates(0)) \in Nat
        BY <2>2, CandidatesFacts, Finite!FS_CardinalityType, SameCardinality
      <3>5. high' = Cardinality(Candidates(prio)')
        BY <2>4, <3>2
      <3>6. high' \in Nat /\ high' <= Cardinality(Candidates(prio)')
        BY <2>4, <3>3, <3>5
      <3>7. SearchIsInRest'
        BY <2>4, <3>6 DEF SearchIsInRest
      <3>8. LineBreaksAreKept'
        BY <1>1, <1>2, <2>4, ResultStaysClear
      <3>9. QED
        BY <1>4, <3>1, <3>7, <3>8 DEF LinesInv
    <2>5. QED
      BY <1>7, <2>3, <2>4 DEF TakeRest
  <1>8. QED
    BY <1>6, <1>7

LEMMA SearchKeepsLines ==
    ASSUME JoinInv, LinesInv, Probe \/ NextPriority \/ FirstScalar \/ Bisect
    PROVE  LinesInv'
  <1>1. /\ Splitting /\ UNCHANGED <<text, units, unit, start, result>>
        /\ phase \in {"search", "first", "prefix"}
        /\ phase' \in {"search", "first", "prefix", "unsplittable"}
    BY DEF Probe, NextPriority, FirstScalar, Bisect, Splitting
  <1>2. UnitsAreClear' /\ LineBreaksAreKept'
    BY <1>1, UnitsStayClear, ResultStaysClear DEF LinesInv
  <1>3. /\ RestIsBounded /\ units[unit].from <= start /\ start < units[unit].stop
        /\ start \in Nat /\ units[unit].stop \in Nat
    BY <1>1, RestFacts DEF LinesInv, RestIsInUnit, RestIsBounded
  <1>4. RestIsInUnit' /\ ScanIsClear'
    BY <1>1, <1>3 DEF RestIsInUnit, ScanIsClear
  <1>6. SearchIsInRest
    BY DEF LinesInv
  <1>7. CASE Probe
    <2>1. /\ phase = "search" /\ phase' = "search" /\ prio' = prio /\ low < high
          /\ \/ best' = {Tried} /\ low' = Middle + 1 /\ high' = high
             \/ best' = best /\ low' = low /\ high' = Middle
      BY <1>7 DEF Probe
    <2>2. /\ prio \in 0 .. 2 /\ low \in Nat /\ high \in Nat
          /\ high <= Cardinality(Candidates(prio))
          /\ \A b \in best :
                 b.stop \in start .. units[unit].stop /\ b.next \in Nat /\ start <= b.next
      BY <1>6, <2>1 DEF SearchIsInRest
    <2>3. Middle \in Nat /\ low <= Middle /\ Middle < high
      BY <2>1, <2>2 DEF Middle
    <2>4. Cardinality(Candidates(prio)) \in Nat
      BY <1>3, CandidatesFacts, Finite!FS_CardinalityType, SameCardinality
    <2>5. Tried \in Candidates(prio)
      BY <1>3, <2>2, <2>3, <2>4, CandidateFacts DEF Tried
    <2>6. /\ Tried.stop \in start + 1 .. units[unit].stop
          /\ Tried.next \in start + 1 .. units[unit].stop
      BY <1>3, <2>5, CandidatesFacts
    <2>7. \A b \in best' :
              b.stop \in start .. units[unit].stop /\ b.next \in Nat /\ start <= b.next
      <3>1. /\ Tried.stop \in start .. units[unit].stop
            /\ Tried.next \in Nat /\ start <= Tried.next
        BY <1>3, <2>6
      <3>2. QED
        BY <2>1, <2>2, <3>1
    <2>8. Candidates(prio)' = Candidates(prio)
      BY <1>1, <2>1, CandidatesStay
    <2>9. /\ low' \in Nat /\ high' \in Nat /\ low' <= high'
          /\ high' <= Cardinality(Candidates(prio))
      BY <2>1, <2>2, <2>3, <2>4
    <2>10. SearchIsInRest'
      BY <1>1, <2>1, <2>2, <2>7, <2>8, <2>9 DEF SearchIsInRest
    <2>11. QED
      BY <1>2, <1>4, <2>10 DEF LinesInv
  <1>8. CASE NextPriority
    <2>1. phase = "search" /\ best' = {} /\ low' = 0 /\ prio \in 0 .. 2
      BY <1>6, <1>8 DEF NextPriority, SearchIsInRest
    <2>2. CASE phase' = "first"
      BY <1>2, <1>4, <2>1, <2>2 DEF LinesInv, SearchIsInRest
    <2>3. CASE /\ phase' = "search" /\ prio' = prio + 1 /\ prio < 2
               /\ high' = Cardinality(Candidates(prio + 1))
      <3>1. Cardinality(Candidates(prio + 1)) \in Nat
        BY <1>3, CandidatesFacts, Finite!FS_CardinalityType, SameCardinality
      <3>2. Candidates(prio)' = Candidates(prio + 1)
        BY <1>1, <2>3, CandidatesStay
      <3>3. high' \in Nat /\ high' <= Cardinality(Candidates(prio)')
        BY <2>3, <3>1, <3>2
      <3>4. SearchIsInRest'
        BY <2>1, <2>3, <3>3 DEF SearchIsInRest
      <3>5. QED
        BY <1>2, <1>4, <3>4 DEF LinesInv
    <2>4. QED
      BY <1>8, <2>1, <2>2, <2>3 DEF NextPriority
  <1>9. CASE FirstScalar
    <2>1. CASE phase' = "unsplittable"
      BY <1>2, <1>4, <2>1 DEF LinesInv, SearchIsInRest
    <2>2. CASE phase' = "prefix" /\ high' = units[unit].stop /\ best' = {InWord(start + 1)}
      <3>1. /\ InWord(start + 1).stop = start + 1 /\ InWord(start + 1).next = start + 1
        BY DEF InWord
      <3>2. start + 1 \in start .. units[unit].stop /\ units[unit].stop \in start .. units[unit].stop
        BY <1>3
      <3>3. SearchIsInRest'
        BY <1>1, <1>3, <2>2, <3>1, <3>2 DEF SearchIsInRest
      <3>4. QED
        BY <1>2, <1>4, <3>3 DEF LinesInv
    <2>3. QED
      BY <1>9, <2>1, <2>2 DEF FirstScalar
  <1>10. CASE Bisect
    <2>1. /\ phase = "prefix" /\ phase' = "prefix" /\ PrefixMiddle > Found.stop
          /\ \/ best' = {InWord(PrefixMiddle)} /\ high' = high
             \/ best' = best /\ high' = PrefixMiddle - 1
      BY <1>10 DEF Bisect
    <2>2. /\ best # {} /\ high \in start .. units[unit].stop
          /\ \A b \in best :
                 b.stop \in start .. units[unit].stop /\ b.next \in Nat /\ start <= b.next
      BY <1>6, <2>1 DEF SearchIsInRest
    <2>3. Found.stop \in start .. units[unit].stop
      BY <2>2, FoundFacts
    <2>4. PrefixMiddle \in start .. high
      BY <1>3, <2>2, PrefixMiddleFacts
    <2>5. InWord(PrefixMiddle).stop = PrefixMiddle /\ InWord(PrefixMiddle).next = PrefixMiddle
      BY DEF InWord
    <2>6. high' \in start .. units[unit].stop
      BY <1>3, <2>1, <2>2, <2>3, <2>4
    <2>7. /\ best' # {}
          /\ \A b \in best' :
                 b.stop \in start .. units[unit].stop /\ b.next \in Nat /\ start <= b.next
      <3>1. CASE best' = best
        BY <2>2, <3>1
      <3>2. CASE best' = {InWord(PrefixMiddle)}
        BY <1>3, <2>2, <2>4, <2>5, <3>2
      <3>3. QED
        BY <2>1, <3>1, <3>2
    <2>8. SearchIsInRest'
      BY <1>1, <2>1, <2>6, <2>7 DEF SearchIsInRest
    <2>9. QED
      BY <1>2, <1>4, <2>8 DEF LinesInv
  <1>11. QED
    BY <1>7, <1>8, <1>9, <1>10

LEMMA CutKeepsLines ==
    ASSUME JoinInv, LinesInv, CutAtBreak \/ CutInWord
    PROVE  LinesInv'
  <1>1. /\ Splitting /\ UNCHANGED <<text, units, unit>>
        /\ phase \in {"search", "prefix"}
        /\ Push(start, Found.stop, Found.next, "split") /\ start' = Found.next
        /\ phase = "search" => best # {}
    BY DEF CutAtBreak, CutInWord, Splitting
  <1>2. /\ UnitsAreClear /\ LineBreaksAreKept /\ SearchIsInRest
    BY DEF LinesInv
  <1>3. /\ RestIsBounded /\ units[unit].from <= start
        /\ start \in Nat /\ units[unit].from \in Nat
    BY <1>1, RestFacts DEF RestIsBounded
  <1>4. Clear(units[unit].from, units[unit].stop) /\ IsSeq(result)
    BY <1>1, <1>2, UnitIsClear
  <1>5. /\ Found.stop \in start .. units[unit].stop
        /\ Found.next \in Nat /\ start <= Found.next
    BY <1>1, <1>2, FoundFacts DEF SearchIsInRest
  <1>6. Clear(start, Found.stop)
    BY <1>3, <1>4, <1>5, ClearWithin DEF RestIsBounded
  <1>7. LineBreaksAreKept'
    BY <1>1, <1>2, <1>4, <1>6, PushIsClear
  <1>8. phase' \in {"split", "tooMany"}
    BY <1>1, PushFacts
  <1>9. RestIsInUnit'
    BY <1>1, <1>3, <1>5, <1>8 DEF RestIsInUnit
  <1>10. SearchIsInRest' /\ ScanIsClear'
    BY <1>8 DEF SearchIsInRest, ScanIsClear
  <1>11. UnitsAreClear'
    BY <1>1, <1>2, UnitsStayClear
  <1>12. QED
    BY <1>7, <1>9, <1>10, <1>11 DEF LinesInv

LEMMA LinesNext == JoinInv /\ LinesInv /\ [Next]_vars => LinesInv'
  <1> SUFFICES ASSUME JoinInv, LinesInv, [Next]_vars PROVE LinesInv'
    OBVIOUS
  <1>1. CASE UNCHANGED vars
    <2>1. UNCHANGED <<text, phase, units, index, unit, start, prio, low, high, best, result>>
      BY <1>1 DEF vars, search
    <2>2. UnitsAreClear' /\ LineBreaksAreKept'
      BY <2>1, UnitsStayClear, ResultStaysClear DEF LinesInv
    <2>3. ScanIsClear'
      BY <2>1 DEF LinesInv, ScanIsClear, Clear, ContentEnd, At
    <2>4. Candidates(prio)' = Candidates(prio)
      BY <2>1, CandidatesStay
    <2>5. RestIsInUnit' /\ SearchIsInRest'
      BY <2>1, <2>4 DEF LinesInv, RestIsInUnit, SearchIsInRest, Splitting
    <2>6. QED
      BY <2>2, <2>3, <2>5 DEF LinesInv
  <1>2. CASE Ended /\ UNCHANGED vars
    BY <1>1, <1>2
  <1>3. QED
    BY <1>1, <1>2, ScanKeepsLines, TakeKeepsLines, SearchKeepsLines, CutKeepsLines
       DEF Next, Step

\* For every text, tokenizer and limit: the model, which normalises blanks,
\* never sees a line break.
THEOREM LineBreaksStayOutside == Spec => []LineBreaksAreKept
  <1>1. Init => JoinInv /\ LinesInv
    BY JoinInit, LinesInit
  <1>2. JoinInv /\ LinesInv /\ [Next]_vars => (JoinInv /\ LinesInv)'
    BY JoinNext, LinesNext
  <1>3. LinesInv => LineBreaksAreKept
    BY DEF LinesInv
  <1>4. QED
    BY <1>1, <1>2, <1>3, PTL DEF Spec

-----------------------------------------------------------------------------
(* Every step goes on, and cuts are the rightmost that fit: what the units and *)
(* the searches keep.                                                         *)

\* A unit ends behind its content and behind where it begins.
Advances(u) ==
    /\ u.from \in Nat /\ u.stop \in Nat /\ u.next \in Nat
    /\ u.from <= u.stop /\ u.stop <= u.next /\ u.from < u.next /\ u.next <= Len(text)

UnitsAdvance == \A k \in DOMAIN units : Advances(units[k])

\* The rest of a unit is not empty, and a search begins when it does not fit.
RestRemains ==
    /\ Splitting => start < units[unit].stop
    /\ phase \in {"search", "first", "prefix"} => ~ Fit(start, units[unit].stop)

\* What has been found is what the lower bound has passed last.
FoundIsLast ==
    /\ phase = "search" =>
           \/ best = {} /\ low = 0
           \/ \E b \in Candidates(prio) : best = {b} /\ Rank(prio, b) = low - 1
    /\ phase = "prefix" =>
           best = {InWord(low)} /\ low \in start + 1 .. units[unit].stop

NoneFits(p) == \A b \in Candidates(p) : ~ Fit(start, b.stop)

\* Where counting is monotone, what a search has excluded does not fit.
PassedDoNotFit ==
    Splitting /\ Monotone(units[unit]) =>
        /\ phase = "search" =>
               /\ \A q \in 0 .. prio - 1 : NoneFits(q)
               /\ \A b \in Candidates(prio) : Rank(prio, b) >= high => ~ Fit(start, b.stop)
        /\ phase \in {"first", "prefix"} => \A q \in 0 .. 2 : NoneFits(q)

SplitInv ==
    /\ text \in Texts
    /\ UnitsAdvance
    /\ RestRemains
    /\ FoundIsLast
    /\ PassedDoNotFit

LEMMA LookAdvances ==
    ASSUME text \in Seq(STRING), NEW i \in Nat, i < ContentEnd
    PROVE  /\ Look(i).next \in Nat /\ i < Look(i).next /\ Look(i).next <= ContentEnd
           /\ Look(i).cut => Look(i).stop \in i .. Look(i).next
  <1>1. ContentEnd \in Nat
    BY ContentEndNat
  <1>2. Look(i).next \in i .. ContentEnd /\ (Look(i).cut => Look(i).stop \in i .. Look(i).next)
    BY LookFacts
  <1>3. ASSUME NEW S, At(i) \in S
        PROVE  /\ Skip(S, i, ContentEnd) \in Nat
               /\ i < Skip(S, i, ContentEnd) /\ Skip(S, i, ContentEnd) <= ContentEnd
    <2>1. /\ Skip(S, i, ContentEnd) \in i .. ContentEnd
          /\ Skip(S, i, ContentEnd) = ContentEnd \/ At(Skip(S, i, ContentEnd)) \notin S
      BY <1>1, SkipFacts
    <2>2. Skip(S, i, ContentEnd) # i
      BY <1>1, <1>3, <2>1
    <2>3. QED
      BY <1>1, <2>1, <2>2
  <1>4. Look(i).next # i
    <2>1. CASE At(i) \in Terminators
      <3> DEFINE marks == Skip(Terminators, i, ContentEnd)
                 stop == Skip(Closing, marks, ContentEnd)
                 after == Skip(Blanks, stop, ContentEnd)
      <3>1. marks \in Nat /\ i < marks /\ marks <= ContentEnd
        BY <1>3, <2>1
      <3> HIDE DEF marks
      <3>2. stop \in marks .. ContentEnd
        BY <1>1, <3>1, SkipFacts
      <3> HIDE DEF stop
      <3>3. after \in stop .. ContentEnd
        BY <1>1, <3>1, <3>2, SkipFacts
      <3> HIDE DEF after
      <3>4. Look(i) = AtTerminator(i)
        <4>1. At(i) \notin Blanks
          BY <2>1 DEF Terminators, Blanks
        <4>2. QED
          BY <2>1, <4>1 DEF Look
      <3>5. Look(i).next = after \/ Look(i).next = marks
        BY <3>4 DEF AtTerminator, marks, stop, after
      <3>6. QED
        BY <1>1, <3>1, <3>2, <3>3, <3>5
    <2>2. CASE At(i) \notin Terminators /\ At(i) \in Blanks
      <3>1. Look(i).next = Skip(Blanks, i, ContentEnd)
        BY <2>2 DEF Look, AtBlank
      <3>2. QED
        BY <1>3, <2>2, <3>1
    <2>3. CASE At(i) \notin Terminators /\ At(i) \notin Blanks
      <3>1. Look(i) = [cut |-> FALSE, stop |-> i, next |-> i + 1]
        BY <2>3 DEF Look
      <3>2. QED
        BY <3>1
    <2>4. QED
      BY <2>1, <2>2, <2>3
  <1>5. QED
    BY <1>1, <1>2, <1>4

LEMMA AppendAdvances ==
    ASSUME IsSeq(units), UnitsAdvance, text' = text,
           NEW from, NEW stop, NEW next, Advances(Unit(from, stop, next)),
           units' = Append(units, Unit(from, stop, next))
    PROVE  UnitsAdvance'
  <1>1. /\ IsSeq(units')
        /\ \A k \in 1 .. Len(units) : units'[k] = units[k]
        /\ units'[Len(units) + 1] = Unit(from, stop, next)
        /\ Len(units') = Len(units) + 1
    BY AppendFacts
  <1>2. /\ DOMAIN units' = 1 .. Len(units) + 1
        /\ DOMAIN units = 1 .. Len(units)
        /\ Len(units) \in Nat
    BY <1>1, SeqFacts
  <1>3. ASSUME NEW k \in DOMAIN units' PROVE Advances(units'[k])
    <2>1. CASE k \in DOMAIN units
      BY <1>1, <1>2, <2>1 DEF UnitsAdvance
    <2>2. CASE k = Len(units) + 1
      BY <1>1, <2>2
    <2>3. QED
      BY <1>2, <2>1, <2>2
  <1>4. QED
    BY <1>3 DEF UnitsAdvance, Advances

LEMMA UnitsAdvanceStep ==
    ASSUME JoinInv, LinesInv, SplitInv, [Next]_vars
    PROVE  UnitsAdvance'
  <1>1. text \in Seq(STRING) /\ IsSeq(units) /\ UnitsAdvance /\ ScanIsClear
    BY DEF JoinInv, LinesInv, SplitInv
  <1>2. ContentEnd \in Nat /\ ContentEnd <= Len(text) /\ Len(text) \in Nat
    BY <1>1, ContentFacts
  <1>3. CASE UNCHANGED <<text, units>>
    BY <1>1, <1>3 DEF UnitsAdvance, Advances
  <1>4. CASE Scan
    <2>1. /\ text' = text /\ phase = "scan" /\ index < ContentEnd
          /\ index \in 0 .. ContentEnd /\ start \in 0 .. index
      BY <1>1, <1>4 DEF Scan, ScanIsClear
    <2>2. CASE units' = units
      BY <1>3, <2>1, <2>2
    <2>3. CASE Look(index).cut /\ units' = Append(units, Unit(start, Look(index).stop, Look(index).next))
      <3>1. /\ Look(index).next \in Nat /\ index < Look(index).next /\ Look(index).next <= ContentEnd
            /\ Look(index).stop \in index .. Look(index).next
        BY <1>1, <1>2, <2>1, <2>3, LookAdvances
      <3> DEFINE stop == Look(index).stop
                 next == Look(index).next
      <3>2. Advances(Unit(start, stop, next))
        <4> HIDE DEF stop, next
        <4>1. next \in Nat /\ index < next /\ next <= ContentEnd /\ stop \in index .. next
          BY <3>1 DEF stop, next
        <4>2. QED
          BY <1>2, <2>1, <4>1 DEF Advances, Unit
      <3>3. QED
        BY <1>1, <2>1, <2>3, <3>2, AppendAdvances
    <2>4. QED
      BY <1>4, <2>2, <2>3 DEF Scan
  <1>5. CASE EndScan
    <2>1. /\ text' = text /\ units' = Remainder /\ phase = "scan"
          /\ index \in 0 .. ContentEnd /\ start \in 0 .. index
      BY <1>1, <1>5 DEF EndScan, ScanIsClear
    <2>2. CASE start < ContentEnd
      <3>1. units' = Append(units, Unit(start, ContentEnd, Len(text)))
        BY <2>1, <2>2 DEF Remainder
      <3>2. Advances(Unit(start, ContentEnd, Len(text)))
        BY <1>2, <2>1, <2>2 DEF Advances, Unit
      <3>3. QED
        BY <1>1, <2>1, <3>1, <3>2, AppendAdvances
    <2>3. CASE ~ (start < ContentEnd)
      <3>1. units' = [k \in DOMAIN units |->
                         IF k = Len(units) THEN Unit(units[k].from, units[k].stop, Len(text))
                         ELSE units[k]]
        BY <2>1, <2>3 DEF Remainder
      <3>2. ASSUME NEW k \in DOMAIN units PROVE Advances(units'[k])
        <4>1. Advances(units[k])
          BY <1>1 DEF UnitsAdvance
        <4>2. Advances(Unit(units[k].from, units[k].stop, Len(text)))
          BY <1>2, <4>1 DEF Advances, Unit
        <4>3. QED
          BY <3>1, <4>1, <4>2
      <3>3. DOMAIN units' = DOMAIN units
        BY <3>1
      <3>4. QED
        BY <2>1, <3>2, <3>3 DEF UnitsAdvance, Advances
    <2>4. QED
      BY <2>2, <2>3
  <1>6. QED
    BY <1>3, <1>4, <1>5
       DEF Next, Step, Whole, TakeUnit, Finish, TakeRest, Probe, NextPriority, CutAtBreak,
           FirstScalar, Bisect, CutInWord, RefuseText, Refuse, vars


LEMMA EmptyFits ==
    ASSUME text \in Seq(STRING), NEW n \in Nat
    PROVE  Fit(n, n)
  <1>1. Between(n, n) = <<>>
    BY DEF Between
  <1>2. QED
    BY <1>1, SegmenterAssumption DEF Fit, Pieces

LEMMA PiecesAreNumbers ==
    ASSUME text \in Texts, NEW i \in 0 .. Len(text), NEW j \in 0 .. Len(text)
    PROVE  Pieces(<<i, j>>) \in Nat
  BY SegmenterAssumption DEF Pieces, Between

LEMMA UnitFacts ==
    ASSUME JoinInv, UnitsAdvance, (phase = "unit" /\ unit <= Len(units)) \/ Splitting
    PROVE  unit \in 1 .. Len(units) /\ Advances(units[unit])
  <1>1. unit \in 1 .. Len(units) /\ IsSeq(units)
    BY SplitFacts
  <1>2. unit \in DOMAIN units
    BY <1>1, SeqFacts
  <1>3. QED
    BY <1>1, <1>2 DEF UnitsAdvance

\* What is said of the rest of a unit stays, where nothing is cut.
LEMMA RestStays ==
    ASSUME UNCHANGED <<text, units, unit, start>>
    PROVE  /\ \A p : Candidates(p)' = Candidates(p)
           /\ \A p, b : Rank(p, b)' = Rank(p, b)
           /\ \A i, j : Fit(i, j)' <=> Fit(i, j)
           /\ \A p : NoneFits(p)' <=> NoneFits(p)
           /\ Monotone(units[unit])' <=> Monotone(units[unit])
  <1>1. \A p : Candidates(p)' = Candidates(p)
    BY DEF Candidates, BreakPoints, Runs, DashBreaks, Skip, At
  <1>2. \A p, b : Rank(p, b)' = Rank(p, b)
    BY <1>1 DEF Rank
  <1>3. \A i, j : Fit(i, j)' <=> Fit(i, j)
    BY DEF Fit, Pieces, Between
  <1>4. \A p : NoneFits(p)' <=> NoneFits(p)
    BY <1>1, <1>3 DEF NoneFits
  <1>5. Monotone(units[unit])' <=> Monotone(units[unit])
    BY DEF Monotone, Pieces, Between
  <1>6. QED
    BY <1>1, <1>2, <1>3, <1>4, <1>5

LEMMA OutsideSplitting ==
    ASSUME ~ Splitting'
    PROVE  RestRemains' /\ FoundIsLast' /\ PassedDoNotFit'
  BY DEF RestRemains, FoundIsLast, PassedDoNotFit, Splitting

\* A unit that does not fit is not empty, nor is the search for a cut in it
\* ahead of its candidates.
LEMMA TakeSplits ==
    ASSUME JoinInv, LinesInv, SplitInv, TakeUnit \/ TakeRest
    PROVE  RestRemains' /\ FoundIsLast' /\ PassedDoNotFit'
  <1>1. (phase = "unit" /\ unit <= Len(units)) \/ Splitting
    BY DEF TakeUnit, TakeRest, Splitting
  <1>2. /\ text \in Seq(STRING) /\ UnitsAdvance /\ RestRemains
        /\ UNCHANGED <<text, units>>
    BY DEF JoinInv, SplitInv, TakeUnit, TakeRest
  <1>3. Advances(units[unit])
    BY <1>1, <1>2, UnitFacts
  <1>4. CASE phase' \in {"unit", "tooMany"}
    BY <1>4, OutsideSplitting DEF Splitting
  <1>5. CASE phase' = "split"
    <2>1. /\ phase = "unit" /\ TooLong(Needed) /\ unit' = unit /\ start' = units[unit].from
      BY <1>5 DEF TakeUnit, TakeRest, Push
    <2>2. ~ Fit(units[unit].from, units[unit].stop)
      <3>1. Pieces(<<units[unit].from, units[unit].stop>>) > MaxPieces
        BY <2>1, NeededFacts DEF TooLong
      <3>2. units[unit].from \in 0 .. Len(text) /\ units[unit].stop \in 0 .. Len(text)
        BY <1>2, <1>3 DEF Advances
      <3>3. Pieces(<<units[unit].from, units[unit].stop>>) \in Nat
        BY <3>2, PiecesAreNumbers DEF SplitInv
      <3>4. QED
        BY <3>1, <3>3, SegmenterAssumption DEF Fit
    <2>3. units[unit].from # units[unit].stop
      BY <1>2, <1>3, <2>2, EmptyFits DEF Advances
    <2>4. start' < units'[unit'].stop
      BY <1>2, <1>3, <2>1, <2>3 DEF Advances
    <2>5. QED
      BY <1>5, <2>4 DEF RestRemains, FoundIsLast, PassedDoNotFit
  <1>6. CASE phase' = "search"
    <2>1. /\ phase = "split" /\ TooLong(Needed) /\ UNCHANGED <<unit, start>>
          /\ prio' = 0 /\ low' = 0 /\ high' = Cardinality(Candidates(0)) /\ best' = {}
          /\ start < units[unit].stop
      BY <1>6 DEF TakeUnit, TakeRest, Push
    <2>2. RestIsBounded
      BY <2>1, RestFacts DEF Splitting
    <2>3. /\ \A p : Candidates(p)' = Candidates(p)
          /\ \A p, b : Rank(p, b)' = Rank(p, b)
          /\ \A i, j : Fit(i, j)' <=> Fit(i, j)
      BY <1>2, <2>1, RestStays
    <2>4. ~ Fit(start, units[unit].stop)
      <3>1. Pieces(<<start, units[unit].stop>>) > MaxPieces
        BY <2>1, NeededFacts DEF TooLong
      <3>2. start \in 0 .. Len(text) /\ units[unit].stop \in 0 .. Len(text)
        BY <1>2, <1>3, <2>1, <2>2 DEF Advances, RestIsBounded
      <3>3. Pieces(<<start, units[unit].stop>>) \in Nat
        BY <3>2, PiecesAreNumbers DEF SplitInv
      <3>4. QED
        BY <3>1, <3>3, SegmenterAssumption DEF Fit
    <2>5. RestRemains'
      BY <1>2, <2>1, <2>3, <2>4 DEF RestRemains
    <2>6. FoundIsLast'
      BY <1>6, <2>1 DEF FoundIsLast
    <2>7. ASSUME NEW b \in Candidates(0) PROVE ~ (Rank(0, b) >= Cardinality(Candidates(0)))
      <3>1. Rank(0, b) \in Nat /\ Rank(0, b) < Cardinality(Candidates(0))
        BY <2>2, RankFacts
      <3>2. Cardinality(Candidates(0)) \in Nat
        BY <2>2, CandidatesFacts, Finite!FS_CardinalityType, SameCardinality
      <3>3. QED
        BY <3>1, <3>2
    <2>8. PassedDoNotFit'
      <3>1. \A q \in 0 .. prio' - 1 : NoneFits(q)'
        BY <2>1
      <3>2. \A b \in Candidates(prio)' : ~ (Rank(prio, b)' >= high')
        <4>1. Candidates(prio)' = Candidates(0)
          BY <1>2, <2>1, CandidatesStay
        <4>2. \A b : Rank(prio, b)' = Rank(0, b)
          BY <1>2, <2>1, <4>1 DEF Rank
        <4>3. QED
          BY <2>1, <2>7, <4>1, <4>2
      <3>3. QED
        BY <1>6, <3>1, <3>2 DEF PassedDoNotFit
    <2>9. QED
      BY <2>5, <2>6, <2>8
  <1>7. QED
    BY <1>4, <1>5, <1>6 DEF TakeUnit, TakeRest, Push


\* Where counting is monotone, what reaches as far as what does not fit does not
\* fit either.
LEMMA BeyondDoesNotFit ==
    ASSUME JoinInv, LinesInv, SplitInv, Splitting, Monotone(units[unit]),
           NEW j \in start .. units[unit].stop, ~ Fit(start, j),
           NEW k \in j .. units[unit].stop
    PROVE  ~ Fit(start, k)
  <1> DEFINE u == units[unit]
  <1>1. /\ u.from \in Nat /\ u.stop \in Nat /\ u.stop <= Len(text) /\ Len(text) \in Nat
        /\ start \in Nat /\ u.from <= start
    <2>1. Advances(u) /\ RestIsBounded /\ u.from <= start
      BY UnitFacts, RestFacts DEF SplitInv
    <2>2. text \in Seq(STRING)
      BY DEF JoinInv
    <2>3. QED
      BY <2>1, <2>2 DEF Advances, RestIsBounded
  <1> HIDE DEF u
  <1>2. start \in u.from .. u.stop /\ j \in start .. u.stop /\ k \in j .. u.stop
    BY <1>1 DEF u
  <1>3. Pieces(<<start, j>>) <= Pieces(<<start, k>>)
    BY <1>2 DEF Monotone, u
  <1>4. Pieces(<<start, j>>) \in Nat /\ Pieces(<<start, k>>) \in Nat
    BY <1>1, <1>2, PiecesAreNumbers DEF SplitInv
  <1>5. QED
    BY <1>3, <1>4, SegmenterAssumption DEF Fit

LEMMA ProbeSplits ==
    ASSUME JoinInv, LinesInv, SplitInv, Probe
    PROVE  FoundIsLast' /\ PassedDoNotFit'
  <1>1. /\ Splitting /\ UNCHANGED <<text, units, unit, start, prio>>
        /\ phase = "search" /\ phase' = "search" /\ low < high
        /\ \/ best' = {Tried} /\ low' = Middle + 1 /\ high' = high
           \/ TooLong(Needed) /\ best' = best /\ low' = low /\ high' = Middle
    BY DEF Probe, Splitting
  <1>2. RestIsBounded
    BY <1>1, RestFacts
  <1>3. /\ prio \in 0 .. 2 /\ low \in Nat /\ high \in Nat
        /\ high <= Cardinality(Candidates(prio))
    BY <1>1 DEF LinesInv, SearchIsInRest
  <1>4. Cardinality(Candidates(prio)) \in Nat
    BY <1>2, CandidatesFacts, Finite!FS_CardinalityType, SameCardinality
  <1>5. Middle \in Nat /\ low <= Middle /\ Middle < high
    BY <1>1, <1>3 DEF Middle
  <1>6. Tried \in Candidates(prio) /\ Rank(prio, Tried) = Middle
    BY <1>2, <1>3, <1>4, <1>5, CandidateFacts DEF Tried
  <1>7. /\ Candidates(prio)' = Candidates(prio)
        /\ \A b : Rank(prio, b)' = Rank(prio, b)
        /\ \A i, j : Fit(i, j)' <=> Fit(i, j)
        /\ \A p : NoneFits(p)' <=> NoneFits(p)
        /\ Monotone(units[unit])' <=> Monotone(units[unit])
    <2>1. Candidates(prio)' = Candidates(prio)
      BY <1>1, CandidatesStay
    <2>2. \A b : Rank(prio, b)' = Rank(prio, b)
      BY <2>1 DEF Rank
    <2>3. QED
      BY <1>1, <2>1, <2>2, RestStays
  <1>8. FoundIsLast'
    <2>1. \/ best' = {} /\ low' = 0
          \/ \E b \in Candidates(prio) : best' = {b} /\ Rank(prio, b) = low' - 1
      <3>1. CASE best' = {Tried} /\ low' = Middle + 1
        BY <1>5, <1>6, <3>1
      <3>2. CASE best' = best /\ low' = low
        BY <1>1, <3>2 DEF SplitInv, FoundIsLast
      <3>3. QED
        BY <1>1, <3>1, <3>2
    <2>2. QED
      BY <1>1, <1>7, <2>1 DEF FoundIsLast
  <1>9. ASSUME Monotone(units[unit]), NEW b \in Candidates(prio), Rank(prio, b) >= high'
        PROVE  ~ Fit(start, b.stop)
    <2>1. CASE high' = high
      BY <1>1, <1>9, <2>1 DEF SplitInv, PassedDoNotFit
    <2>2. CASE TooLong(Needed) /\ high' = Middle
      <3>1. /\ Tried.stop \in start + 1 .. units[unit].stop
            /\ b.stop \in start + 1 .. units[unit].stop
        BY <1>2, <1>6, CandidatesFacts
      <3>2. start \in Nat /\ units[unit].stop \in Nat
        BY <1>2 DEF RestIsBounded
      <3>3. ~ (b.stop < Tried.stop)
        <4>1. b.stop < Tried.stop => Rank(prio, b) < Rank(prio, Tried)
          BY <1>2, <1>6, RankFacts
        <4>2. Rank(prio, b) \in Nat
          BY <1>2, RankFacts
        <4>3. QED
          BY <1>5, <1>6, <1>9, <2>2, <4>1, <4>2
      <3>4. ~ Fit(start, Tried.stop)
        <4>1. Pieces(<<start, Tried.stop>>) > MaxPieces
          BY <1>1, <2>2, NeededFacts DEF TooLong
        <4>2. start \in 0 .. Len(text) /\ Tried.stop \in 0 .. Len(text)
          <5>1. Advances(units[unit]) /\ text \in Seq(STRING)
            BY <1>1, UnitFacts DEF SplitInv, JoinInv
          <5>2. QED
            BY <3>1, <3>2, <5>1 DEF Advances
        <4>3. Pieces(<<start, Tried.stop>>) \in Nat
          BY <4>2, PiecesAreNumbers DEF SplitInv
        <4>4. QED
          BY <4>1, <4>3, SegmenterAssumption DEF Fit
      <3>5. Tried.stop \in start .. units[unit].stop /\ b.stop \in Tried.stop .. units[unit].stop
        BY <3>1, <3>2, <3>3
      <3>6. QED
        BY <1>1, <1>9, <3>4, <3>5, BeyondDoesNotFit
    <2>3. QED
      BY <1>1, <2>1, <2>2
  <1>10. Monotone(units[unit]) => \A q \in 0 .. prio - 1 : NoneFits(q)
    BY <1>1 DEF SplitInv, PassedDoNotFit
  <1>11. PassedDoNotFit'
    <2>1. Monotone(units[unit])' =>
              /\ \A q \in 0 .. prio' - 1 : NoneFits(q)'
              /\ \A b \in Candidates(prio)' : Rank(prio, b)' >= high' => ~ Fit(start, b.stop)'
      BY <1>1, <1>7, <1>9, <1>10
    <2>2. QED
      BY <1>1, <2>1 DEF PassedDoNotFit
  <1>12. QED
    BY <1>8, <1>11

LEMMA PrioritySplits ==
    ASSUME JoinInv, LinesInv, SplitInv, NextPriority
    PROVE  FoundIsLast' /\ PassedDoNotFit'
  <1>1. /\ Splitting /\ UNCHANGED <<text, units, unit, start>>
        /\ phase = "search" /\ low = high /\ best = {} /\ best' = {} /\ low' = 0
        /\ \/ prio < 2 /\ prio' = prio + 1 /\ phase' = "search"
              /\ high' = Cardinality(Candidates(prio + 1))
           \/ prio = 2 /\ phase' = "first"
    BY DEF NextPriority, Splitting
  <1>2. RestIsBounded
    BY <1>1, RestFacts
  <1>3. prio \in 0 .. 2
    BY <1>1 DEF LinesInv, SearchIsInRest
  <1>4. high = 0
    BY <1>1 DEF SplitInv, FoundIsLast
  <1>5. /\ \A p : NoneFits(p)' <=> NoneFits(p)
        /\ Monotone(units[unit])' <=> Monotone(units[unit])
    BY <1>1, RestStays
  <1>6. ASSUME Monotone(units[unit]), NEW q \in 0 .. prio PROVE NoneFits(q)
    <2>1. CASE q = prio
      <3>1. ASSUME NEW b \in Candidates(prio) PROVE ~ Fit(start, b.stop)
        <4>1. Rank(prio, b) \in Nat
          BY <1>2, RankFacts
        <4>2. Rank(prio, b) >= high
          BY <1>4, <4>1
        <4>3. QED
          BY <1>1, <1>6, <4>2 DEF SplitInv, PassedDoNotFit
      <3>2. QED
        BY <2>1, <3>1 DEF NoneFits
    <2>2. CASE q \in 0 .. prio - 1
      BY <1>1, <1>6, <2>2 DEF SplitInv, PassedDoNotFit
    <2>3. QED
      BY <1>3, <2>1, <2>2
  <1>7. CASE phase' = "first"
    <2>1. FoundIsLast'
      BY <1>7 DEF FoundIsLast
    <2>2. Monotone(units[unit])' => \A q \in 0 .. 2 : NoneFits(q)'
      BY <1>1, <1>5, <1>6, <1>7
    <2>3. QED
      BY <1>7, <2>1, <2>2 DEF PassedDoNotFit
  <1>8. CASE prio' = prio + 1 /\ phase' = "search" /\ high' = Cardinality(Candidates(prio + 1))
    <2>1. FoundIsLast'
      BY <1>1, <1>8 DEF FoundIsLast
    <2>2. Candidates(prio)' = Candidates(prio + 1)
      BY <1>1, <1>8, CandidatesStay
    <2>3. \A b : Rank(prio, b)' = Rank(prio + 1, b)
      BY <2>2 DEF Rank
    <2>4. ASSUME NEW b \in Candidates(prio + 1) PROVE ~ (Rank(prio + 1, b) >= high')
      <3>1. Rank(prio + 1, b) \in Nat /\ Rank(prio + 1, b) < Cardinality(Candidates(prio + 1))
        BY <1>2, RankFacts
      <3>2. Cardinality(Candidates(prio + 1)) \in Nat
        BY <1>2, CandidatesFacts, Finite!FS_CardinalityType, SameCardinality
      <3>3. QED
        BY <1>8, <3>1, <3>2
    <2>5. \A b \in Candidates(prio)' : ~ (Rank(prio, b)' >= high')
      BY <2>2, <2>3, <2>4
    <2>6. Monotone(units[unit])' => \A q \in 0 .. prio' - 1 : NoneFits(q)'
      BY <1>3, <1>5, <1>6, <1>8
    <2>7. PassedDoNotFit'
      BY <1>8, <2>5, <2>6 DEF PassedDoNotFit
    <2>8. QED
      BY <2>1, <2>7
  <1>9. QED
    BY <1>1, <1>7, <1>8

LEMMA PrefixSplits ==
    ASSUME JoinInv, LinesInv, SplitInv, FirstScalar \/ Bisect
    PROVE  FoundIsLast' /\ PassedDoNotFit'
  <1>1. /\ Splitting /\ UNCHANGED <<text, units, unit, start>>
        /\ phase \in {"first", "prefix"} /\ phase' \in {"prefix", "unsplittable"}
        /\ phase' = "prefix" =>
               \/ best' = {InWord(start + 1)} /\ low' = start + 1
               \/ /\ phase = "prefix" /\ PrefixMiddle > Found.stop
                  /\ \/ best' = {InWord(PrefixMiddle)} /\ low' = PrefixMiddle
                     \/ best' = best /\ low' = low
    BY DEF FirstScalar, Bisect, Splitting
  <1>2. /\ start < units[unit].stop /\ start \in Nat /\ units[unit].stop \in Nat
    BY <1>1, RestFacts DEF SplitInv, RestRemains, RestIsBounded
  <1>3. PassedDoNotFit'
    <2>1. /\ \A p : NoneFits(p)' <=> NoneFits(p)
          /\ Monotone(units[unit])' <=> Monotone(units[unit])
      BY <1>1, RestStays
    <2>2. Monotone(units[unit]) => \A q \in 0 .. 2 : NoneFits(q)
      BY <1>1 DEF SplitInv, PassedDoNotFit
    <2>3. QED
      BY <1>1, <2>1, <2>2 DEF PassedDoNotFit
  <1>4. FoundIsLast'
    <2>1. CASE phase' = "unsplittable"
      BY <2>1 DEF FoundIsLast
    <2>2. CASE phase' = "prefix" /\ best' = {InWord(start + 1)} /\ low' = start + 1
      BY <1>1, <1>2, <2>2 DEF FoundIsLast, InWord
    <2>3. CASE /\ phase' = "prefix" /\ phase = "prefix" /\ PrefixMiddle > Found.stop
               /\ best' = {InWord(PrefixMiddle)} /\ low' = PrefixMiddle
      <3>1. best = {InWord(low)} /\ low \in start + 1 .. units[unit].stop
        BY <2>3 DEF SplitInv, FoundIsLast
      <3>2. Found.stop = low
        BY <3>1, FoundFacts DEF InWord
      <3>3. high \in start .. units[unit].stop
        BY <2>3 DEF LinesInv, SearchIsInRest
      <3>4. PrefixMiddle \in start .. high
        BY <1>2, <3>3, PrefixMiddleFacts
      <3>5. PrefixMiddle \in start + 1 .. units[unit].stop
        BY <1>2, <2>3, <3>1, <3>2, <3>3, <3>4
      <3>6. QED
        BY <1>1, <2>3, <3>5 DEF FoundIsLast, InWord
    <2>4. CASE phase' = "prefix" /\ phase = "prefix" /\ best' = best /\ low' = low
      BY <1>1, <2>4 DEF SplitInv, FoundIsLast, InWord
    <2>5. QED
      BY <1>1, <2>1, <2>2, <2>3, <2>4
  <1>5. QED
    BY <1>3, <1>4


\* What a cut takes is not all of the rest, but some of it.
LEMMA FoundWithin ==
    ASSUME FitInv, JoinInv, LinesInv, SplitInv, CutAtBreak \/ CutInWord
    PROVE  /\ start \in Nat /\ Found.next \in Nat
           /\ start < Found.next /\ Found.next < units[unit].stop
           /\ Found.stop \in start .. units[unit].stop
           /\ phase = "search" =>
                  /\ Found \in Candidates(prio) /\ Rank(prio, Found) = low - 1
                  /\ Fit(start, Found.stop)
           /\ phase = "prefix" => Found.next = Found.stop
  <1>1. /\ Splitting /\ phase \in {"search", "prefix"}
        /\ phase = "search" => best # {}
    BY DEF CutAtBreak, CutInWord, Splitting
  <1>2. RestIsBounded /\ start \in Nat /\ units[unit].stop \in Nat
    BY <1>1, RestFacts DEF RestIsBounded
  <1>3. CASE phase = "search"
    <2>1. PICK b \in Candidates(prio) : best = {b} /\ Rank(prio, b) = low - 1
      BY <1>1, <1>3 DEF SplitInv, FoundIsLast
    <2>2. Found = b
      BY <2>1, FoundFacts
    <2>3. b.next < units[unit].stop
      BY DEF Candidates
    <2>4. /\ b.stop \in start + 1 .. units[unit].stop
          /\ b.next \in start + 1 .. units[unit].stop
      BY <1>2, CandidatesFacts
    <2>5. Fit(start, b.stop)
      BY <1>3, <2>1 DEF FitInv
    <2>6. QED
      BY <1>2, <1>3, <2>1, <2>2, <2>3, <2>4, <2>5
  <1>4. CASE phase = "prefix"
    <2>1. best = {InWord(low)} /\ low \in start + 1 .. units[unit].stop
      BY <1>4 DEF SplitInv, FoundIsLast
    <2>2. Found.stop = low /\ Found.next = low
      BY <2>1, FoundFacts DEF InWord
    <2>3. Fit(start, low)
      BY <1>4, <2>1, <2>2, FoundFacts DEF FitInv
    <2>4. ~ Fit(start, units[unit].stop)
      BY <1>4 DEF SplitInv, RestRemains
    <2>5. low # units[unit].stop
      BY <2>3, <2>4
    <2>6. QED
      BY <1>2, <1>4, <2>1, <2>2, <2>5
  <1>5. QED
    BY <1>1, <1>3, <1>4

LEMMA CutSplits ==
    ASSUME FitInv, JoinInv, LinesInv, SplitInv, CutAtBreak \/ CutInWord
    PROVE  RestRemains' /\ FoundIsLast' /\ PassedDoNotFit'
  <1>1. /\ UNCHANGED <<text, units, unit>> /\ start' = Found.next
        /\ Push(start, Found.stop, Found.next, "split")
    BY DEF CutAtBreak, CutInWord
  <1>2. phase' \in {"split", "tooMany"}
    BY <1>1, PushFacts
  <1>3. start' < units'[unit'].stop
    BY <1>1, FoundWithin
  <1>4. QED
    BY <1>2, <1>3 DEF RestRemains, FoundIsLast, PassedDoNotFit

LEMMA SplitNext ==
    FitInv /\ JoinInv /\ LinesInv /\ SplitInv /\ [Next]_vars => SplitInv'
  <1> SUFFICES ASSUME FitInv, JoinInv, LinesInv, SplitInv, [Next]_vars PROVE SplitInv'
    OBVIOUS
  <1>1. text' = text
    BY DEF Next, Step, Whole, Scan, EndScan, TakeUnit, Finish, TakeRest, Probe, NextPriority,
           CutAtBreak, FirstScalar, Bisect, CutInWord, RefuseText, Refuse, vars
  <1>2. text' \in Texts /\ UnitsAdvance'
    BY <1>1, UnitsAdvanceStep DEF SplitInv
  <1>3. RestRemains' /\ FoundIsLast' /\ PassedDoNotFit'
    <2>1. CASE UNCHANGED vars
      <3>1. UNCHANGED <<text, phase, units, unit, start, prio, low, high, best>>
        BY <2>1 DEF vars, search
      <3>2. /\ \A p : Candidates(p)' = Candidates(p)
            /\ \A i, j : Fit(i, j)' <=> Fit(i, j)
            /\ \A p : NoneFits(p)' <=> NoneFits(p)
            /\ Monotone(units[unit])' <=> Monotone(units[unit])
        BY <3>1, RestStays
      <3>3. Candidates(prio)' = Candidates(prio)
        BY <3>1, CandidatesStay
      <3>4. \A b : Rank(prio, b)' = Rank(prio, b)
        BY <3>3 DEF Rank
      <3>5. RestRemains'
        BY <3>1, <3>2 DEF SplitInv, RestRemains, Splitting
      <3>6. FoundIsLast'
        BY <3>1, <3>3, <3>4 DEF SplitInv, FoundIsLast, InWord
      <3>7. PassedDoNotFit'
        BY <3>1, <3>2, <3>3, <3>4 DEF SplitInv, PassedDoNotFit, Splitting
      <3>8. QED
        BY <3>5, <3>6, <3>7
    <2>2. CASE Probe \/ NextPriority \/ FirstScalar \/ Bisect
      <3>1. /\ UNCHANGED <<text, units, unit, start>> /\ Splitting
            /\ phase \in {"search", "first", "prefix"}
        BY <2>2 DEF Probe, NextPriority, FirstScalar, Bisect, Splitting
      <3>2. RestRemains'
        BY <3>1, RestStays DEF SplitInv, RestRemains, Splitting
      <3>3. QED
        BY <2>2, <3>2, ProbeSplits, PrioritySplits, PrefixSplits
    <2>3. CASE Whole \/ Scan \/ EndScan \/ Finish \/ RefuseText \/ Refuse
      <3>1. ~ Splitting'
        BY <2>3 DEF Whole, Scan, EndScan, Finish, RefuseText, Refuse, Splitting
      <3>2. QED
        BY <3>1, OutsideSplitting
    <2>4. QED
      BY <2>1, <2>2, <2>3, TakeSplits, CutSplits DEF Next, Step
  <1>4. QED
    BY <1>2, <1>3 DEF SplitInv

LEMMA SplitInit == Init => SplitInv
  <1> SUFFICES ASSUME Init PROVE SplitInv
    OBVIOUS
  <1>1. text \in Texts /\ phase = "whole" /\ units = <<>>
    BY DEF Init
  <1>2. UnitsAdvance
    BY <1>1, EmptyIsSeq DEF UnitsAdvance
  <1>3. QED
    BY <1>1, <1>2 DEF SplitInv, RestRemains, FoundIsLast, PassedDoNotFit, Splitting

LEMMA SegmenterInvariant == Spec => [](FitInv /\ JoinInv /\ LinesInv /\ SplitInv)
  <1> DEFINE Inv == FitInv /\ JoinInv /\ LinesInv /\ SplitInv
  <1>1. Init => Inv
    BY FitInit, JoinInit, LinesInit, SplitInit
  <1>2. Inv /\ [Next]_vars => Inv'
    BY FitNext, JoinNext, LinesNext, SplitNext
  <1>3. QED
    BY <1>1, <1>2, PTL DEF Spec


-----------------------------------------------------------------------------
(* Cuts are the rightmost that fit.                                           *)

\* What CutsAreRightmost says of a cut.
CutIsRightmost ==
    LET cut == result'[Len(result')]
    IN  \/ \E p \in 0 .. 2 :
               /\ cut.stop \in Fitting(p) /\ \A i \in Fitting(p) : i <= cut.stop
               /\ \A q \in 0 .. p - 1 : Fitting(q) = {}
        \/ cut.next = cut.stop /\ \A p \in 0 .. 2 : Fitting(p) = {}

LEMMA NoneIsFitting ==
    ASSUME NEW p, NoneFits(p)
    PROVE  Fitting(p) = {}
  BY DEF Fitting, NoneFits, Fit

LEMMA CutStep ==
    ASSUME FitInv, JoinInv, LinesInv, SplitInv, CutAtBreak \/ CutInWord,
           phase' = "split", Monotone(units[unit])
    PROVE  CutIsRightmost
  <1>1. /\ Splitting /\ phase \in {"search", "prefix"}
        /\ Push(start, Found.stop, Found.next, "split")
        /\ phase = "search" => low = high
    BY DEF CutAtBreak, CutInWord, Splitting
  <1>2. RestIsBounded /\ start \in Nat /\ units[unit].stop \in Nat
    BY <1>1, RestFacts DEF RestIsBounded
  <1>3. result' = Append(result, Unit(start, Found.stop, Found.next)) /\ IsSeq(result)
    BY <1>1, PushFacts DEF FitInv
  <1>4. result'[Len(result')] = Unit(start, Found.stop, Found.next)
    BY <1>3, AppendFacts
  <1> DEFINE cut == result'[Len(result')]
  <1>5. cut.stop = Found.stop /\ cut.next = Found.next
    BY <1>4 DEF Unit
  <1> HIDE DEF cut
  <1>6. CASE phase = "search"
    <2>1. /\ Found \in Candidates(prio) /\ Rank(prio, Found) = low - 1
          /\ Fit(start, Found.stop)
      BY <1>6, FoundWithin
    <2>2. prio \in 0 .. 2 /\ low \in Nat /\ high \in Nat /\ low = high
      BY <1>1, <1>6 DEF LinesInv, SearchIsInRest
    <2>3. Found.stop \in Fitting(prio)
      BY <2>1 DEF Fitting, Fit
    <2>4. ASSUME NEW b \in Candidates(prio), Fit(start, b.stop)
          PROVE  b.stop <= Found.stop
      <3>1. ~ (Rank(prio, b) >= high)
        BY <1>1, <1>6, <2>4 DEF SplitInv, PassedDoNotFit
      <3>2. Found.stop < b.stop => Rank(prio, Found) < Rank(prio, b)
        BY <1>2, <2>1, RankFacts
      <3>3. Rank(prio, b) \in Nat
        BY <1>2, RankFacts
      <3>4. b.stop \in start + 1 .. units[unit].stop /\ Found.stop \in start + 1 .. units[unit].stop
        BY <1>2, <2>1, CandidatesFacts
      <3>5. QED
        BY <1>2, <2>1, <2>2, <3>1, <3>2, <3>3, <3>4
    <2>5. \A i \in Fitting(prio) : i <= Found.stop
      BY <2>4 DEF Fitting, Fit
    <2>6. \A q \in 0 .. prio - 1 : Fitting(q) = {}
      BY <1>1, <1>6, NoneIsFitting DEF SplitInv, PassedDoNotFit
    <2>7. QED
      BY <1>5, <2>2, <2>3, <2>5, <2>6 DEF CutIsRightmost, cut
  <1>7. CASE phase = "prefix"
    <2>1. Found.next = Found.stop
      BY <1>7, FoundWithin
    <2>2. \A q \in 0 .. 2 : Fitting(q) = {}
      BY <1>1, <1>7, NoneIsFitting DEF SplitInv, PassedDoNotFit
    <2>3. QED
      BY <1>5, <2>1, <2>2 DEF CutIsRightmost, cut
  <1>8. QED
    BY <1>1, <1>6, <1>7

\* For every text, limit and tokenizer: where more text never has fewer pieces, a
\* cut is made at the rightmost break that fits, of the first priority that has
\* any, and inside a word only if there is none.
THEOREM CutsReachFarthest == Spec => CutsAreRightmost
  <1>1. FitInv /\ JoinInv /\ LinesInv /\ SplitInv /\ [Next]_vars =>
            [Len(result') > Len(result) /\ phase' = "split" /\ Monotone(units[unit]) =>
                 CutIsRightmost]_vars
    <2> SUFFICES ASSUME FitInv, JoinInv, LinesInv, SplitInv, Next,
                        Len(result') > Len(result), phase' = "split", Monotone(units[unit])
                 PROVE  CutIsRightmost
      BY DEF vars
    <2>1. Len(result) \in Nat
      BY SeqFacts DEF FitInv
    <2>2. result' # result
      BY <2>1
    <2>3. CutAtBreak \/ CutInWord
      <3>1. ~ Whole /\ ~ Scan /\ ~ Finish /\ ~ Probe /\ ~ NextPriority /\ ~ FirstScalar
            /\ ~ Bisect /\ ~ RefuseText /\ ~ Refuse /\ ~ (Ended /\ UNCHANGED vars)
        BY <2>2 DEF Whole, Scan, Finish, Probe, NextPriority, FirstScalar, Bisect,
                    RefuseText, Refuse, vars
      <3>2. ~ EndScan /\ ~ TakeUnit /\ ~ TakeRest
        BY <2>2 DEF EndScan, TakeUnit, TakeRest, Push
      <3>3. QED
        BY <3>1, <3>2 DEF Next, Step
    <2>4. QED
      BY <2>3, CutStep
  <1>2. QED
    BY SegmenterInvariant, <1>1, PTL DEF Spec, CutsAreRightmost, CutIsRightmost


-----------------------------------------------------------------------------
(* Segmentation ends.                                                         *)

LEMMA MeasureIs ==
    /\ phase \in {"whole", "scan"} => Position = -1
    /\ phase = "unit" => Position = IF unit <= Len(units) THEN units[unit].from ELSE Len(text)
    /\ Splitting => Position = start
    /\ phase = "whole" => Stage = 0
    /\ phase = "unit" => Stage = 0
    /\ phase = "scan" => Stage = 1 /\ ToLook = ContentEnd - index
    /\ phase = "split" => Stage = 1
    /\ phase = "search" => Stage = 2 + prio /\ ToLook = high - low
    /\ phase = "first" => Stage = 5
    /\ phase = "prefix" => Stage = 6 /\ ToLook = high - low
  BY DEF Position, Stage, ToLook, Splitting

LEMMA MeasureWillBe ==
    /\ phase' \in {"whole", "scan"} => Position' = -1
    /\ phase' = "unit" =>
           Position' = IF unit' <= Len(units') THEN units'[unit'].from ELSE Len(text')
    /\ Splitting' => Position' = start'
    /\ Ended' => Position' = Len(text') + 1
    /\ phase' = "scan" => Stage' = 1 /\ ToLook' = ContentEnd' - index'
    /\ phase' = "split" => Stage' = 1
    /\ phase' = "search" => Stage' = 2 + prio' /\ ToLook' = high' - low'
    /\ phase' = "first" => Stage' = 5
    /\ phase' = "prefix" => Stage' = 6 /\ ToLook' = high' - low'
  BY DEF Position, Stage, ToLook, Splitting, Ended

\* What EveryStepProgresses says of a step.
Progresses ==
    \/ Position' > Position
    \/ Position' = Position /\ Stage' > Stage
    \/ Position' = Position /\ Stage' = Stage /\ ToLook' < ToLook

LEMMA PositionIsInText ==
    ASSUME FitInv, JoinInv, LinesInv, SplitInv, ~ Ended,
           phase \in {"whole", "scan", "unit"} \/ Splitting
    PROVE  Position \in Int /\ Position <= Len(text) /\ Len(text) \in Nat
  <1>1. Len(text) \in Nat
    BY DEF JoinInv
  <1>2. CASE phase \in {"whole", "scan"}
    BY <1>1, <1>2, MeasureIs
  <1>3. CASE phase = "unit"
    <2>1. CASE unit <= Len(units)
      <3>1. Advances(units[unit])
        BY <1>3, <2>1, UnitFacts DEF SplitInv
      <3>2. QED
        BY <1>1, <1>3, <2>1, <3>1, MeasureIs DEF Advances
    <2>2. CASE ~ (unit <= Len(units))
      BY <1>1, <1>3, <2>2, MeasureIs
    <2>3. QED
      BY <2>1, <2>2
  <1>4. CASE Splitting
    <2>1. Advances(units[unit]) /\ RestIsBounded /\ start < units[unit].stop
      BY <1>4, UnitFacts, RestFacts DEF SplitInv, RestRemains
    <2>2. QED
      BY <1>1, <1>4, <2>1, MeasureIs DEF Advances, RestIsBounded
  <1>5. QED
    BY <1>2, <1>3, <1>4

\* The end is behind every position.
LEMMA EndingProgresses ==
    ASSUME FitInv, JoinInv, LinesInv, SplitInv, text' = text, Ended',
           phase \in {"whole", "scan", "unit"} \/ Splitting
    PROVE  Progresses
  <1>1. ~ Ended
    BY DEF Ended, Splitting
  <1>2. Position \in Int /\ Position <= Len(text) /\ Len(text) \in Nat
    BY <1>1, PositionIsInText
  <1>3. Position' = Len(text) + 1
    BY MeasureWillBe
  <1>4. QED
    BY <1>2, <1>3 DEF Progresses

\* The unit behind this one begins where this one ends.
LEMMA NextUnitProgresses ==
    ASSUME FitInv, JoinInv, LinesInv, SplitInv,
           (phase = "unit" /\ unit <= Len(units)) \/ Splitting,
           UNCHANGED <<text, units>>, unit' = unit + 1, phase' = "unit"
    PROVE  Progresses
  <1>1. /\ unit \in 1 .. Len(units) /\ Advances(units[unit]) /\ Len(units) \in Nat
        /\ Len(text) \in Nat /\ Joined(units)
    BY UnitFacts, SplitFacts DEF SplitInv, JoinInv
  <1>2. Position \in Nat /\ Position < units[unit].next
    <2>1. CASE Splitting
      <3>1. RestIsBounded /\ start < units[unit].stop /\ Position = start
        BY <2>1, RestFacts, MeasureIs DEF SplitInv, RestRemains
      <3>2. QED
        BY <1>1, <3>1 DEF Advances, RestIsBounded
    <2>2. CASE phase = "unit" /\ unit <= Len(units)
      BY <1>1, <2>2, MeasureIs DEF Advances
    <2>3. QED
      BY <2>1, <2>2
  <1>3. CASE unit + 1 <= Len(units)
    <2>1. unit + 1 \in 2 .. Len(units) /\ (unit + 1) - 1 = unit
      BY <1>1, <1>3
    <2>2. units[unit + 1].from = units[unit].next
      BY <1>1, <2>1 DEF Joined
    <2>3. Position' = units[unit].next
      BY <1>3, <2>2, MeasureWillBe
    <2>4. QED
      BY <1>1, <1>2, <2>3 DEF Progresses, Advances
  <1>4. CASE ~ (unit + 1 <= Len(units))
    <2>1. Position' = Len(text)
      BY <1>4, MeasureWillBe
    <2>2. QED
      BY <1>1, <1>2, <2>1 DEF Progresses, Advances
  <1>5. QED
    BY <1>3, <1>4

LEMMA ScanProgresses ==
    ASSUME FitInv, JoinInv, LinesInv, SplitInv, Whole \/ Scan \/ EndScan,
           UnitsAdvance', JoinInv'
    PROVE  Progresses
  <1>1. /\ text' = text /\ text \in Seq(STRING) /\ ContentEnd \in Nat
        /\ phase \in {"whole", "scan"}
    BY ContentEndNat DEF Whole, Scan, EndScan, JoinInv
  <1>2. CASE Whole
    BY <1>2, MeasureIs, MeasureWillBe DEF Whole, Progresses
  <1>3. CASE Scan
    <2>1. phase = "scan" /\ phase' = "scan" /\ index < ContentEnd /\ index' = Look(index).next
      BY <1>3 DEF Scan
    <2>2. index \in Nat
      BY <1>1, <2>1 DEF LinesInv, ScanIsClear
    <2>3. index' \in Nat /\ index < index'
      BY <1>1, <2>1, <2>2, LookAdvances
    <2>4. ContentEnd' = ContentEnd
      BY <1>1 DEF ContentEnd, At
    <2>5. Position' = Position /\ Stage' = Stage
      BY <2>1, MeasureIs, MeasureWillBe
    <2>6. ToLook' = ContentEnd - index' /\ ToLook = ContentEnd - index
      BY <2>1, <2>4, MeasureIs, MeasureWillBe
    <2>7. ContentEnd - index' < ContentEnd - index
      <3>1. \A a, b, c \in Nat : a < b => c - b < c - a
        OBVIOUS
      <3>2. ContentEnd \in Nat /\ index \in Nat /\ index' \in Nat /\ index < index'
        BY <1>1, <2>2, <2>3
      <3>3. QED
        BY <3>1, <3>2
    <2>8. ToLook' < ToLook
      BY <2>6, <2>7
    <2>9. QED
      BY <2>5, <2>8 DEF Progresses
  <1>4. CASE EndScan
    <2>1. phase = "scan" /\ Position = -1
      BY <1>4, MeasureIs DEF EndScan
    <2>2. CASE phase' = "done"
      BY <1>1, <2>1, <2>2, EndingProgresses DEF Ended
    <2>3. CASE phase' = "unit" /\ unit' = 1
      <3>1. Position' = IF 1 <= Len(units') THEN units'[1].from ELSE Len(text)
        BY <1>1, <2>3, MeasureWillBe
      <3>2. 1 <= Len(units') => units'[1].from \in Nat
        <4>1. Len(units') \in Nat /\ DOMAIN units' = 1 .. Len(units')
          BY SeqFacts DEF JoinInv
        <4>2. QED
          BY <4>1 DEF UnitsAdvance, Advances
      <3>3. Position' \in Nat
        BY <1>1, <3>1, <3>2
      <3>4. QED
        BY <2>1, <3>3 DEF Progresses
    <2>4. QED
      BY <1>4, <2>2, <2>3 DEF EndScan
  <1>5. QED
    BY <1>2, <1>3, <1>4

LEMMA TakeProgresses ==
    ASSUME FitInv, JoinInv, LinesInv, SplitInv, TakeUnit \/ TakeRest
    PROVE  Progresses
  <1>1. /\ (phase = "unit" /\ unit <= Len(units)) \/ Splitting
        /\ phase \in {"unit", "split"} /\ UNCHANGED <<text, units>>
    BY DEF TakeUnit, TakeRest, Splitting
  <1>2. CASE phase' = "tooMany"
    BY <1>1, <1>2, EndingProgresses DEF Ended
  <1>3. CASE phase' = "unit" /\ unit' = unit + 1
    BY <1>1, <1>3, NextUnitProgresses
  <1>4. CASE /\ phase = "unit" /\ unit <= Len(units)
             /\ phase' = "split" /\ start' = units[unit].from
    <2>1. Position' = Position /\ Stage = 0 /\ Stage' = 1
      BY <1>4, MeasureIs, MeasureWillBe DEF Splitting
    <2>2. QED
      BY <2>1 DEF Progresses
  <1>5. CASE phase = "split" /\ phase' = "search" /\ start' = start /\ prio' = 0
    <2>1. Position' = Position /\ Stage = 1 /\ Stage' = 2
      BY <1>5, MeasureIs, MeasureWillBe DEF Splitting
    <2>2. QED
      BY <2>1 DEF Progresses
  <1>6. CASE TakeUnit
    <2>1. \/ phase' = "tooMany"
          \/ phase' = "unit" /\ unit' = unit + 1
          \/ phase = "unit" /\ unit <= Len(units) /\ phase' = "split" /\ start' = units[unit].from
      BY <1>6, PushFacts DEF TakeUnit
    <2>2. QED
      BY <1>2, <1>3, <1>4, <2>1
  <1>7. CASE TakeRest
    <2>1. \/ phase' = "tooMany"
          \/ phase' = "unit" /\ unit' = unit + 1
          \/ phase = "split" /\ phase' = "search" /\ start' = start /\ prio' = 0
      BY <1>7, PushFacts DEF TakeRest
    <2>2. QED
      BY <1>2, <1>3, <1>5, <2>1
  <1>8. QED
    BY <1>6, <1>7

LEMMA SearchProgresses ==
    ASSUME FitInv, JoinInv, LinesInv, SplitInv, Probe \/ NextPriority \/ FirstScalar \/ Bisect
    PROVE  Progresses
  <1>1. /\ Splitting /\ UNCHANGED <<text, start>>
    BY DEF Probe, NextPriority, FirstScalar, Bisect, Splitting
  <1>2. CASE phase' = "unsplittable"
    BY <1>1, <1>2, EndingProgresses DEF Ended
  <1>3. CASE phase' # "unsplittable"
    <2>1. Position' = Position
      <3>1. Splitting'
        BY <1>3 DEF Probe, NextPriority, FirstScalar, Bisect, Splitting
      <3>2. QED
        BY <1>1, <3>1, MeasureIs, MeasureWillBe
    <2>2. CASE Probe
      <3>1. /\ phase = "search" /\ phase' = "search" /\ low < high /\ prio' = prio
            /\ \/ low' = Middle + 1 /\ high' = high
               \/ low' = low /\ high' = Middle
        BY <2>2 DEF Probe
      <3>2. low \in Nat /\ high \in Nat
        BY <3>1 DEF LinesInv, SearchIsInRest
      <3>3. Middle \in Nat /\ low <= Middle /\ Middle < high
        BY <3>1, <3>2 DEF Middle
      <3>4. Stage' = Stage /\ ToLook' = high' - low' /\ ToLook = high - low
        BY <3>1, MeasureIs, MeasureWillBe
      <3>5. high' - low' < high - low
        BY <3>1, <3>2, <3>3
      <3>6. QED
        BY <2>1, <3>4, <3>5 DEF Progresses
    <2>3. CASE NextPriority
      <3>1. /\ phase = "search" /\ prio \in 0 .. 2
            /\ \/ phase' = "search" /\ prio' = prio + 1
               \/ phase' = "first"
        BY <2>3 DEF NextPriority, LinesInv, SearchIsInRest
      <3>2. Stage = 2 + prio /\ (Stage' = 3 + prio \/ Stage' = 5)
        BY <3>1, MeasureIs, MeasureWillBe
      <3>3. QED
        BY <2>1, <3>1, <3>2 DEF Progresses
    <2>4. CASE FirstScalar
      <3>1. phase = "first" /\ phase' = "prefix"
        BY <1>3, <2>4 DEF FirstScalar
      <3>2. Stage = 5 /\ Stage' = 6
        BY <3>1, MeasureIs, MeasureWillBe
      <3>3. QED
        BY <2>1, <3>2 DEF Progresses
    <2>5. CASE Bisect
      <3>1. /\ phase = "prefix" /\ phase' = "prefix" /\ PrefixMiddle > Found.stop
            /\ \/ low' = PrefixMiddle /\ high' = high
               \/ low' = low /\ high' = PrefixMiddle - 1
        BY <2>5 DEF Bisect
      <3>2. /\ best = {InWord(low)} /\ low \in start + 1 .. units[unit].stop
            /\ high \in start .. units[unit].stop
        BY <3>1 DEF SplitInv, FoundIsLast, LinesInv, SearchIsInRest
      <3>3. Found.stop = low
        BY <3>2, FoundFacts DEF InWord
      <3>4. start \in Nat /\ units[unit].stop \in Nat
        BY <1>1, RestFacts DEF RestIsBounded
      <3>5. PrefixMiddle \in start .. high
        BY <3>2, <3>4, PrefixMiddleFacts
      <3>6. Stage' = Stage /\ ToLook' = high' - low' /\ ToLook = high - low
        BY <3>1, MeasureIs, MeasureWillBe
      <3>7. high' - low' < high - low
        BY <3>1, <3>2, <3>3, <3>4, <3>5
      <3>8. QED
        BY <2>1, <3>6, <3>7 DEF Progresses
    <2>6. QED
      BY <2>2, <2>3, <2>4, <2>5
  <1>4. QED
    BY <1>2, <1>3

LEMMA CutProgresses ==
    ASSUME FitInv, JoinInv, LinesInv, SplitInv, CutAtBreak \/ CutInWord
    PROVE  Progresses
  <1>1. /\ Splitting /\ text' = text /\ start' = Found.next
        /\ Push(start, Found.stop, Found.next, "split")
    BY DEF CutAtBreak, CutInWord, Splitting
  <1>2. CASE phase' = "tooMany"
    BY <1>1, <1>2, EndingProgresses DEF Ended
  <1>3. CASE phase' = "split"
    <2>1. Position = start /\ Position' = Found.next
      BY <1>1, <1>3, MeasureIs, MeasureWillBe DEF Splitting
    <2>2. start \in Nat /\ Found.next \in Nat /\ start < Found.next
      BY FoundWithin
    <2>3. QED
      BY <2>1, <2>2 DEF Progresses
  <1>4. QED
    BY <1>1, <1>2, <1>3, PushFacts

\* For every text, limit and tokenizer: segmentation ends, since each step reaches
\* a later position of the text, or a later stage of the search for a cut, or
\* leaves less to search.
THEOREM SegmentationGoesOn == Spec => EveryStepProgresses
  <1>1. FitInv /\ JoinInv /\ LinesInv /\ SplitInv /\ [Next]_vars => [Progresses]_vars
    <2> SUFFICES ASSUME FitInv, JoinInv, LinesInv, SplitInv, Next, ~ UNCHANGED vars
                 PROVE  Progresses
      BY DEF vars
    <2>1. UnitsAdvance' /\ JoinInv'
      BY UnitsAdvanceStep, JoinNext
    <2>2. CASE Finish \/ RefuseText \/ Refuse
      <3>1. /\ text' = text /\ Ended'
            /\ phase \in {"whole", "scan", "unit"} \/ Splitting
        BY <2>2 DEF Finish, RefuseText, Refuse, Counting, Ended, Splitting
      <3>2. QED
        BY <3>1, EndingProgresses
    <2>3. QED
      BY <2>1, <2>2, ScanProgresses, TakeProgresses, SearchProgresses, CutProgresses
         DEF Next, Step
  <1>2. QED
    BY SegmenterInvariant, <1>1, PTL DEF Spec, EveryStepProgresses, Progresses

===============================================================================
