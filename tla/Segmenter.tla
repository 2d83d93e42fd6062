----------------------------- MODULE Segmenter -----------------------------
(***************************************************************************)
(* segment_text (marian-core/src/segmenter.rs): a text is cut into pieces  *)
(* that fit the source limit of the model and separators that the model    *)
(* never sees.  Sentences and line breaks give units; a unit that does not *)
(* fit is cut further, at the best punctuation a binary search finds, or   *)
(* else between two characters.                                            *)
(*                                                                         *)
(* A text is a sequence of scalars.  Positions count scalars, as 0 before  *)
(* the first; only the search for a prefix of a word reckons in bytes.     *)
(* Counting pieces is the tokenizer's work, of which nothing is assumed:   *)
(* more text may have fewer pieces.                                        *)
(***************************************************************************)
EXTENDS Integers, Sequences, FiniteSets

LOCAL INSTANCE FiniteSetsExt
LOCAL INSTANCE SequencesExt

CONSTANTS Texts,         \* the texts to look at
          Width(_),      \* len_utf8 of a scalar
          Count(_),      \* count_pieces: pieces of a text
          MaxPieces,     \* max_pieces
          MaxInput,      \* MAX_SEGMENTER_INPUT_BYTES
          MaxCalls,      \* MAX_ENCODING_CALLS
          MaxBytes,      \* MAX_ENCODING_BYTES
          MaxCounted,    \* MAX_COUNTED_PIECES
          MaxSegments,   \* MAX_SEGMENTS
          Abbreviations, \* tokens that never end a sentence
          Abbreviated    \* tokens that end none when a small letter follows

\* The tokenizer finds a number of pieces, and none in no text.
ASSUME SegmenterAssumption ==
    /\ Texts \subseteq Seq(STRING)
    /\ MaxPieces \in Nat \ {0}
    /\ Count(<<>>) = 0
    /\ \A t \in Texts : \A i, j \in 0 .. Len(t) : Count(SubSeq(t, i + 1, j)) \in Nat

VARIABLES text,    \* the text
          phase,   \* whole, scan, unit, split, search, first, prefix, or how it
                   \* ended
          units,   \* what sentence_units has found
          index,   \* how far it has looked
          unit,    \* the unit being looked at
          start,   \* where the unit begins that is being scanned, or the rest of
                   \* the one that is being split
          prio,    \* the priority of break points being searched
          low,     \* bounds of the binary search
          high,
          best,    \* the break that it has found, if any
          counted, \* ranges in the cache of PieceCounter
          result   \* the segments so far

search == <<prio, low, high, best>>
vars == <<text, phase, units, index, unit, start, search, counted, result>>

-----------------------------------------------------------------------------
(* Characters and where sentences end. *)

Blanks == {" ", "\n"}
Terminators == {".", "!"}
Closing == {")", "\""}
Opening == {"(", "\""}
Digits == {"1"}
Upper == {"A"}
Lower == {"a"}
Strong == {";", ":"}

\* The scalar that begins at position i, and the text between two positions.
At(i) == text[i + 1]
Between(i, j) == SubSeq(text, i + 1, j)

\* The first position from i to end that no scalar of S begins.
Skip(S, i, end) ==
    CHOOSE j \in i .. end :
        /\ j = end \/ At(j) \notin S
        /\ \A k \in i .. j - 1 : At(k) \in S

\* trim_trailing_whitespace
ContentEnd ==
    CHOOSE i \in 0 .. Len(text) :
        /\ i = 0 \/ At(i - 1) \notin Blanks
        /\ \A j \in i .. Len(text) - 1 : At(j) \in Blanks

\* The word before a period in small letters, with its periods, without other
\* marks.
TokenBefore(i) ==
    LET from == Max({0} \cup {j \in 1 .. i : At(j - 1) \in Blanks \cup Opening})
        token == SelectSeq(Between(from, i + 1),
                           LAMBDA c : c \in Upper \cup Lower \cup Digits \cup {"."})
    IN  [k \in DOMAIN token |-> IF token[k] \in Upper THEN "a" ELSE token[k]]

\* is_initial_or_acronym: up to eight single letters between periods.
IsInitial(token) ==
    \E n \in 1 .. 8 :
        /\ 2 * n <= Len(token)
        /\ \A k \in DOMAIN token :
               token[k] \in (IF k % 2 = 1 /\ k < 2 * n THEN Lower ELSE {"."})

\* period_can_end_sentence.  Its test for a digit on both sides never decides:
\* the caller has seen that a blank or the end of the text follows.
PeriodEnds(i, after) ==
    LET token == TokenBefore(i)
        next == Skip(Blanks, after, Len(text))
        follows == next < Len(text)
    IN  ~ \/ token \in Abbreviations /\ follows
          \/ token \in Abbreviated /\ follows /\ At(next) \in Lower \cup Digits
          \/ IsInitial(token) /\ follows /\ At(next) \in Upper

-----------------------------------------------------------------------------
(* sentence_units. *)

\* What the scan does at position i of the content: go on at next, perhaps after
\* ending a unit at stop.
AtTerminator(i) ==
    LET marks == Skip(Terminators, i, ContentEnd)
        stop == Skip(Closing, marks, ContentEnd)
        ends == /\ stop = ContentEnd \/ At(stop) \in Blanks
                /\ At(i) # "." \/ PeriodEnds(i, stop)
    IN  [cut |-> ends, stop |-> stop,
         next |-> IF ends THEN Skip(Blanks, stop, ContentEnd) ELSE marks]

\* Mutants: each replaces the definition its comment names.

\* Of AtBlank: only the first blank is looked at.
AtBlankFirst(i) ==
    LET next == Skip(Blanks, i, ContentEnd)
    IN  [cut |-> At(i) = "\n", stop |-> i, next |-> next]

AtBlank(i) ==
    LET next == Skip(Blanks, i, ContentEnd)
    IN  [cut |-> \E j \in i .. next - 1 : At(j) = "\n", stop |-> i, next |-> next]

Look(i) ==
    CASE At(i) \in Terminators -> AtTerminator(i)
      [] At(i) \in Blanks -> AtBlank(i)
      [] OTHER -> [cut |-> FALSE, stop |-> i, next |-> i + 1]

\* A unit has its content from .. stop and its separator stop .. next.
Unit(from, stop, next) == [from |-> from, stop |-> stop, next |-> next]

\* Of Remainder: blanks behind a last sentence are dropped.
RemainderTrimmed ==
    IF start < ContentEnd
    THEN Append(units, Unit(start, ContentEnd, Len(text)))
    ELSE units

\* What is left when the scan has reached the end of the content is a unit; the
\* blanks behind the content belong to the last unit.
Remainder ==
    IF start < ContentEnd
    THEN Append(units, Unit(start, ContentEnd, Len(text)))
    ELSE [k \in DOMAIN units |->
             IF k = Len(units) THEN Unit(units[k].from, units[k].stop, Len(text))
             ELSE units[k]]

-----------------------------------------------------------------------------
(* fallback_break_points. *)

\* is_dash_boundary: the dash begins a run of several, or has a blank or an end
\* of the unit on one side.
DashBreaks(i, u) ==
    \/ i + 1 < u.stop /\ At(i + 1) = "-"
    \/ i = u.from \/ At(i - 1) \in Blanks
    \/ i + 1 >= u.stop \/ At(i + 1) \in Blanks

\* The positions of the scan where a scalar of S begins a run of its own.
Runs(S, u) ==
    {i \in u.from .. u.stop - 1 : At(i) \in S /\ (i = u.from \/ At(i - 1) \notin S)}

BreakPoints(u) ==
    LET point(after, p) ==
            [stop |-> after, next |-> Skip(Blanks, after, u.stop), priority |-> p]
        marks(S) == {i \in u.from .. u.stop - 1 : At(i) \in S}
    IN  {point(i, 2) : i \in Runs(Blanks, u)}
        \cup {point(i + 1, 0) : i \in marks(Strong)}
        \cup {point(i + 1, 1) : i \in marks({","})}
        \cup {point(Skip({"-"}, i, u.stop), 0) :
                  i \in {j \in Runs({"-"}, u) : DashBreaks(j, u)}}

\* Of Candidates: breaks that have been passed stay candidates.
CandidatesPassed(p) ==
    {b \in BreakPoints(units[unit]) : b.priority = p /\ b.next < units[unit].stop}

\* The candidates of one priority in the rest of a unit, and the one that has k
\* others on its left.
Candidates(p) ==
    {b \in BreakPoints(units[unit]) :
        b.priority = p /\ b.stop > start /\ b.next > start /\ b.next < units[unit].stop}

Candidate(p, k) ==
    CHOOSE b \in Candidates(p) :
        Cardinality({c \in Candidates(p) : c.stop < b.stop}) = k

-----------------------------------------------------------------------------
(* PieceCounter: each range is given to the tokenizer once. *)

Pieces(r) == Count(Between(r[1], r[2]))
Bytes(r) == FoldSeq(LAMBDA c, sum : Width(c) + sum, 0, Between(r[1], r[2]))

Affordable(r) ==
    LET all == counted \cup {r}
    IN  \/ r \in counted
        \/ /\ Cardinality(all) <= MaxCalls
           /\ MapThenSumSet(Bytes, all) <= MaxBytes
           /\ MapThenSumSet(Pieces, all) <= MaxCounted

\* The candidate in the middle, from 0.
Middle == low + (high - low) \div 2
Tried == Candidate(prio, Middle)

\* floor_char_boundary of the byte in the middle, rounded up.
MiddleByte == Bytes(<<start, low>>) + (Bytes(<<low, high>>) + 1) \div 2
PrefixMiddle ==
    CHOOSE i \in start .. high :
        /\ i = start \/ Bytes(<<start, i>>) <= MiddleByte
        /\ \A j \in i + 1 .. high : ~ (Bytes(<<start, j>>) <= MiddleByte)

\* A cut inside a word, and the cut that has been found.
InWord(i) == [stop |-> i, next |-> i, priority |-> 3]
Found == CHOOSE b \in best : TRUE

\* The range whose pieces the next step counts.
Needed ==
    CASE phase \in {"whole", "scan"} -> <<0, ContentEnd>>
      [] phase = "unit" -> <<units[unit].from, units[unit].stop>>
      [] phase = "split" -> <<start, units[unit].stop>>
      [] phase = "search" -> <<start, Tried.stop>>
      [] phase = "first" -> <<start, start + 1>>
      [] phase = "prefix" -> <<start, PrefixMiddle>>

Counting ==
    \/ phase \in {"split", "first"}
    \/ phase = "whole" /\ Bytes(<<0, Len(text)>>) <= MaxInput
    \/ phase = "unit" /\ unit <= Len(units)
    \/ phase = "search" /\ low < high
    \/ phase = "prefix" /\ low < high /\ PrefixMiddle > Found.stop

\* The range has been counted: it has at most MaxPieces, or more.
Fits(r) == Affordable(r) /\ counted' = counted \cup {r} /\ Pieces(r) <= MaxPieces
TooLong(r) == Affordable(r) /\ counted' = counted \cup {r} /\ Pieces(r) > MaxPieces

-----------------------------------------------------------------------------
Init ==
    /\ text \in Texts
    /\ phase = "whole"
    /\ units = <<>>
    /\ index = 0
    /\ unit = 0
    /\ start = 0
    /\ prio = 0
    /\ low = 0
    /\ high = 0
    /\ best = {}
    /\ counted = {}
    /\ result = <<>>

\* push_segment, and the phase that follows.
Push(from, stop, next, then) ==
    \/ /\ Len(result) < MaxSegments
       /\ result' = Append(result, Unit(from, stop, next))
       /\ phase' = then
    \/ /\ Len(result) >= MaxSegments
       /\ phase' = "tooMany"
       /\ UNCHANGED result

\* The whole text is counted before anything else.
Whole ==
    /\ phase = "whole"
    /\ Bytes(<<0, Len(text)>>) <= MaxInput
    /\ Fits(Needed) \/ TooLong(Needed)
    /\ phase' = "scan"
    /\ UNCHANGED <<text, units, index, unit, start, search, result>>

Scan ==
    /\ phase = "scan"
    /\ index < ContentEnd
    /\ LET here == Look(index)
       IN  /\ index' = here.next
           /\ IF here.cut
              THEN /\ units' = Append(units, Unit(start, here.stop, here.next))
                   /\ start' = here.next
              ELSE UNCHANGED <<units, start>>
    /\ UNCHANGED <<text, phase, unit, search, counted, result>>

\* A text of one sentence that fits stays whole.
EndScan ==
    /\ phase = "scan"
    /\ index >= ContentEnd
    /\ units' = Remainder
    /\ \/ /\ Len(Remainder) <= 1 /\ Pieces(Needed) <= MaxPieces
          /\ result' = <<Unit(0, ContentEnd, Len(text))>>
          /\ phase' = "done"
          /\ UNCHANGED unit
       \/ /\ Len(Remainder) > 1 \/ Pieces(Needed) > MaxPieces
          /\ phase' = "unit"
          /\ unit' = 1
          /\ UNCHANGED result
    /\ UNCHANGED <<text, index, start, search, counted>>

TakeUnit ==
    /\ phase = "unit"
    /\ unit <= Len(units)
    /\ LET u == units[unit]
       IN  \/ /\ Fits(Needed)
              /\ Push(u.from, u.stop, u.next, "unit")
              /\ unit' = unit + 1
              /\ UNCHANGED start
           \/ /\ TooLong(Needed)
              /\ phase' = "split"
              /\ start' = u.from
              /\ UNCHANGED <<unit, result>>
    /\ UNCHANGED <<text, units, index, search>>

Finish ==
    /\ phase = "unit"
    /\ unit > Len(units)
    /\ phase' = "done"
    /\ UNCHANGED <<text, units, index, unit, start, search, counted, result>>

\* split_oversize_unit: the rest of the unit fits, or a cut is searched.
TakeRest ==
    /\ phase = "split"
    /\ start < units[unit].stop
    /\ \/ /\ Fits(Needed)
          /\ Push(start, units[unit].stop, units[unit].next, "unit")
          /\ unit' = unit + 1
          /\ UNCHANGED search
       \/ /\ TooLong(Needed)
          /\ phase' = "search"
          /\ prio' = 0
          /\ low' = 0
          /\ high' = Cardinality(Candidates(0))
          /\ best' = {}
          /\ UNCHANGED <<unit, result>>
    /\ UNCHANGED <<text, units, index, start>>

-----------------------------------------------------------------------------
(* rightmost_fitting_break. *)

\* Of Probe: the search ends with the first candidate that fits.
ProbeOnce ==
    /\ phase = "search"
    /\ low < high
    /\ \/ Fits(Needed) /\ best' = {Tried} /\ low' = high /\ UNCHANGED high
       \/ TooLong(Needed) /\ high' = Middle /\ UNCHANGED <<low, best>>
    /\ UNCHANGED <<text, phase, units, index, unit, start, prio, result>>

\* Of Probe: the last candidate looked at is taken, whether it fits or not.
ProbeLast ==
    /\ phase = "search"
    /\ low < high
    /\ best' = {Tried}
    /\ \/ Fits(Needed) /\ low' = Middle + 1 /\ UNCHANGED high
       \/ TooLong(Needed) /\ high' = Middle /\ UNCHANGED low
    /\ UNCHANGED <<text, phase, units, index, unit, start, prio, result>>

\* Candidate Middle, which counts from 0, is tried.
Probe ==
    /\ phase = "search"
    /\ low < high
    /\ \/ Fits(Needed) /\ best' = {Tried} /\ low' = Middle + 1 /\ UNCHANGED high
       \/ TooLong(Needed) /\ high' = Middle /\ UNCHANGED <<low, best>>
    /\ UNCHANGED <<text, phase, units, index, unit, start, prio, result>>

\* No candidate of this priority fits.
NextPriority ==
    /\ phase = "search"
    /\ low = high
    /\ best = {}
    /\ \/ /\ prio < 2
          /\ prio' = prio + 1
          /\ high' = Cardinality(Candidates(prio + 1))
          /\ UNCHANGED phase
       \/ /\ prio = 2
          /\ phase' = "first"
          /\ UNCHANGED <<prio, high>>
    /\ low' = 0
    /\ UNCHANGED <<text, units, index, unit, start, best, counted, result>>

CutAtBreak ==
    /\ phase = "search"
    /\ low = high
    /\ best # {}
    /\ Push(start, Found.stop, Found.next, "split")
    /\ start' = Found.next
    /\ UNCHANGED <<text, units, index, unit, search, counted>>

-----------------------------------------------------------------------------
(* largest_fitting_scalar_prefix. *)

FirstScalar ==
    /\ phase = "first"
    /\ \/ /\ Fits(Needed)
          /\ phase' = "prefix"
          /\ low' = start + 1
          /\ high' = units[unit].stop
          /\ best' = {InWord(start + 1)}
       \/ /\ TooLong(Needed)
          /\ phase' = "unsplittable"
          /\ UNCHANGED <<low, high, best>>
    /\ UNCHANGED <<text, units, index, unit, start, prio, result>>

Bisect ==
    /\ phase = "prefix"
    /\ low < high
    /\ PrefixMiddle > Found.stop
    /\ \/ Fits(Needed) /\ best' = {InWord(PrefixMiddle)} /\ low' = PrefixMiddle /\ UNCHANGED high
       \/ TooLong(Needed) /\ high' = PrefixMiddle - 1 /\ UNCHANGED <<low, best>>
    /\ UNCHANGED <<text, phase, units, index, unit, start, prio, result>>

\* The bounds have met, or no boundary of a scalar lies between them.
CutInWord ==
    /\ phase = "prefix"
    /\ low >= high \/ PrefixMiddle <= Found.stop
    /\ Push(start, Found.stop, Found.next, "split")
    /\ start' = Found.next
    /\ UNCHANGED <<text, units, index, unit, search, counted>>

-----------------------------------------------------------------------------
\* The text is too large.
RefuseText ==
    /\ phase = "whole"
    /\ Bytes(<<0, Len(text)>>) > MaxInput
    /\ phase' = "tooLarge"
    /\ UNCHANGED <<text, units, index, unit, start, search, counted, result>>

\* PieceCounter refuses more work, or the tokenizer returns an error.
Refuse ==
    /\ Counting
    /\ Needed \notin counted
    /\ phase' = IF Affordable(Needed) THEN "failed" ELSE "workLimit"
    /\ UNCHANGED <<text, units, index, unit, start, search, counted, result>>

Ended == phase \in {"done", "tooLarge", "workLimit", "failed", "tooMany", "unsplittable"}

Step ==
    \/ Whole \/ Scan \/ EndScan \/ TakeUnit \/ Finish \/ TakeRest
    \/ Probe \/ NextPriority \/ CutAtBreak
    \/ FirstScalar \/ Bisect \/ CutInWord

Next == Step \/ RefuseText \/ Refuse \/ (Ended /\ UNCHANGED vars)

Spec == Init /\ [][Next]_vars

-----------------------------------------------------------------------------
(* Properties. *)

\* The segments of a text are the text: in order, without gap or overlap, to the
\* last blank.
Lossless ==
    phase = "done" =>
        /\ result[1].from = 0
        /\ result[Len(result)].next = Len(text)
        /\ \A k \in 2 .. Len(result) : result[k].from = result[k - 1].next

\* No segment exceeds the limit of the model, although fewer words may have more
\* pieces than the range in which they were found to fit.
EverySegmentFits ==
    \A k \in DOMAIN result :
        Count(Between(result[k].from, result[k].stop)) <= MaxPieces

\* The model, which normalises blanks, never sees a line break.
LineBreaksAreKept ==
    \A k \in DOMAIN result :
        \A i \in result[k].from .. result[k].stop - 1 : At(i) # "\n"

\* The reference for a cut: with counts that grow with the text, it is made at
\* the rightmost fitting break of the first priority that has one.
Monotone(u) ==
    \A i \in u.from .. u.stop : \A j \in i .. u.stop :
        \A k \in j .. u.stop : Pieces(<<i, j>>) <= Pieces(<<i, k>>)

Fitting(p) ==
    {b.stop : b \in {c \in Candidates(p) : Pieces(<<start, c.stop>>) <= MaxPieces}}

\* When counting is monotone, a cut is made at the rightmost break that fits, of
\* the first priority that has any, and inside a word only if there is none.
CutsAreRightmost ==
    [][Len(result') > Len(result) /\ phase' = "split" /\ Monotone(units[unit]) =>
          LET cut == result'[Len(result')]
          IN  \/ \E p \in 0 .. 2 :
                     /\ cut.stop \in Fitting(p) /\ \A i \in Fitting(p) : i <= cut.stop
                     /\ \A q \in 0 .. p - 1 : Fitting(q) = {}
              \/ cut.next = cut.stop /\ \A p \in 0 .. 2 : Fitting(p) = {}]_vars

\* How far the text is segmented, the stage of the search for the next cut, and
\* what is left of a binary search.
Position ==
    CASE phase \in {"whole", "scan"} -> -1
      [] phase = "unit" -> IF unit <= Len(units) THEN units[unit].from ELSE Len(text)
      [] phase \in {"split", "search", "first", "prefix"} -> start
      [] OTHER -> Len(text) + 1

Stage ==
    CASE phase \in {"whole", "unit"} -> 0
      [] phase \in {"scan", "split"} -> 1
      [] phase = "search" -> 2 + prio
      [] phase = "first" -> 5
      [] OTHER -> 6

ToLook == IF phase = "scan" THEN ContentEnd - index ELSE high - low

\* Segmentation ends, whatever the tokenizer counts: each step reaches a later
\* position of the text, or a later stage, or narrows the search.
EveryStepProgresses ==
    [][\/ Position' > Position
       \/ Position' = Position /\ Stage' > Stage
       \/ Position' = Position /\ Stage' = Stage /\ ToLook' < ToLook]_vars

=============================================================================
