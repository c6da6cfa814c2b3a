------------------------------ MODULE TextDiff ------------------------------
(***************************************************************************)
(* diffText: what changed between two captures of a page's text, word by   *)
(* word, as hunks a reader is shown.  The middle of two texts that differ  *)
(* in too many words is told as one replacement.                           *)
(***************************************************************************)
EXTENDS Integers, Sequences
LOCAL INSTANCE SequencesExt

CONSTANTS
  Words,         \* words of a page
  MaxWords,      \* bound: words of a capture
  MaxEdits,      \* MAX_EDIT_DISTANCE
  ContextWords,  \* CONTEXT_WORDS
  MergeGap       \* MERGE_GAP_WORDS

ASSUME TextDiffConstants == {MaxWords, MaxEdits, ContextWords, MergeGap} \subseteq Nat

VARIABLES
  captures,  \* the texts captured so far
  diff       \* diffText of the last two

tVars == <<captures, diff>>

TextsSeen == BoundedSeq(Words, MaxWords)
Hunk == [removed : Seq(Words), added : Seq(Words), before : Seq(Words), after : Seq(Words), start : Nat]
NoDiff == [hunks |-> <<>>, truncated |-> FALSE]

Smaller(x, y) == IF x < y THEN x ELSE y
Greater(x, y) == IF x > y THEN x ELSE y
Largest(S) == CHOOSE x \in S : \A y \in S : y <= x
Least(S) == CHOOSE x \in S : \A y \in S : x <= y

Ops(kind, text) == [i \in DOMAIN text |-> [kind |-> kind, word |-> text[i]]]
WordsOf(ops, kinds) ==
  LET of == SelectSeq(ops, LAMBDA op : op.kind \in kinds) IN [i \in DOMAIN of |-> of[i].word]

-----------------------------------------------------------------------------
(* What the two texts begin and end with; the end found never reaches into *)
(* the beginning.                                                          *)
CommonPrefix(a, b) ==
  Largest({l \in 0..Smaller(Len(a), Len(b)) : SubSeq(a, 1, l) = SubSeq(b, 1, l)})

(* Mutant: the end may overlap the beginning.                              *)
CommonSuffixUnbounded(a, b, prefix) == CommonPrefix(Reverse(a), Reverse(b))

CommonSuffix(a, b, prefix) ==
  CommonPrefix(Reverse(SubSeq(a, prefix + 1, Len(a))), Reverse(SubSeq(b, prefix + 1, Len(b))))

-----------------------------------------------------------------------------
(* Myers: v[k] is how far into a the furthest path on diagonal k reaches;  *)
(* row d tells it for d edits from the row before.                         *)
Diagonals(d) == {k \in -d..d : (k + d) % 2 = 0}
Inserts(v, d, k) == k = -d \/ (k # d /\ v[k - 1] < v[k + 1])

Furthest(a, b, v, d, k) ==
  LET x == IF Inserts(v, d, k) THEN v[k + 1] ELSE v[k - 1] + 1
  IN  x + CommonPrefix(SubSeq(a, x + 1, Len(a)), SubSeq(b, x - k + 1, Len(b)))

NextRow(a, b, v, d) == [k \in DOMAIN v |-> IF k \in Diagonals(d) THEN Furthest(a, b, v, d, k) ELSE v[k]]

(* trace[d + 1] is what row d is told from.                                *)
Trace(a, b, max) ==
  FoldLeft(LAMBDA trace, d : Append(trace, NextRow(a, b, Last(trace), d)),
           <<[k \in (-max - 1)..(max + 1) |-> 0]>>, [i \in 1..(max + 1) |-> i - 1])

Reaches(a, b, v, d) == \E k \in Diagonals(d) : v[k] >= Len(a) /\ v[k] - k >= Len(b)

(* One row back on the path: the equal words after the edit, then it.      *)
StepBack(a, b, v, d, path) ==
  LET k == path.x - path.y
      before == IF Inserts(v, d, k) THEN k + 1 ELSE k - 1
      x == v[before]
      y == x - before
      equal == Greater(0, Smaller(path.x - x, path.y - y))
      edit == IF path.x - equal = x THEN [kind |-> "ins", word |-> b[path.y - equal]]
                                    ELSE [kind |-> "del", word |-> a[path.x - equal]]
  IN  [x |-> x, y |-> y, ops |-> <<edit>> \o Ops("eq", SubSeq(a, path.x - equal + 1, path.x)) \o path.ops]

Backtrack(a, b, trace, final) ==
  LET path == FoldLeft(LAMBDA p, d : StepBack(a, b, trace[d + 1], d, p),
                       [x |-> Len(a), y |-> Len(b), ops |-> <<>>], [i \in 1..final |-> final + 1 - i])
  IN  Ops("eq", SubSeq(a, 1, path.x)) \o path.ops

(* No script when it takes more edits than the bound.                      *)
Myers(a, b) ==
  LET max == Smaller(Len(a) + Len(b), MaxEdits)
      trace == Trace(a, b, max)
      reached == {d \in 0..max : Reaches(a, b, trace[d + 2], d)}
  IN  IF reached = {} THEN [found |-> FALSE, ops |-> Ops("del", a) \o Ops("ins", b)]
                      ELSE [found |-> TRUE, ops |-> Backtrack(a, b, trace, Least(reached))]

-----------------------------------------------------------------------------
(* Changes with few unchanged words between them are one hunk, and those   *)
(* words stand on both of its sides.                                       *)
Changed(ops) == {i \in DOMAIN ops : ops[i].kind # "eq"}
Close(i, j) == j > i /\ j - i <= MergeGap + 1
EndOf(ops, start) ==
  Least({e \in Changed(ops) : e >= start /\ ~\E j \in Changed(ops) : Close(e, j)})

HunkAt(ops, start) ==
  LET end == EndOf(ops, start)
      slice == SubSeq(ops, start, end)
  IN  [removed |-> WordsOf(slice, {"del", "eq"}), added |-> WordsOf(slice, {"ins", "eq"}),
       before |-> WordsOf(SubSeq(ops, Greater(1, start - ContextWords), start - 1), {"eq"}),
       after |-> WordsOf(SubSeq(ops, end + 1, Smaller(Len(ops), end + ContextWords)), {"eq"}),
       start |-> Len(WordsOf(SubSeq(ops, 1, start - 1), {"del", "eq"}))]

ToHunks(ops) ==
  LET starts == {i \in Changed(ops) : ~\E j \in Changed(ops) : Close(j, i)}
      inOrder == SetToSortSeq(starts, <)
  IN  [n \in DOMAIN inOrder |-> HunkAt(ops, inOrder[n])]

DiffText(a, b) ==
  LET prefix == CommonPrefix(a, b)
      suffix == CommonSuffix(a, b, prefix)
      middleA == SubSeq(a, prefix + 1, Len(a) - suffix)
      middleB == SubSeq(b, prefix + 1, Len(b) - suffix)
      script == Myers(middleA, middleB)
      all == Ops("eq", SubSeq(a, 1, prefix)) \o script.ops \o Ops("eq", SubSeq(a, Len(a) - suffix + 1, Len(a)))
  IN  IF middleA = <<>> /\ middleB = <<>> THEN NoDiff
                                          ELSE [hunks |-> ToHunks(all), truncated |-> ~script.found]

-----------------------------------------------------------------------------
DiffInit == captures = <<>> /\ diff = NoDiff

(* The page is captured again; two captures are compared.                  *)
Capture(text) ==
  /\ Len(captures) < 2
  /\ captures' = Append(captures, text)
  /\ diff' = IF captures = <<>> THEN diff ELSE DiffText(captures[1], text)

DiffNext == \E text \in TextsSeen : Capture(text)

-----------------------------------------------------------------------------
DiffTypeOK == Len(captures) <= 2 /\ diff.truncated \in BOOLEAN /\ \A i \in DOMAIN diff.hunks : diff.hunks[i] \in Hunk

(* The previous text with every hunk's removed words replaced.             *)
Rewritten(text, hunks) ==
  LET last == Len(hunks)
      Upto(n) == IF n = 0 THEN 0 ELSE hunks[n].start + Len(hunks[n].removed)
  IN  FoldLeft(LAMBDA new, n : new \o SubSeq(text, Upto(n - 1) + 1, hunks[n].start) \o hunks[n].added,
               <<>>, [i \in 1..last |-> i])
        \o SubSeq(text, Upto(last) + 1, Len(text))

(* The least number of words to remove and to add.                         *)
EditDistance(a, b) == Len(a) + Len(b) - 2 * Largest({Len(s) : s \in AllSubSeqs(a) \cap AllSubSeqs(b)})

(* A bounded search with its ends trimmed off says exactly what was edited: *)
(*   - each hunk's removed words stand in the previous text where it says  *)
(*     and replacing them all by the added ones gives the current text;    *)
(*   - it gives up on precision exactly when more words changed than the   *)
(*     bound; otherwise no shorter edit exists, and what the hunks hold    *)
(*     beside it are the words merged between two changes;                 *)
(*   - hunks are apart, and what stands before the first and after the     *)
(*     last is the page's own text there.                                  *)
DiffTellsTheEdit ==
  Len(captures) = 2 =>
    LET a == captures[1]  b == captures[2]  hunks == diff.hunks
        Edits(h) == Len(h.removed) + Len(h.added)
        All == FoldLeft(LAMBDA sum, h : sum + Edits(h), 0, hunks)
        End(h) == h.start + Len(h.removed)
    IN  /\ \A i \in DOMAIN hunks : SubSeq(a, hunks[i].start + 1, End(hunks[i])) = hunks[i].removed
        /\ Rewritten(a, hunks) = b
        /\ diff.truncated <=> EditDistance(a, b) > MaxEdits
        /\ hunks = <<>> <=> a = b
        /\ All >= EditDistance(a, b)
        /\ ~diff.truncated => All <= EditDistance(a, b) + 2 * MergeGap * (EditDistance(a, b) - Len(hunks))
        /\ diff.truncated => Len(hunks) = 1
        /\ \A i \in DOMAIN hunks : i > 1 => hunks[i].start - End(hunks[i - 1]) > MergeGap
        /\ hunks # <<>> =>
             LET first == hunks[1]  last == Last(hunks) IN
               /\ first.before = SubSeq(a, Greater(1, first.start - ContextWords + 1), first.start)
               /\ last.after = SubSeq(a, End(last) + 1, Smaller(Len(a), End(last) + ContextWords))
=============================================================================
