----------------------------- MODULE OutputScore -----------------------------
(***************************************************************************)
(* How the harness scores what a model answered: _score_output, the match  *)
(* of expected tool calls, the word error rate of a transcript and the     *)
(* scores of binary replies in                                             *)
(* src/src/skulk_test_harness/orchestrator.py.  Pure operators: an answer  *)
(* is a record of what the criteria can tell apart in it.                  *)
(***************************************************************************)
EXTENDS Integers, Sequences, FiniteSets, FiniteSetsExt, Functions

CONSTANTS
    Tools,     \* names of tools
    Words,     \* words of a transcript
    Target     \* in_order_integers: the model is to count to Target

ASSUME ScoreAssumption == IsFiniteSet(Tools) /\ IsFiniteSet(Words) /\ Target \in Nat

-----------------------------------------------------------------------------
(* Answers and criteria *)

\* Arguments of a call: absent when they could not be parsed.
Arguments == {"absent", "fit", "odd"}
ToolCalls == [name : Tools, args : Arguments]

\* A chat answer: the length of its two channels against the criteria, the
\* channels that hold a forbidden substring, the numbers in the order in which
\* they came, the measured rate, and whether the remaining content is there
\* (substrings, list items, patterns, code block, artifact, logprobs).
Plain == [calls |-> <<>>, text |-> "enough", thought |-> "none",
          marked |-> {}, numbers |-> <<>>, rate |-> "unmeasured", content |-> TRUE]

Lengths == {"none", "some", "enough"}

\* What a test asks of an answer: calls, how many at least, and the criteria of
\* the text.  An expected call has a name and accepts some of the arguments that
\* are there.
Asked == [expect |-> <<>>, least |-> 0, generated |-> FALSE, hidden |-> FALSE,
          thought |-> FALSE, floor |-> FALSE, ordered |-> FALSE]

Expectations == [name : Tools, strict : BOOLEAN]

-----------------------------------------------------------------------------
(* Tool calls *)

\* _tool_call_arguments_match: absent arguments do where none are asked.
Matches(call, expected) ==
    call.name = expected.name /\ (expected.strict => call.args = "fit")

\* Mutant: an emitted call may stand for several expected ones.
RepeatedMatch(calls, expected, ignored) ==
    {i \in DOMAIN calls : Matches(calls[i], expected)}

\* Calls that _find_matching_tool_call may return for an expectation.
Candidates(calls, expected, ignored) ==
    {i \in DOMAIN calls \ ignored : Matches(calls[i], expected)}

\* The calls that are taken for the first k expectations, each the first that
\* is left; an expectation without a candidate takes none.
MatchedIndexes(calls, expect) ==
    LET taken[k \in 0..Len(expect)] ==
            IF k = 0 THEN {}
            ELSE LET left == Candidates(calls, expect[k], taken[k - 1])
                 IN  taken[k - 1] \cup IF left = {} THEN {} ELSE {Min(left)}
    IN  taken

CallsMissing(calls, expect) ==
    LET taken == MatchedIndexes(calls, expect)
    IN  \E k \in 1..Len(expect) : Candidates(calls, expect[k], taken[k - 1]) = {}

\* Reference: every expectation has an emitted call of its own.
Assignable(calls, expect) ==
    \E f \in [DOMAIN expect -> DOMAIN calls] :
        /\ \A i, j \in DOMAIN expect : f[i] = f[j] => i = j
        /\ \A i \in DOMAIN expect : Matches(calls[f[i]], expect[i])

-----------------------------------------------------------------------------
(* _score_output *)

Rank(length) == CASE length = "none" -> 0 [] length = "some" -> 1
                  [] length = "enough" -> 2

\* Both channels together against min_generated_chars.
GeneratedEnough(a) == Rank(a.text) + Rank(a.thought) >= 2

\* An answer with fewer than half of the numbers is not taken for a count.
OutOfOrder(numbers) ==
    LET count == SelectSeq(numbers, LAMBDA n : n \in 1..Target)
    IN  /\ Len(count) >= Target \div 2
        /\ \E i \in 1..(Len(count) - 1) : count[i + 1] <= count[i]

\* Forbidden substrings count in the reasoning only where the test says so.
Forbidden(t, a) ==
    \/ "text" \in a.marked
    \/ t.hidden /\ a.thought # "none" /\ "thought" \in a.marked

\* The kinds of issues of an answer; the calls are those of the first answer.
ScoreOutput(t, a, calls) ==
    (IF Rank(a.text) < 2 /\ calls = <<>> THEN {"length"} ELSE {})
    \cup (IF t.generated /\ ~GeneratedEnough(a) THEN {"generated"} ELSE {})
    \cup (IF Forbidden(t, a) THEN {"forbidden"} ELSE {})
    \cup (IF t.thought /\ Rank(a.thought) < 2 THEN {"reasoning"} ELSE {})
    \cup (IF t.floor /\ a.rate = "slow" THEN {"throughput"} ELSE {})
    \cup (IF t.ordered /\ OutOfOrder(a.numbers) THEN {"order"} ELSE {})
    \cup (IF ~a.content THEN {"content"} ELSE {})
    \cup (IF CallsMissing(calls, t.expect) \/ Len(calls) < t.least THEN {"calls"} ELSE {})

-----------------------------------------------------------------------------
(* Transcripts *)

\* Mutant: replacing a word costs nothing.
FreeSubstitution(reference, transcript) ==
    LET row[i \in 0..Len(reference)] ==
            [j \in 0..Len(transcript) |->
                IF i = 0 THEN j
                ELSE IF j = 0 THEN i
                ELSE Min({row[i - 1][j] + 1, row[i - 1][j - 1]})]
    IN  row[Len(reference)][Len(transcript)]

\* _word_error_rate before its division: one row per reference word, each
\* entry from its left neighbour and from the row before.
WordErrors(reference, transcript) ==
    LET row[i \in 0..Len(reference)] ==
            IF i = 0 THEN [j \in 0..Len(transcript) |-> j]
            ELSE LET previous == row[i - 1]
                     current[j \in 0..Len(transcript)] ==
                        IF j = 0 THEN i
                        ELSE Min({current[j - 1] + 1, previous[j] + 1,
                                  previous[j - 1] +
                                      IF reference[i] = transcript[j] THEN 0 ELSE 1})
                 IN  current
    IN  row[Len(reference)][Len(transcript)]

\* A rate above half of the reference words is too much; without reference
\* words every word is an error.
TooManyErrors(reference, transcript) ==
    2 * WordErrors(reference, transcript) > Max({1, Len(reference)})

\* Reference: the least cost of an alignment, a set of pairs of positions that
\* grows in both; a pair of different words and a word without partner cost one.
Alignments(reference, transcript) ==
    {m \in SUBSET ((DOMAIN reference) \X (DOMAIN transcript)) :
        \A p, q \in m : p[1] < q[1] <=> p[2] < q[2]}

EditDistance(reference, transcript) ==
    Min({ Len(reference) + Len(transcript) - 2 * Cardinality(m)
          + Cardinality({p \in m : reference[p[1]] # transcript[p[2]]}) :
            m \in Alignments(reference, transcript) })

-----------------------------------------------------------------------------
(* Binary replies *)

\* What can be wrong with a reply of each kind of request; some of it only
\* counts where the test asks for it.
EmbeddingFlaws(strict) == {"norm"} \cup IF strict THEN {"dimension"} ELSE {}

\* An edited image has any size.
ImageFlaws(generated) == {"count", "notPng"} \cup IF generated THEN {"otherSize"} ELSE {}

\* _score_audio_output; a header is looked for in WAV only.
SpeechFlaws(wav) == {"short", "media"} \cup IF wav THEN {"header"} ELSE {}

\* _score_streaming_audio_output: enough chunks, the first in time, over a span.
StreamFlaws(asked) == IF asked THEN {"chunks", "firstByte", "span"} ELSE {}

VoiceFlaws(strict) ==
    {"missing", "empty"} \cup IF strict THEN {"unexpected", "kind", "language"} ELSE {}

Flaws(kind, strict) ==
    CASE kind = "embedding" -> EmbeddingFlaws(strict)
      [] kind = "image"     -> ImageFlaws(TRUE)
      [] kind = "edit"      -> ImageFlaws(FALSE)
      [] kind = "speech"    -> SpeechFlaws(strict)
      [] kind = "streamed"  -> SpeechFlaws(strict) \cup StreamFlaws(strict)
      [] kind = "voices"    -> VoiceFlaws(strict)
      [] kind = "transcription" -> {"silent"}

\* What the server got wrong, as far as the test looks at it.
ScoreReply(kind, strict, flaws) == flaws \cap Flaws(kind, strict)
=============================================================================
