---------------------------- MODULE ModularCount ----------------------------
(***************************************************************************)
(* Wrapping counters compared by signed difference (count_after() in       *)
(* inbox.h): the stream ordinals are uint16_t, the teardown generations    *)
(* uint32_t.                                                               *)
(***************************************************************************)
EXTENDS Integers

\* A mistake the properties are tested against: a count that does not wrap.
NextCountMutant(n, span) == n + 1

\* The next value of a counter of `span` values.
NextCount(n, span) == (n + 1) % span

\* Whether a is later than b: their difference, read as a signed integer of
\* the counter's width, is positive.
CountAfter(a, b, span) ==
    LET d == (a - b) % span IN 0 < d /\ d < span \div 2
=============================================================================
