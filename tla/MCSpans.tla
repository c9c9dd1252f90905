------------------------------- MODULE MCSpans -------------------------------
(* Instances of Spans for TLC: overlapping windows of one memory, one of them
   read-only, an empty one and one with a NULL base. *)
EXTENDS Spans

MCSpans == {ReadonlySpan(<<1, 3>>), WritableSpan(<<2, 2>>), WritableSpan(<<1, 2>>),
            WritableSpan(<<3, 0>>), WritableSpan(<<0, 4>>)}
=============================================================================
