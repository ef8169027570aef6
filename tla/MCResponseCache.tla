-------------------------- MODULE MCResponseCache ---------------------------
(* Small instances of ResponseCache for TLC. *)
EXTENDS ResponseCache, TLC

CONSTANTS c1, c2, c3

Prompt(t, messages) ==
    [temperature |-> t, settings |-> "gpt", stop |-> <<>>, messages |-> messages]

User(content) == [role |-> "user", content |-> content]

(* Two messages, and one message of two lines that reads the same; another  *)
(* request, and one that is not deterministic.                              *)
Two == Prompt(0, << User(<< <<"x">> >>), User(<< <<"y">> >>) >>)
One == Prompt(0, << User(<< <<"x">>, <<"user", "y">> >>) >>)
Other == Prompt(0, << User(<< <<"y">> >>) >>)
Warm == Prompt(1, << User(<< <<"y">> >>) >>)

MCPrompts == {Two, One, Other, Warm}

ASSUME TwoReadAlike == CacheKey(Two) = CacheKey(One) /\ Cardinality(Keys) = 3
=============================================================================
