----------------------------- MODULE TensorOrder -----------------------------
(***************************************************************************)
(* The order in which sort_tensor_infos puts the tensors of a GGUF file    *)
(* (common/model_parser.hpp).  Two names that both have digits are         *)
(* compared by their first number, all others as text.  std::sort requires *)
(* a strict weak order, which this is not on all names: a.2 < b < c.1, yet *)
(* c.1 < a.2.                                                              *)
(*                                                                         *)
(* A name stands for its place in the order of the texts and for the       *)
(* number that begins at its first digit.  (Of a name that is all digits   *)
(* the code takes 0, since the length it gives substr wraps around.)       *)
(***************************************************************************)
EXTENDS Integers

NoNumber == -1

Numbered(name) == name.number # NoNumber

\* operator< of gguf_tensor_info_t.
Less(l, r) == IF Numbered(l) /\ Numbered(r) THEN l.number < r.number ELSE l.text < r.text

\* What std::sort requires of a comparison on S.
Equivalent(l, r) == ~Less(l, r) /\ ~Less(r, l)

StrictWeak(S) == /\ \A a \in S : ~Less(a, a)
                 /\ \A a, b, c \in S : Less(a, b) /\ Less(b, c) => Less(a, c)
                 /\ \A a, b, c \in S : Equivalent(a, b) /\ Equivalent(b, c) => Equivalent(a, c)

\* The names of a LLaMA file: those with digits all begin with "blk.", and no
\* other text comes between two of them.
NumberedAreAdjacent(S) == \A a, b, c \in S : Numbered(a) /\ Numbered(b) /\ ~Numbered(c) =>
                            /\ a.text # c.text
                            /\ (a.text < c.text <=> b.text < c.text)
=============================================================================
