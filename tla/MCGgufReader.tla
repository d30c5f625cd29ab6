---------------------------- MODULE MCGgufReader ----------------------------
(* GgufReader with a parameter, the architecture and an array of texts, and *)
(* with tensors of two layers and of none.                                  *)
EXTENDS GgufReader

MCKeys == {<<"general", "architecture">>, <<"llama", "block_count">>, <<"tokenizer", "tokens">>}

\* In the order of the texts: blk.10, blk.2, output.
MCNames == {[text |-> 1, number |-> 10], [text |-> 2, number |-> 2], [text |-> 3, number |-> NoNumber]}
=============================================================================
