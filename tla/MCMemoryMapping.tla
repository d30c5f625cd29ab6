-------------------------- MODULE MCMemoryMapping --------------------------
(* MemoryMapping with a weight of each kind, an operation whose output has  *)
(* a buffer and, before it, one that has none.                              *)
EXTENDS MemoryMapping

MCOpOrder == <<"token_embd_weight", "attn_q_weight", "v", "kq">>
MCPerBlockAlloc == {"attn_q_weight"}
MCBufferless == {"v"}
=============================================================================
