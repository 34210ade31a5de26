-------------------------- MODULE MCQuotaSampler --------------------------
(* Two runs of the sampler, with at most two responses each, for TLC. *)
EXTENDS QuotaSampler
=============================================================================
