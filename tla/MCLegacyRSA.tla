----------------------------- MODULE MCLegacyRSA -----------------------------
(* LegacyRSA with bytes of two bits and exponents that small keys exhaust.  *)
EXTENDS LegacyRSAProperties, TLC

SmallExponents == <<3, 5, 7>>
=============================================================================
