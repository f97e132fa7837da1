--------------------------- MODULE MCUpnpSession ---------------------------
(* The instances of UpnpSession that TLC checks.  One source is enough: each play and *)
(* each prewarm of it is an asset of its own, and no prewarm is stale by its source.  *)
EXTENDS UpnpSession
=============================================================================
