----------------------------- MODULE MCShortenUrl -----------------------------
(* An instance of ShortenUrl for TLC. *)
EXTENDS ShortenUrl
=============================================================================
