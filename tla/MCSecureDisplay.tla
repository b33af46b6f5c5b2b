--------------------------- MODULE MCSecureDisplay ---------------------------
(* A small instance of SecureDisplay.                                       *)
EXTENDS SecureDisplay
=============================================================================
