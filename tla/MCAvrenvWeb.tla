---------------------------- MODULE MCAvrenvWeb ----------------------------
(***************************************************************************)
(* The web application on a small instance.                                *)
(***************************************************************************)
EXTENDS AvrenvWeb

\* All datasets but the first were received without a CRC error.
MCGood == 2 .. MaxPosts

=============================================================================
