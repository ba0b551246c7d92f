----------------------------- MODULE MCMultipart -----------------------------
(* Two versions of a file for TLC: five units and four, cut into three, two or
   (3 + 1) parts. *)
EXTENDS Multipart, TLC

MCSizes == (1 :> 5) @@ (2 :> 4)
=============================================================================
