----------------------------- MODULE MCSections -----------------------------
(***************************************************************************)
(* Instances of Sections for TLC: packets of 4 payload bytes.              *)
(***************************************************************************)
EXTENDS Sections

\* A section of three packets, three of one packet each and one of two of
\* another table.
MCRound == <<1,1,1,1,1,1,1,1,1, 2,2, 3,3, 4,4,4, 5,5,5,5,5>>
MCWanted == {1, 2, 3, 4}
=============================================================================
