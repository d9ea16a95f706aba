------------------------------- MODULE MCMux -------------------------------
(***************************************************************************)
(* Instances of Mux for TLC.  One packet is 4 bits.  The channel carries 4 *)
(* bits in 3 PCR ticks, so that positions are rounded.                     *)
(***************************************************************************)
EXTENDS Mux

\* PAT and PMT return five times for twice the SDT and NIT in the code; here
\* twice for once.
MCFreq == <<48, 48, 96, 96>>

\* A table is one packet, but for the PMTs: one for each service.
MCTableLen == <<1, NServices, 1, 1>>

\* Nothing but the PCR packet, an ordinary packet, an EIT section of two.
MCChunks == {<<>>, <<"es">>, <<"eit_more", "eit_last">>}

\* Single packets only, for the runs with more PCRs.
MCPlainChunks == {<<>>, <<"es">>}
=============================================================================
