--------------------------- MODULE MCServiceInit ---------------------------
(***************************************************************************)
(* Instances of ServiceInit for TLC: two services.                         *)
(***************************************************************************)
EXTENDS ServiceInit

\* Streams whose SDT has a section for another service; the first one sends
\* it after, the second one before the one that matters.
Tables(s) == IF s = 0 THEN <<"pat", "pmt", "sdt", "sdt_other", "pcr">>
                      ELSE <<"pat", "sdt_other", "pcr", "pmt", "sdt">>
MCStream == [s \in 0..1 |-> Tables(s)]
=============================================================================
