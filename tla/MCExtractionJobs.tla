------------------------- MODULE MCExtractionJobs -------------------------
(***************************************************************************)
(* Small instances of ExtractionJobs: what is uploaded in each run.        *)
(***************************************************************************)
EXTENDS ExtractionJobs

\* One file or two, of which the second may be refused or break the extractor.
SmallUploads ==
    { <<"sound">>, <<"sound", "sound">>, <<"sound", "broken">>,
      <<"sound", "refused">> }
=============================================================================
