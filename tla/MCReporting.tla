---------------------------- MODULE MCReporting ----------------------------
(* Three pieces of evidence, the second of which the linter finds hollow.    *)
EXTENDS Reporting

MCEvidenceIds == 1..3
MCCitable == {1}
MCHollow == {2}

=============================================================================
