-------------------------- MODULE MCNewsletterSync --------------------------
(* Instances of NewsletterSync for TLC.                                    *)
EXTENDS NewsletterSync

CONSTANTS k1, k2, r1, r2, r3
=============================================================================
