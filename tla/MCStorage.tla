----------------------------- MODULE MCStorage -----------------------------
(* Storage with schedules of one to three bytes.                            *)
EXTENDS Storage

\* Two importable schedules, one that loads but cannot be imported, and one that
\* does not parse.
MCContents == {<<1, 2, 3>>, <<4, 5>>, <<6>>, <<7>>}
MCValid(b) == b \in {<<1, 2, 3>>, <<4, 5>>}
MCParses(b) == b \in {<<1, 2, 3>>, <<4, 5>>, <<6>>}
=============================================================================
