----------------------------- MODULE MCIndexer -----------------------------
\* The treasury and one holder; the window is shorter than the chain may grow
\* between two ingests, and deeper than a reorganisation.
EXTENDS Indexer

CONSTANTS treasury, holder

MCHolders == {treasury, holder}
MCExcluded == {treasury}
=============================================================================
