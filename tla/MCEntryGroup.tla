---------------------------- MODULE MCEntryGroup ----------------------------
\* EntryGroup on a small network: two records, two interfaces.
EXTENDS EntryGroup

\* A unique record, a shared one, and the two exceptions the flags allow.
MCFlagChoices == {{"unique"}, {}, {"unique", "noprobe"}, {"noannounce"}}
=============================================================================
