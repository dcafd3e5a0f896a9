---------------------------- MODULE MCUnreadSync ----------------------------
(* An instance of UnreadSync: two feeds of an entry each, which are alike. *)
EXTENDS UnreadSync

CONSTANTS h1, h2

TwoEntries == {h1, h2}
TwoFeeds == {{h1}, {h2}}
EntriesAlike == Permutations(TwoEntries)

=============================================================================
