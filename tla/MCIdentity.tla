----------------------------- MODULE MCIdentity -----------------------------
(* Instances of IdentityMigration: what the feeds publish.                 *)
EXTENDS IdentityMigration

CONSTANTS TopStories, Blog, none, opaque, uri, l1, l2, l3

Item(stem, tail, link, title, date) ==
    [guid |-> [stem |-> stem, tail |-> tail], link |-> link, title |-> title, date |-> date]

\* A feed that gives two articles one opaque guid, and dates one of the two; a blog
\* whose guids are URIs and that moves an article and appends a date to its guid.
DisjointFeeds ==
    TopStories :> {Item(opaque, 0, l1, "a", 1), Item(opaque, 0, l2, "b", none)}
    @@ Blog :> {Item(uri, 0, l1, "c", 1), Item(uri, 1, l3, "c", 1)}

\* Two feeds that share an article and its opaque guid, which only one of them
\* gives to another article too.
SharedArticle ==
    TopStories :> {Item(opaque, 0, l1, "a", 1), Item(opaque, 0, l2, "b", 1)}
    @@ Blog :> {Item(opaque, 0, l1, "a", 1)}

TheFeeds == <<TopStories, Blog>>

=============================================================================
