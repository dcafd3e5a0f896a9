-------------------------------- MODULE Opml --------------------------------
(***************************************************************************)
(* The subscription list of harb as data (src/internal/store/opml.go): its *)
(* feeds by URL, each with a title and tags, what the requests of the web  *)
(* UI and of the Reader API make of it, and what is left of it when it is  *)
(* written to subscriptions.opml and read again.                           *)
(*                                                                         *)
(* The tags of a feed are written as one attribute, joined with commas and *)
(* split at commas when read.  A tag name is therefore modelled as the set *)
(* of its comma-separated pieces: {x} is the tag "x", {x, y} is "x,y",     *)
(* which the Reader API and a folder of an imported file accept as one     *)
(* name.  The order of feeds and tags is left out (the code sorts both     *)
(* when it writes), and so is a file with one URL in two outlines.         *)
(***************************************************************************)
CONSTANTS
    Urls,       \* feed URLs
    Titles,     \* titles clients give
    Words,      \* what tag names consist of
    Blank,      \* a title of white space only
    NoTitle,    \* a request that gives no title
    Reserved    \* the pseudo tag __untagged__

Tag  == (SUBSET Words) \ {{}}
Feed == [title : Titles \cup Urls, tags : SUBSET Tag]
List == UNION {[D -> Feed] : D \in SUBSET Urls}

Empty == [u \in {} |-> u]

----------------------------------------------------------------------------
IsReservedTag(name) == name = {Reserved}

\* Mutant: the pseudo tag passes for a tag.
NormalizeTagsKeepAll(tags) == tags

NormalizeTags(tags) == {t \in tags : ~IsReservedTag(t)}

\* Add inserts a feed or replaces the one with its URL.
Add(o, u, f) ==
    [v \in DOMAIN o \cup {u} |->
        IF v = u THEN [f EXCEPT !.tags = NormalizeTags(@)] ELSE o[v]]

Remove(o, u) == [v \in DOMAIN o \ {u} |-> o[v]]

\* The changes of one edit: a new title if there is one, AddTag for each tag
\* added, then RemoveTag for each tag removed.
Edit(o, u, title, add, remove) ==
    [o EXCEPT ![u] =
        [title |-> IF title = NoTitle THEN @.title ELSE title,
         tags  |-> (@.tags \cup NormalizeTags(add)) \ remove]]

RenameTag(o, old, new) ==
    [u \in DOMAIN o |->
        IF old \in o[u].tags /\ old # new
        THEN [o[u] EXCEPT !.tags = NormalizeTags((@ \ {old}) \cup {new})]
        ELSE o[u]]

DisableTag(o, name) == [u \in DOMAIN o |-> [o[u] EXCEPT !.tags = @ \ {name}]]

----------------------------------------------------------------------------
(***************************************************************************)
(* The requests that call FileOPML.  Both interfaces build the same few    *)
(* changes; a feed subscribed without a title gets its URL for one.        *)
(***************************************************************************)
Request ==
         [op : {"subscribe"}, url : Urls, title : Titles \cup {NoTitle}, tags : SUBSET Tag]
    \cup [op : {"unsubscribe"}, url : Urls]
    \cup [op : {"edit"}, url : Urls, title : Titles \cup {NoTitle},
          add : SUBSET Tag, remove : SUBSET Tag]
    \cup [op : {"rename"}, old : Tag, new : Tag]
    \cup [op : {"disable"}, name : Tag]
    \cup [op : {"list"}]

\* What the handlers check before they call FileOPML.
Accepted(r) == r.op = "rename" => ~IsReservedTag(r.new)

\* The closure given to Update returns an error and nothing is saved.
Aborts(r, o) == r.op = "edit" /\ r.url \notin DOMAIN o

\* What that closure makes of the list it is given.
Changed(r, o) ==
    CASE r.op = "subscribe" ->
            Add(o, r.url, [title |-> IF r.title = NoTitle THEN r.url ELSE r.title,
                           tags  |-> r.tags])
      [] r.op = "unsubscribe" -> Remove(o, r.url)
      [] r.op = "edit"        -> Edit(o, r.url, r.title, r.add, r.remove)
      [] r.op = "rename"      -> RenameTag(o, r.old, r.new)
      [] r.op = "disable"     -> DisableTag(o, r.name)
      [] r.op = "list"        -> o

\* harb import: the feeds of another OPML file, added one by one.
Imported(inc, o) ==
    [u \in DOMAIN o \cup DOMAIN inc |-> IF u \in DOMAIN inc THEN inc[u] ELSE o[u]]

----------------------------------------------------------------------------
(***************************************************************************)
(* The file: an outline for every feed, with a title, the name of the      *)
(* folder it is in ({} if none: harb writes none) and its category.        *)
(***************************************************************************)
Outline == [title : Titles \cup Urls, folder : SUBSET Words, category : SUBSET Words]
File    == UNION {[D -> Outline] : D \in SUBSET Urls}

Marshal(o) ==
    [u \in DOMAIN o |-> [title    |-> o[u].title,
                         folder   |-> {},
                         category |-> UNION NormalizeTags(o[u].tags)]]

\* The folder becomes one tag, the category as many as it has commas.
ParseOPML(x) ==
    [u \in DOMAIN x |->
        [title |-> IF x[u].title = Blank THEN u ELSE x[u].title,
         tags  |-> NormalizeTags(({x[u].folder} \ {{}}) \cup {{w} : w \in x[u].category})]]
=============================================================================
