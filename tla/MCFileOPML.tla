----------------------------- MODULE MCFileOPML -----------------------------
(***************************************************************************)
(* The requests and the files of the small instance of FileOPML.           *)
(***************************************************************************)
EXTENDS FileOPML, TLC

CONSTANTS u1, u2, t1, x, y

SubscribeTo(u, tags) == [op |-> "subscribe", url |-> u, title |-> NoTitle, tags |-> tags]

PlainRequests ==
         {SubscribeTo(u1, {}), SubscribeTo(u2, {{x}, {Reserved}})}
    \cup [op : {"unsubscribe"}, url : {u1}]
    \cup {[op |-> "edit", url |-> u1, title |-> t1, add |-> {{x}}, remove |-> {}],
          [op |-> "edit", url |-> u2, title |-> NoTitle, add |-> {{y}, {Reserved}}, remove |-> {{x}}]}
    \cup {[op |-> "rename", old |-> {x}, new |-> {y}],
          [op |-> "rename", old |-> {y}, new |-> {Reserved}],
          [op |-> "disable", name |-> {y}],
          [op |-> "list"]}

OutlineWith(t, folder, category) == [title |-> t, folder |-> folder, category |-> category]

\* A file written by another program: a folder, no title, the pseudo tag.
SomeFound   == {[u \in {u1} |-> OutlineWith(Blank, {x}, {y, Reserved})]}
SomeImports == {[u \in {u2} |-> OutlineWith(t1, {}, {y})]}

\* Nothing tells one goroutine from another.
AnyClient == Permutations(Clients)
=============================================================================
