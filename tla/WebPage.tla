------------------------------ MODULE WebPage ------------------------------
(***************************************************************************)
(* A list page of the web UI (internal/ui): how home, feed, unread and     *)
(* starred are put together, and the auto-refresh poll of the page that is *)
(* on screen (handleVersion, and keys.js in the browser).                  *)
(*                                                                         *)
(* A handler holds no lock: feed by feed it copies the index and reads the *)
(* flags one entry at a time and, last of all, takes the version the page  *)
(* is stamped with (base).  Polls and other clients' flags come between    *)
(* any two of these (UnreadSync).  The tags and the health of the feeds do *)
(* not change; what the user does to the flags of this page is the step of *)
(* any other client.                                                       *)
(***************************************************************************)
EXTENDS UnreadSync

VARIABLES
    render,     \* the page being put together
    page,       \* the page on screen: its StateVer and its rows
    pill        \* its "new items" pill: "hidden", "shown" or "dismissed"

webVars == <<render, page, pill>>
everything == <<allVars, webVars>>

\* A row of the page.  The home page has no rows of entries but their count, and
\* shows no stars.
Row(view, h) ==
    [hash |-> h, read |-> flag["read"][h],
     starred |-> view # "home" /\ flag["starred"][h]]

\* The entries of a page: home counts the unread, a feed lists all of its entries
\* or its unread ones.
Keeps(view, h) ==
    CASE view \in {"home", "unread", "feed unread"} -> ~flag["read"][h]
      [] view = "starred" -> flag["starred"][h]
      [] view = "feed" -> TRUE

\* What a page shows: a view of every feed or of one.
Scopes ==
         [view : {"home", "unread", "starred"}, feeds : {Feeds}]
    \cup [view : {"feed", "feed unread"}, feeds : {{f} : f \in Feeds}]

\* crossFeed reads the flags to filter, sorts what is left, and reads them again
\* for the rows.
CrossFeed == {"unread", "starred"}

\* The rows of the page, were it put together in one go.
Rows(scope) ==
    {Row(scope.view, h) : h \in {x \in Stored \cap UNION scope.feeds : Keeps(scope.view, x)}}

WebInit ==
    /\ SyncInit
    /\ render = NoBody
    /\ page = NoBody
    /\ pill = "hidden"

-----------------------------------------------------------------------------
(* handleHome, handleFeed, handleAllUnread and handleStarred.              *)

\* The browser leaves the page it has.
Visit(scope) ==
    /\ up
    /\ render = NoBody
    /\ render' = [scope |-> scope, copied |-> {}, todo |-> {}, kept |-> {}, rows |-> {}]
    /\ page' = NoBody
    /\ pill' = "hidden"
    /\ UNCHANGED allVars

\* IndexedEntries, as AppendEntries and setFlag do, holds Store.mu.
Rendering == render # NoBody /\ step = "idle"

IndexedEntries(f) ==
    /\ Rendering
    /\ f \in render.scope.feeds \ render.copied /\ render.todo = {}
    /\ render' = [render EXCEPT !.copied = @ \cup {f}, !.todo = Stored \cap f]
    /\ UNCHANGED <<allVars, page, pill>>

FilterEntry(h) ==
    /\ Rendering
    /\ h \in render.todo
    /\ render' =
         LET view == render.scope.view
             rest == [render EXCEPT !.todo = @ \ {h}]
         IN IF ~Keeps(view, h) THEN rest
            ELSE IF view \in CrossFeed THEN [rest EXCEPT !.kept = @ \cup {h}]
            ELSE [rest EXCEPT !.rows = @ \cup {Row(view, h)}]
    /\ UNCHANGED <<allVars, page, pill>>

\* The loop over the feeds is over.
Rendered == Rendering /\ render.copied = render.scope.feeds /\ render.todo = {}

RowOf(h) ==
    /\ Rendered
    /\ h \in render.kept
    /\ render' = [render EXCEPT !.kept = @ \ {h}, !.rows = @ \cup {Row(render.scope.view, h)}]
    /\ UNCHANGED <<allVars, page, pill>>

\* base reads StateVersion, and the page is rendered.
Render ==
    /\ Rendered
    /\ render.kept = {}
    /\ page' = [scope |-> render.scope, ver |-> contentVer, rows |-> render.rows]
    /\ render' = NoBody
    /\ UNCHANGED <<allVars, pill>>

-----------------------------------------------------------------------------
(* The auto-refresh poll.                                                  *)

\* handleVersion answers 304 while the version is the page's, and the first 200
\* shows the pill, unless the user has dismissed it.
PollVersion ==
    /\ up /\ step = "idle"
    /\ page # NoBody
    /\ pill = "hidden"
    /\ contentVer # page.ver
    /\ pill' = "shown"
    /\ UNCHANGED <<allVars, render, page>>

Dismiss ==
    /\ pill = "shown"
    /\ pill' = "dismissed"
    /\ UNCHANGED <<allVars, render, page>>

\* The answer under way dies with the process; the page stays on the screen.
WebCrash ==
    /\ SyncCrash
    /\ render' = NoBody
    /\ UNCHANGED <<page, pill>>

WebNext ==
    \/ /\ \/ SyncOpen
          \/ \E f \in Feeds : PollStart(f) \/ \E new \in SUBSET f : AppendEntries(f, new)
          \/ FlagStep
       /\ UNCHANGED webVars
    \/ WebCrash
    \/ \E scope \in Scopes : Visit(scope)
    \/ \E f \in Feeds : IndexedEntries(f)
    \/ \E h \in Hashes : FilterEntry(h) \/ RowOf(h)
    \/ Render
    \/ PollVersion
    \/ Dismiss

WebSpec == WebInit /\ [][WebNext]_everything

-----------------------------------------------------------------------------

\* "StateVer is the Store.StateVersion() captured at render time ... so the client
\* auto-refresh poll can detect when new entries or state changes have landed since
\* this page was served": a page whose version is the current one, for which the
\* poll is told 304, shows what is stored.
PageCurrent ==
    up /\ step = "idle" /\ page # NoBody =>
        (page.ver = contentVer => page.rows = Rows(page.scope))
=============================================================================
