------------------------------ MODULE FileOPML ------------------------------
(***************************************************************************)
(* The subscriptions of harb: FileOPML (src/internal/config/config.go), the *)
(* handlers of the web UI and of the Reader API that go through it, and    *)
(* harb import, a process of its own.                                      *)
(*                                                                         *)
(* The list is cached: the server reads subscriptions.opml when it is      *)
(* first needed and never again.  Update holds the lock of FileOPML while  *)
(* it clones the cached list, changes the clone, writes it to the file and *)
(* puts it in the place of the cached one.  The file is replaced by a      *)
(* rename (src/internal/atomic/write.go), so a write that dies, or fails   *)
(* before the rename, leaves the old file.  One that fails after it, when  *)
(* the directory cannot be opened to be synced, leaves the new file beside *)
(* the old cached list: the request is refused, and a restart grants it.   *)
(***************************************************************************)
EXTENDS Opml

CONSTANTS
    Clients,        \* goroutines that serve requests
    Requests,       \* the requests they serve
    Found,          \* what subscriptions.opml may be at the start
    ImportFiles,    \* the files given to harb import
    ImportBeside,   \* TRUE: import may run while the server does
    Unsynced,       \* TRUE: syncDir may fail, after the rename
    None, Done,     \* no client, request or answer; a request in effect
    NotLoaded,      \* the cached list before the first use
    NoFile          \* subscriptions.opml does not exist

ASSUME RequestsAssumption == Requests \subseteq Request

ASSUME FilesAssumption == Found \cup ImportFiles \subseteq File

ASSUME FaultsAssumption == ImportBeside \in BOOLEAN /\ Unsynced \in BOOLEAN

ASSUME SentinelsAssumption ==
    /\ None \notin Request \cup Clients \cup {Done}
    /\ Done \notin Request
    /\ NotLoaded \notin List
    /\ NoFile \notin File

VARIABLES
    file,       \* subscriptions.opml
    cur,        \* FileOPML.cur of the server
    lock,       \* the goroutine that holds FileOPML.mu across steps
    work,       \* its private copy
    pc,         \* where each goroutine is in its request
    req,        \* the request it serves
    reply,      \* the last answer it gave
    serving,    \* the server runs
    merged      \* the list harb import is about to save, or NotLoaded

cacheVars == <<cur, lock, work>>
vars == <<file, cur, lock, work, pc, req, reply, serving, merged>>

Places == {"idle", "load", "lock", "write", "publish"}
Answers == {None, "ok", "error", "not found", "bad request"}

\* readOPML; a missing file is an empty list.
Read(x) == IF x = NoFile THEN Empty ELSE ParseOPML(x)

Init ==
    /\ file \in Found \cup {NoFile}
    /\ cur = NotLoaded
    /\ lock = None
    /\ work = Empty
    /\ pc = [t \in Clients |-> "idle"]
    /\ req = [t \in Clients |-> None]
    /\ reply = [t \in Clients |-> None]
    /\ serving = FALSE
    /\ merged = NotLoaded

----------------------------------------------------------------------------
(***************************************************************************)
(* Requests.                                                               *)
(***************************************************************************)
Goto(t, place) == pc' = [pc EXCEPT ![t] = place]

\* Mutant: the request is not given up when it is answered.
AnswerKeepsRequest(t, answer) ==
    /\ pc' = [pc EXCEPT ![t] = "idle"]
    /\ reply' = [reply EXCEPT ![t] = answer]
    /\ UNCHANGED req

Answer(t, answer) ==
    /\ pc' = [pc EXCEPT ![t] = "idle"]
    /\ req' = [req EXCEPT ![t] = None]
    /\ reply' = [reply EXCEPT ![t] = answer]

\* The handler accepts a request and calls Load or Update, which looks under
\* the read lock whether the list is loaded.
Ask(t, r) ==
    /\ serving /\ pc[t] = "idle"
    /\ Accepted(r)
    /\ lock = None
    /\ Goto(t, IF cur = NotLoaded THEN "load" ELSE "lock")
    /\ req' = [req EXCEPT ![t] = r]
    /\ reply' = [reply EXCEPT ![t] = None]
    /\ UNCHANGED <<file, cacheVars, serving, merged>>

\* The handler answers 400 before it calls either.
BadRequest(t, r) ==
    /\ serving /\ pc[t] = "idle"
    /\ ~Accepted(r)
    /\ Answer(t, "bad request")
    /\ UNCHANGED <<file, cacheVars, serving, merged>>

\* The slow path of ensureLoaded: under the lock, read the file unless
\* another goroutine has done so in between.
EnsureLoaded(t) ==
    /\ pc[t] = "load" /\ lock = None
    /\ cur' = IF cur = NotLoaded THEN Read(file) ELSE cur
    /\ Goto(t, "lock")
    /\ UNCHANGED <<file, lock, work, req, reply, serving, merged>>

LoadFails(t) ==
    /\ pc[t] = "load" /\ lock = None
    /\ cur = NotLoaded /\ file # NoFile
    /\ Answer(t, "error")
    /\ UNCHANGED <<file, cacheVars, serving, merged>>

\* Load: answer with a copy of the cached list.
Show(t) ==
    /\ pc[t] = "lock" /\ lock = None
    /\ req[t].op = "list"
    /\ Answer(t, "ok")
    /\ UNCHANGED <<file, cacheVars, serving, merged>>

\* Mutant: a read lock, which several goroutines may hold.
AcquireShared(t) == lock' = t

\* Update: take the lock, clone the list, run the closure on the clone.
Acquire(t) == lock = None /\ lock' = t

Update(t) ==
    /\ pc[t] = "lock" /\ req[t].op # "list"
    /\ ~Aborts(req[t], cur)
    /\ Acquire(t)
    /\ work' = Changed(req[t], cur)
    /\ Goto(t, "write")
    /\ UNCHANGED <<file, cur, req, reply, serving, merged>>

\* The closure returns an error: the lock is released, nothing is saved.
Abort(t) ==
    /\ pc[t] = "lock" /\ lock = None
    /\ Aborts(req[t], cur)
    /\ Answer(t, "not found")
    /\ UNCHANGED <<file, cacheVars, serving, merged>>

WriteOPML(t) ==
    /\ pc[t] = "write"
    /\ file' = Marshal(work)
    /\ Goto(t, "publish")
    /\ UNCHANGED <<cacheVars, req, reply, serving, merged>>

\* Mutant: the copy shares its feeds with the cached list.
WriteFailsAliased(t) ==
    /\ pc[t] = "write"
    /\ cur' = work
    /\ lock' = None
    /\ Answer(t, "error")
    /\ UNCHANGED <<file, work, serving, merged>>

\* The write fails before the rename.
WriteFails(t) ==
    /\ pc[t] = "write"
    /\ lock' = None
    /\ Answer(t, "error")
    /\ UNCHANGED <<file, cur, work, serving, merged>>

\* The write fails after the rename: the file is new, the cached list is not.
WriteUnsynced(t) ==
    /\ Unsynced
    /\ pc[t] = "write"
    /\ file' = Marshal(work)
    /\ lock' = None
    /\ Answer(t, "error")
    /\ UNCHANGED <<cur, work, serving, merged>>

Publish(t) ==
    /\ pc[t] = "publish"
    /\ cur' = work
    /\ lock' = None
    /\ Answer(t, "ok")
    /\ UNCHANGED <<file, work, serving, merged>>

----------------------------------------------------------------------------
(***************************************************************************)
(* Processes.                                                              *)
(***************************************************************************)
Serve ==
    /\ ~serving
    /\ ImportBeside \/ merged = NotLoaded
    /\ serving' = TRUE
    /\ UNCHANGED <<file, cacheVars, pc, req, reply, merged>>

\* The server stops or dies, wherever its goroutines are.
Die ==
    /\ serving
    /\ serving' = FALSE
    /\ cur' = NotLoaded
    /\ lock' = None
    /\ work' = Empty
    /\ pc' = [t \in Clients |-> "idle"]
    /\ req' = [t \in Clients |-> None]
    /\ reply' = [t \in Clients |-> None]
    /\ UNCHANGED <<file, merged>>

\* harb import: Load, Add feed by feed, Save.  It fails if the file cannot
\* be read, and then does nothing.
ImportLoad(x) ==
    /\ merged = NotLoaded
    /\ ImportBeside \/ ~serving
    /\ merged' = Imported(ParseOPML(x), Read(file))
    /\ UNCHANGED <<file, cacheVars, pc, req, reply, serving>>

\* Save replaces the file; the command may still fail, in syncDir.
ImportSave ==
    /\ merged # NotLoaded
    /\ file' = Marshal(merged)
    /\ merged' = NotLoaded
    /\ UNCHANGED <<cacheVars, pc, req, reply, serving>>

\* Save fails before the rename, or the process is killed before it.
ImportFails ==
    /\ merged # NotLoaded
    /\ merged' = NotLoaded
    /\ UNCHANGED <<file, cacheVars, pc, req, reply, serving>>

Next ==
    \/ \E t \in Clients :
          \/ \E r \in Requests : Ask(t, r) \/ BadRequest(t, r)
          \/ EnsureLoaded(t) \/ LoadFails(t) \/ Show(t)
          \/ Update(t) \/ Abort(t)
          \/ WriteOPML(t) \/ WriteFails(t) \/ WriteUnsynced(t) \/ Publish(t)
    \/ Serve \/ Die
    \/ \E x \in ImportFiles : ImportLoad(x)
    \/ ImportSave \/ ImportFails

Spec == Init /\ [][Next]_vars

----------------------------------------------------------------------------
(***************************************************************************)
(* Properties.                                                             *)
(***************************************************************************)
\* The variables have their types, and a goroutine is in a request exactly
\* when it has one: nobody but it holds the lock while it writes.
OpmlTypeOK ==
    /\ file \in File \cup {NoFile}
    /\ cur \in List \cup {NotLoaded}
    /\ lock \in Clients \cup {None}
    /\ work \in List
    /\ pc \in [Clients -> Places]
    /\ req \in [Clients -> Requests \cup {None}]
    /\ reply \in [Clients -> Answers]
    /\ serving \in BOOLEAN
    /\ merged \in List \cup {NotLoaded}
    /\ \A t \in Clients :
          /\ pc[t] = "idle" <=> req[t] = None
          /\ pc[t] \in {"write", "publish"} <=> lock = t

\* The pseudo tag __untagged__ never becomes a tag of a feed, by whatever
\* way it comes in (opml.go:110-114).
NoReservedTag ==
    \A o \in {cur, work, merged} \ {NotLoaded} : \A u \in DOMAIN o :
        {Reserved} \notin o[u].tags

\* What a restart would show where the server shows the list o: o itself, or
\* o with one request on it that was refused after the file was renamed.
Restarted(o) ==
    {o} \cup {Changed(r, o) : r \in {q \in Requests : Unsynced /\ ~Aborts(q, o)}}

\* Unless it is being changed, the list the server shows is the one a restart
\* would bring back: every change that was answered is in the file, in full,
\* and at most one that was refused is, the last whose write failed after its
\* rename.  If a directory can always be synced, none is.
ServedSurvivesRestart == cur # NotLoaded /\ lock = None => Read(file) \in Restarted(cur)

\* The list the server shows, or will once it has read the file.
Served ==
    IF cur = NotLoaded THEN Read(file)
    ELSE IF \E t \in Clients : pc[t] = "publish" THEN work ELSE cur

\* Caching, locking and saving implement one list that every request changes
\* at one instant before its answer, and that no crash changes but to grant
\* the last change whose save failed half way.
SL == INSTANCE SubscriptionList WITH
        Imports <- {ParseOPML(x) : x \in ImportFiles},
        list    <- Read(file),
        served  <- Served,
        pending <- [t \in Clients |-> IF pc[t] = "publish" THEN Done ELSE req[t]]

ImplementsSubscriptionList == SL!ListSpec
=============================================================================
