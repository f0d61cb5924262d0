----------------------------- MODULE Downloads -----------------------------
(***************************************************************************)
(* Downloading episodes (Services/DownloadService.swift): the table of     *)
(* active downloads, the tasks of the background URLSession, the files in  *)
(* the documents directory and what the podcast cells show of them.        *)
(*                                                                         *)
(* User calls run on the main thread.  The session's callbacks run on a    *)
(* queue of their own (delegateQueue is nil) and touch the same table      *)
(* without a lock; what they tell the cells is queued on the main thread.  *)
(* Tasks belong to the system: they go on when the app is terminated, and  *)
(* the new process hears of them once it has made its session, which is    *)
(* lazy.                                                                   *)
(*                                                                         *)
(* Bounds, one choice of them per behaviour (instance): how many downloads *)
(* are started, how often the app is started again, how many progress      *)
(* reports wait for the main thread, and how many writes of the table by   *)
(* two threads at once lose one.                                           *)
(***************************************************************************)
EXTENDS Integers, Sequences, FiniteSets, FiniteSetsExt

CONSTANTS
  Url,        \* remote urls of the episodes; each is one podcast and its cell
  Path,       \* places in the documents directory
  NoFile,     \* an empty place
  Instances   \* the place of each url, and the bounds

ASSUME DownloadsAssumption ==
  /\ NoFile \notin Url
  /\ \A i \in Instances :
       i \in [place : [Url -> Path], tasks : Nat, restarts : Nat, queue : Nat, collisions : Nat]

VARIABLES
  active,      \* activeDownloads: url -> entry, in memory
  tasks,       \* every download task ever resumed, in the system
  session,     \* downloadsSession has been made by this process
  copied,      \* the task whose didFinishDownloadingTo has copied its file
  mainQueue,   \* blocks dispatched to the main thread
  files,       \* place -> the url whose content is there
  favourite,   \* the podcasts whose cells have a download button
  cells,       \* url -> what its cell shows
  removed,     \* history: removed by the user and not started again since
  restarts,    \* history: how often the app was started again
  collisions,  \* history: how many table writes were lost
  instance     \* the places and bounds of this behaviour

vars == <<active, tasks, session, copied, mainQueue, files, favourite, cells,
          removed, restarts, collisions, instance>>

-----------------------------------------------------------------------------
(* State.                                                                  *)

View == [isDownloaded : BOOLEAN, isDownloading : BOOLEAN, isGoingDownload : BOOLEAN]

ViewOf(downloaded, downloading, going) ==
  [isDownloaded |-> downloaded, isDownloading |-> downloading,
   isGoingDownload |-> going]

\* A table entry: its task (0 is no entry) and the flags stored with it.
Entry == [task : Nat, isDownloading : BOOLEAN, isGoingDownload : BOOLEAN]

NoEntry == [task |-> 0, isDownloading |-> FALSE, isGoingDownload |-> FALSE]

IsActive(u) == active[u].task # 0

\* finished: all bytes are in a temporary file; closed: the delegate was told.
TaskState == {"running", "suspended", "finished", "failed", "closed"}

TaskRecord == [url : Url, state : TaskState]

\* The place a url is stored at: its last path component.
LocalPath == instance.place

IsStored(u) == files[LocalPath[u]] # NoFile

\* A new cell view model asks the service.  It takes a table entry for a
\* download in progress, even a suspended one.
FreshView(u) == ViewOf(IsStored(u), IsActive(u), active[u].isGoingDownload)

Shows(u, view) == cells' = [cells EXCEPT ![u] = view]

SetTask(i, state) == tasks' = [tasks EXCEPT ![i].state = state]

-----------------------------------------------------------------------------
(* The user, on the main thread.                                           *)

\* Some callback may be storing an entry of the table at this moment.
CallbackIsWriting ==
  \E u \in Url : IsActive(u) /\ tasks[active[u].task].state \in {"running", "finished"}

NewEntry == [task |-> Len(tasks) + 1, isDownloading |-> FALSE, isGoingDownload |-> TRUE]

InsertEntry(u) ==
  /\ active' = [active EXCEPT ![u] = NewEntry]
  /\ UNCHANGED collisions

\* The insertion races with a callback's store into the same dictionary and
\* is lost: the task runs without an entry.
InsertIsLost ==
  /\ collisions < instance.collisions /\ CallbackIsWriting
  /\ collisions' = collisions + 1
  /\ UNCHANGED active

StartDownload(u) ==
  /\ Len(tasks) < instance.tasks
  /\ tasks' = Append(tasks, [url |-> u, state |-> "running"])
  /\ session' = TRUE
  /\ InsertEntry(u) \/ InsertIsLost
  /\ Shows(u, ViewOf(FALSE, FALSE, TRUE))
  /\ removed' = [removed EXCEPT ![u] = FALSE]
  /\ UNCHANGED <<copied, mainQueue, files, favourite, restarts>>

\* Suspending and continuing change a copy of the entry that is not put back.
SuspendDownload(u) ==
  /\ tasks[active[u].task].state = "running"
  /\ SetTask(active[u].task, "suspended")
  /\ Shows(u, ViewOf(FALSE, FALSE, active[u].isGoingDownload))
  /\ UNCHANGED <<active, session, copied, mainQueue, files, favourite, removed,
                 restarts, collisions>>

ContinueDownload(u) ==
  /\ tasks[active[u].task].state = "suspended"
  /\ SetTask(active[u].task, "running")
  /\ Shows(u, ViewOf(FALSE, active[u].isDownloading, TRUE))
  /\ UNCHANGED <<active, session, copied, mainQueue, files, favourite, removed,
                 restarts, collisions>>

\* Mutant of CancelDownload: the entry is found and removed, its task goes on.
CancelDownloadForgets(u) ==
  /\ files' = [files EXCEPT ![LocalPath[u]] = NoFile]
  /\ active' = [active EXCEPT ![u] = NoEntry]
  /\ session' = TRUE
  /\ Shows(u, ViewOf(FALSE, FALSE, FALSE))
  /\ removed' = [removed EXCEPT ![u] = TRUE]
  /\ UNCHANGED <<tasks, copied, mainQueue, restarts, collisions>>

\* The table is searched for the LOCAL url of the podcast, which is never a
\* key of it: an active download is neither cancelled nor forgotten.  The
\* other branch makes a task for the local url, never resumed, and with it the
\* session, and tells the cells that nothing is going on.
CancelDownload(u) ==
  /\ files' = [files EXCEPT ![LocalPath[u]] = NoFile]
  /\ session' = TRUE
  /\ Shows(u, ViewOf(FALSE, FALSE, FALSE))
  /\ removed' = [removed EXCEPT ![u] = TRUE]
  /\ UNCHANGED <<active, tasks, copied, mainQueue, restarts, collisions>>

\* Mutant of Conform: it is not asked whether the file is already there.
ConformAlwaysStarts(u) ==
  /\ u \in favourite /\ ~ cells[u].isGoingDownload
  /\ IF IsActive(u) THEN SuspendDownload(u) \/ ContinueDownload(u) ELSE StartDownload(u)

\* The download button of a favourite's cell, hidden while it is "going".
\* With an entry whose task is neither running nor suspended nothing is done.
Conform(u) ==
  /\ u \in favourite /\ ~ cells[u].isGoingDownload
  /\ IF IsActive(u)
     THEN SuspendDownload(u) \/ ContinueDownload(u)
     ELSE IF IsStored(u) THEN CancelDownload(u) /\ UNCHANGED favourite
                         ELSE StartDownload(u)

Favourite(u) ==
  /\ u \notin favourite
  /\ favourite' = favourite \cup {u}
  /\ UNCHANGED <<active, tasks, session, copied, mainQueue, files, cells, removed,
                 restarts, collisions>>

\* The favourite is removed, here or on another device: DownloadService is a
\* delegate of FavouriteManager.
Unfavourite(u) ==
  /\ u \in favourite
  /\ favourite' = favourite \ {u}
  /\ CancelDownload(u)

CellAppears(u) ==
  /\ Shows(u, FreshView(u))
  /\ UNCHANGED <<active, tasks, session, copied, mainQueue, files, favourite, removed,
                 restarts, collisions>>

-----------------------------------------------------------------------------
(* The system: transport and the session's callbacks.                      *)

\* The transfer of a running task ends, with or without an error.  Nothing
\* implements didCompleteWithError: an error reaches nobody.
TransferEnds(i) ==
  /\ tasks[i].state = "running"
  /\ \E state \in {"finished", "failed"} : SetTask(i, state)
  /\ UNCHANGED <<active, session, copied, mainQueue, files, favourite, cells, removed,
                 restarts, collisions>>

\* Mutant of Dispatch: the newest block runs first.
DispatchFirst(u, view) == mainQueue' = <<[url |-> u, view |-> view]>> \o mainQueue

Dispatch(u, view) == mainQueue' = Append(mainQueue, [url |-> u, view |-> view])

\* Bytes have arrived.  The entry is copied, changed and stored back; no
\* main-thread call writes an entry that is present, so this is one step.
DidWriteData(i) ==
  LET u == tasks[i].url
  IN  /\ session /\ copied = 0
      /\ tasks[i].state = "running"
      /\ IsActive(u)
      /\ Len(mainQueue) < instance.queue
      /\ active' = [active EXCEPT ![u].isDownloading = TRUE, ![u].isGoingDownload = FALSE]
      /\ Dispatch(u, ViewOf(FALSE, TRUE, FALSE))
      /\ UNCHANGED <<tasks, session, copied, files, favourite, cells, removed, restarts,
                     collisions>>

\* Mutant of DidFinishCopy: a file that is there is replaced.
DidFinishReplace(i) ==
  /\ session /\ copied = 0
  /\ tasks[i].state = "finished"
  /\ files' = [files EXCEPT ![LocalPath[tasks[i].url]] = tasks[i].url]
  /\ SetTask(i, "closed")
  /\ copied' = i
  /\ UNCHANGED <<active, session, mainQueue, favourite, cells, removed, restarts,
                 collisions>>

\* didFinishDownloadingTo, first half: the file is copied unless one is there
\* (the error is printed), and the temporary file is deleted.
DidFinishCopy(i) ==
  LET p == LocalPath[tasks[i].url]
  IN  /\ session /\ copied = 0
      /\ tasks[i].state = "finished"
      /\ files' = IF files[p] = NoFile THEN [files EXCEPT ![p] = tasks[i].url] ELSE files
      /\ SetTask(i, "closed")
      /\ copied' = i
      /\ UNCHANGED <<active, session, mainQueue, favourite, cells, removed, restarts,
                     collisions>>

\* Mutant of DidFinishForget: the entry stays in the table.
DidFinishKeepsEntry ==
  LET u == tasks[copied].url
  IN  /\ copied # 0
      /\ copied' = 0
      /\ IF IsActive(u)
         THEN Dispatch(u, ViewOf(TRUE, FALSE, active[u].isGoingDownload))
         ELSE UNCHANGED mainQueue
      /\ UNCHANGED <<active, tasks, session, files, favourite, cells, removed, restarts,
                     collisions>>

\* Second half: the entry of the url, if any, is removed and the end announced.
\* The removal, too, may be lost to a simultaneous write of the main thread.
DidFinishForget ==
  LET u == tasks[copied].url
  IN  /\ copied # 0
      /\ copied' = 0
      /\ IF IsActive(u)
         THEN /\ Dispatch(u, ViewOf(TRUE, FALSE, active[u].isGoingDownload))
              /\ \/ active' = [active EXCEPT ![u] = NoEntry] /\ UNCHANGED collisions
                 \/ /\ collisions < instance.collisions
                    /\ collisions' = collisions + 1
                    /\ UNCHANGED active
         ELSE UNCHANGED <<active, mainQueue, collisions>>
      /\ UNCHANGED <<tasks, session, files, favourite, cells, removed, restarts>>

\* The main thread runs the block at the head of its queue.
RunMainBlock ==
  /\ mainQueue # <<>>
  /\ Shows(Head(mainQueue).url, Head(mainQueue).view)
  /\ mainQueue' = Tail(mainQueue)
  /\ UNCHANGED <<active, tasks, session, copied, files, favourite, removed, restarts,
                 collisions>>

\* The process ends and starts again: what was in memory is gone.  When the
\* system ended it, its tasks go on; when the user did, they are cancelled.
Restart ==
  /\ restarts < instance.restarts
  /\ restarts' = restarts + 1
  /\ active' = [u \in Url |-> NoEntry]
  /\ session' = FALSE /\ copied' = 0 /\ mainQueue' = <<>>
  /\ cells' = [u \in Url |-> ViewOf(IsStored(u), FALSE, FALSE)]
  /\ \/ UNCHANGED tasks
     \/ tasks' = [i \in DOMAIN tasks |->
                    IF tasks[i].state \in {"running", "suspended"}
                    THEN [tasks[i] EXCEPT !.state = "failed"] ELSE tasks[i]]
  /\ UNCHANGED <<files, favourite, removed, collisions>>

-----------------------------------------------------------------------------
Init ==
  /\ active = [u \in Url |-> NoEntry]
  /\ tasks = <<>>
  /\ session = FALSE /\ copied = 0 /\ mainQueue = <<>>
  /\ files = [p \in Path |-> NoFile]
  /\ favourite = {}
  /\ cells = [u \in Url |-> ViewOf(FALSE, FALSE, FALSE)]
  /\ removed = [u \in Url |-> FALSE]
  /\ restarts = 0 /\ collisions = 0
  /\ instance \in Instances

User == \E u \in Url : Conform(u) \/ Favourite(u) \/ Unfavourite(u) \/ CellAppears(u)

Callback ==
  \/ \E i \in DOMAIN tasks : DidWriteData(i) \/ DidFinishCopy(i)
  \/ DidFinishForget

Transfer == \E i \in DOMAIN tasks : TransferEnds(i)

Next ==
  /\ User \/ Callback \/ Transfer \/ RunMainBlock \/ Restart
  /\ UNCHANGED instance

\* The callback queue and the main queue are served.  Nothing is promised of
\* the user, of the network or of the process staying alive.
FinishIsDelivered ==
  (\E i \in DOMAIN tasks : DidFinishCopy(i)) \/ DidFinishForget

Spec ==
  /\ Init /\ [][Next]_vars
  /\ WF_vars(FinishIsDelivered /\ UNCHANGED instance)
  /\ WF_vars(RunMainBlock /\ UNCHANGED instance)

-----------------------------------------------------------------------------
(* Properties.                                                             *)

\* The tables have the declared types and refer to existing tasks.
TypeOK ==
  /\ active \in [Url -> Entry]
  /\ tasks \in Seq(TaskRecord)
  /\ session \in BOOLEAN
  /\ copied \in 0 .. Len(tasks)
  /\ mainQueue \in Seq([url : Url, view : View])
  /\ files \in [Path -> Url \cup {NoFile}]
  /\ favourite \subseteq Url
  /\ cells \in [Url -> View]
  /\ removed \in [Url -> BOOLEAN]
  /\ instance \in Instances
  /\ restarts \in 0 .. instance.restarts /\ collisions \in 0 .. instance.collisions
  /\ \A u \in Url : active[u].task \in 0 .. Len(tasks)

\* The transfers of one url that are under way.
Transfers(u) ==
  {i \in DOMAIN tasks : tasks[i].url = u /\ tasks[i].state \in {"running", "suspended"}}

\* An episode is downloaded twice at once only after a restart (the table is
\* lost, the tasks are not) or a lost write of the table; no order of taps,
\* pauses, removals and callbacks does it.
DuplicatesNeedACause ==
  \A u \in Url : Cardinality(Transfers(u)) <= 1 + restarts + collisions

\* A cell that shows a transfer has one behind it, or news of its end on the
\* way: the removal of the entry and the announcement go out in an order that
\* a queued progress report cannot overtake.
EndIsQueued(u) ==
  \E k \in DOMAIN mainQueue :
    /\ mainQueue[k].url = u /\ ~ mainQueue[k].view.isDownloading
    /\ \A j \in k + 1 .. Len(mainQueue) : mainQueue[j].url # u

NoPhantomTransfer ==
  collisions = 0 =>
    \A u \in Url :
      cells[u].isDownloading => IsActive(u) \/ EndIsQueued(u)

\* When a download is done and its entry forgotten, no stored file is ever
\* replaced: content leaves a place only by removal, and only the place of
\* the podcast whose removal was asked for.
StoredFilesStay ==
  [][\A u \in Url :
       files[LocalPath[u]] = u /\ files'[LocalPath[u]] # u =>
         \E v \in Url : LocalPath[v] = LocalPath[u] /\ removed'[v]]_vars

\* A task whose transfer has finished does not keep its entry: it is taken out
\* and its cell stops showing a transfer, unless a newer one is under way or a
\* write of the table was lost.
ArrivedAs(i) ==
  /\ i \in DOMAIN tasks
  /\ tasks[i].state = "finished" /\ active[tasks[i].url].task = i
LeftAs(i) ==
  LET u == tasks[i].url
  IN  i \in DOMAIN tasks /\ active[u].task # i /\ (cells[u].isDownloading => IsActive(u))
ArrivalIsAnnounced ==
  \A i \in 1 .. Max({k.tasks : k \in Instances}) : ArrivedAs(i) ~> LeftAs(i) \/ collisions > 0

\* An entry that answers no tap, because its task is neither running nor
\* suspended, is one whose transfer failed, is just ending, or whose removal
\* was lost: every other task takes its entry with it.
Answers(u) == tasks[active[u].task].state \in {"running", "suspended"}
OnlyFailuresBlock ==
  \A u \in Url :
    IsActive(u) /\ ~ Answers(u) =>
      \/ tasks[active[u].task].state \in {"failed", "finished"}
      \/ copied = active[u].task
      \/ collisions > 0

\* The service keeps the promise of DownloadLifecycle to every url that has a
\* place of its own.
SharesPlace(u) == \E v \in Url \ {u} : LocalPath[v] = LocalPath[u]
PhaseOf(u) ==
  IF SharesPlace(u) THEN "absent"
  ELSE IF IsActive(u) THEN "loading" ELSE IF IsStored(u) THEN "stored" ELSE "absent"

Lifecycle == INSTANCE DownloadLifecycle WITH phase <- [u \in Url |-> PhaseOf(u)]
ImplementsLifecycle == Lifecycle!Spec

\* DownloadService.swift:237 calls it removing the podcast from the device.
\* A podcast removed and not started again has no file.
RemovedStaysRemoved ==
  \A u \in Url : removed[u] => files[LocalPath[u]] # u

=============================================================================
