-------------------------- MODULE DownloadsProofs --------------------------
(***************************************************************************)
(* Theorems about Downloads, for all urls, places and bounds: what its     *)
(* states are like, what its steps may not do, and that it implements      *)
(* DownloadLifecycle.                                                      *)
(***************************************************************************)
EXTENDS Downloads, TLAPS, SequenceTheorems, FiniteSetTheorems

-----------------------------------------------------------------------------
(* The list of tasks and the main queue.                                   *)

\* A task's state changes, its url does not, nor does any other task.
LEMMA SetTaskKeeps ==
  ASSUME tasks \in Seq(TaskRecord), NEW i \in 1 .. Len(tasks), NEW s \in TaskState,
         SetTask(i, s)
  PROVE  /\ tasks' \in Seq(TaskRecord) /\ Len(tasks') = Len(tasks)
         /\ \A j \in 1 .. Len(tasks) :
              /\ tasks'[j].url = tasks[j].url
              /\ tasks'[j].state = IF j = i THEN s ELSE tasks[j].state
<1> DEFINE r == [tasks[i] EXCEPT !.state = s]
<1>0. tasks[i] \in TaskRecord
  BY ElementOfSeq
<1>1. r \in TaskRecord
  BY <1>0 DEF TaskRecord
<1>2. tasks' = [tasks EXCEPT ![i] = r]
  BY DEF SetTask
<1>3. /\ tasks' \in Seq(TaskRecord) /\ Len(tasks') = Len(tasks)
      /\ \A j \in 1 .. Len(tasks) : tasks'[j] = IF j = i THEN r ELSE tasks[j]
  BY <1>1, <1>2, ExceptSeq
<1>4. r.url = tasks[i].url /\ r.state = s
  BY <1>0 DEF TaskRecord
<1> QED BY <1>3, <1>4

\* Starting adds a running task at the end.
LEMMA AppendKeeps ==
  ASSUME tasks \in Seq(TaskRecord), NEW u \in Url,
         tasks' = Append(tasks, [url |-> u, state |-> "running"])
  PROVE  /\ tasks' \in Seq(TaskRecord) /\ Len(tasks') = Len(tasks) + 1
         /\ tasks'[Len(tasks) + 1] = [url |-> u, state |-> "running"]
         /\ \A j \in 1 .. Len(tasks) : tasks'[j] = tasks[j]
<1>1. [url |-> u, state |-> "running"] \in TaskRecord
  BY DEF TaskRecord, TaskState
<1> QED BY <1>1, AppendProperties, LenProperties

\* The end of the process cancels tasks or leaves them.
LEMMA RestartKeeps ==
  ASSUME tasks \in Seq(TaskRecord), Restart
  PROVE  /\ tasks' \in Seq(TaskRecord) /\ Len(tasks') = Len(tasks)
         /\ \A j \in 1 .. Len(tasks) :
              /\ tasks'[j].url = tasks[j].url
              /\ tasks'[j].state \in {tasks[j].state, "failed"}
<1>1. DOMAIN tasks = 1 .. Len(tasks) /\ Len(tasks) \in Nat
  BY LenProperties
<1>2. CASE UNCHANGED tasks
  BY <1>1, <1>2
<1>3. CASE tasks' = [i \in DOMAIN tasks |->
                       IF tasks[i].state \in {"running", "suspended"}
                       THEN [tasks[i] EXCEPT !.state = "failed"] ELSE tasks[i]]
  <2>1. \A j \in 1 .. Len(tasks) :
          /\ tasks'[j] \in TaskRecord
          /\ tasks'[j].url = tasks[j].url
          /\ tasks'[j].state \in {tasks[j].state, "failed"}
    <3> TAKE j \in 1 .. Len(tasks)
    <3>1. tasks[j] \in TaskRecord
      BY ElementOfSeq
    <3>2. tasks'[j] = IF tasks[j].state \in {"running", "suspended"}
                      THEN [tasks[j] EXCEPT !.state = "failed"] ELSE tasks[j]
      BY <1>1, <1>3
    <3> QED BY <3>1, <3>2 DEF TaskRecord, TaskState
  <2>2. tasks' \in [1 .. Len(tasks) -> TaskRecord]
    BY <1>1, <1>3, <2>1
  <2>3. tasks' \in Seq(TaskRecord) /\ Len(tasks') = Len(tasks)
    BY <1>1, <2>2, SeqDef
  <2> QED BY <2>1, <2>3
<1> QED BY <1>2, <1>3 DEF Restart

-----------------------------------------------------------------------------
(* Type correctness.                                                       *)

\* The bounds and places of an instance.
LEMMA InstanceTypes ==
  ASSUME instance \in Instances
  PROVE  /\ instance.place \in [Url -> Path]
         /\ instance.restarts \in Nat /\ instance.collisions \in Nat
<1>1. instance \in [place : [Url -> Path], tasks : Nat, restarts : Nat, queue : Nat,
                    collisions : Nat]
  BY DownloadsAssumption
<1> QED BY <1>1

\* Whether its podcast is stored, what a cell shows is a view.
LEMMA ViewTypes ==
  ASSUME NEW x \in BOOLEAN, NEW y \in BOOLEAN, NEW z \in BOOLEAN
  PROVE  ViewOf(x, y, z) \in View
BY DEF ViewOf, View

\* The variables have their types in the initial state.
LEMMA InitTypes == Init => TypeOK
<1> SUFFICES ASSUME Init PROVE TypeOK
  OBVIOUS
<1>1. tasks \in Seq(TaskRecord) /\ Len(tasks) = 0 /\ mainQueue \in Seq([url : Url, view : View])
  BY EmptySeq DEF Init
<1>2. cells \in [Url -> View]
  BY ViewTypes DEF Init
<1>3. active \in [Url -> Entry] /\ \A u \in Url : active[u].task = 0
  BY DEF Init, NoEntry, Entry
<1>4. /\ restarts \in 0 .. instance.restarts /\ collisions \in 0 .. instance.collisions
      /\ copied \in 0 .. Len(tasks)
      /\ \A u \in Url : active[u].task \in 0 .. Len(tasks)
  BY <1>1, <1>3, InstanceTypes DEF Init
<1>5. /\ session \in BOOLEAN /\ favourite \subseteq Url /\ removed \in [Url -> BOOLEAN]
      /\ files \in [Path -> Url \cup {NoFile}] /\ instance \in Instances
  BY DEF Init
<1> QED BY <1>1, <1>2, <1>3, <1>4, <1>5 DEF TypeOK

\* What an entry, its task and the tasks' list are when the types are right.
LEMMA TaskOf ==
  ASSUME TypeOK, NEW u \in Url, IsActive(u)
  PROVE  /\ active[u].task \in 1 .. Len(tasks)
         /\ tasks[active[u].task] \in TaskRecord
         /\ active[u].isDownloading \in BOOLEAN /\ active[u].isGoingDownload \in BOOLEAN
<1>1. active[u] \in Entry /\ active[u].task \in 0 .. Len(tasks) /\ Len(tasks) \in Nat
  BY DEF TypeOK
<1>2. active[u].task \in 1 .. Len(tasks)
  BY <1>1 DEF IsActive
<1>3. tasks[active[u].task] \in TaskRecord
  BY <1>2, ElementOfSeq DEF TypeOK
<1> QED BY <1>1, <1>2, <1>3 DEF Entry

\* The actions of the user that neither add a task nor touch the table.
LEMMA QuietTypes ==
  ASSUME TypeOK, UNCHANGED instance,
         NEW u \in Url, Favourite(u) \/ Unfavourite(u) \/ CellAppears(u) \/ CancelDownload(u),
         favourite' \subseteq Url
  PROVE  TypeOK'
<1>1. ViewOf(FALSE, FALSE, FALSE) \in View
  BY ViewTypes
<1>2. FreshView(u) \in View
  <2>1. IsStored(u) \in BOOLEAN /\ IsActive(u) \in BOOLEAN /\ active[u].isGoingDownload \in BOOLEAN
    BY DEF IsStored, IsActive, TypeOK, Entry
  <2> QED BY <2>1, ViewTypes DEF FreshView
<1>3. cells' \in [Url -> View]
  BY <1>1, <1>2 DEF TypeOK, Favourite, Unfavourite, CellAppears, CancelDownload, Shows
<1>4. files' \in [Path -> Url \cup {NoFile}] /\ removed' \in [Url -> BOOLEAN]
  BY DEF TypeOK, Favourite, Unfavourite, CellAppears, CancelDownload
<1>5. session' \in BOOLEAN
  BY DEF TypeOK, Favourite, Unfavourite, CellAppears, CancelDownload
<1>6. UNCHANGED <<active, tasks, copied, mainQueue, restarts, collisions>>
  BY DEF Favourite, Unfavourite, CellAppears, CancelDownload
<1> QED BY <1>3, <1>4, <1>5, <1>6 DEF TypeOK

\* Pausing and continuing change one task's state.
LEMMA ToggleTypes ==
  ASSUME TypeOK, UNCHANGED instance,
         NEW u \in Url, IsActive(u), SuspendDownload(u) \/ ContinueDownload(u)
  PROVE  TypeOK'
<1>1. PICK s \in {"running", "suspended"} : SetTask(active[u].task, s)
  BY DEF SuspendDownload, ContinueDownload
<1>2. tasks' \in Seq(TaskRecord) /\ Len(tasks') = Len(tasks)
  BY <1>1, TaskOf, SetTaskKeeps DEF TypeOK, TaskState
<1>3. cells' \in [Url -> View]
  <2>1. \E v \in View : Shows(u, v)
    BY TaskOf, ViewTypes DEF SuspendDownload, ContinueDownload
  <2> QED BY <2>1 DEF Shows, TypeOK
<1>4. UNCHANGED <<active, session, copied, mainQueue, files, favourite, removed, restarts,
                  collisions>>
  BY DEF SuspendDownload, ContinueDownload
<1> QED BY <1>2, <1>3, <1>4 DEF TypeOK

\* A new task is the last of the list, and the entry names it.
LEMMA StartTypes ==
  ASSUME TypeOK, UNCHANGED <<instance, favourite>>, NEW u \in Url, StartDownload(u)
  PROVE  TypeOK'
<1>1. tasks' \in Seq(TaskRecord) /\ Len(tasks') = Len(tasks) + 1 /\ Len(tasks) \in Nat
  BY AppendKeeps DEF StartDownload, TypeOK
<1>2. NewEntry \in Entry /\ NewEntry.task = Len(tasks) + 1
  BY <1>1 DEF NewEntry, Entry
<1>3. /\ active' \in [Url -> Entry]
      /\ \A v \in Url : active'[v].task \in 0 .. Len(tasks')
      /\ collisions' \in 0 .. instance.collisions
  <2>1. CASE InsertEntry(u)
    BY <1>1, <1>2, <2>1 DEF InsertEntry, TypeOK
  <2>2. CASE InsertIsLost
    BY <1>1, <2>2, InstanceTypes DEF InsertIsLost, TypeOK
  <2> QED BY <2>1, <2>2 DEF StartDownload
<1>4. cells' \in [Url -> View] /\ removed' \in [Url -> BOOLEAN]
  <2>1. \E v \in View : Shows(u, v)
    BY ViewTypes DEF StartDownload
  <2> QED BY <2>1 DEF Shows, TypeOK, StartDownload
<1>5. session' \in BOOLEAN /\ copied' \in 0 .. Len(tasks')
  BY <1>1 DEF StartDownload, TypeOK
<1>6. UNCHANGED <<mainQueue, files, favourite, restarts>>
  BY DEF StartDownload
<1> QED BY <1>1, <1>3, <1>4, <1>5, <1>6 DEF TypeOK

\* A task of the list is a record with a url.
LEMMA TaskTypes ==
  ASSUME TypeOK, NEW i \in DOMAIN tasks
  PROVE  i \in 1 .. Len(tasks) /\ tasks[i] \in TaskRecord /\ tasks[i].url \in Url
<1>1. i \in 1 .. Len(tasks)
  BY LenProperties DEF TypeOK
<1>2. tasks[i] \in TaskRecord
  BY <1>1, ElementOfSeq DEF TypeOK
<1> QED BY <1>1, <1>2 DEF TaskRecord

\* The transfer ends in one of its two ways.
LEMMA EndTypes ==
  ASSUME TypeOK, UNCHANGED instance, NEW i \in DOMAIN tasks, TransferEnds(i)
  PROVE  TypeOK'
<1>1. i \in 1 .. Len(tasks)
  BY LenProperties DEF TypeOK
<1>2. PICK s \in TaskState : SetTask(i, s)
  BY DEF TransferEnds, TaskState
<1>3. tasks' \in Seq(TaskRecord) /\ Len(tasks') = Len(tasks)
  BY <1>1, <1>2, SetTaskKeeps DEF TypeOK
<1>4. UNCHANGED <<active, session, copied, mainQueue, files, favourite, cells, removed, restarts,
                  collisions>>
  BY DEF TransferEnds
<1> QED BY <1>3, <1>4 DEF TypeOK

\* A progress report marks the entry and is queued.
LEMMA WriteTypes ==
  ASSUME TypeOK, UNCHANGED instance, NEW i \in DOMAIN tasks, DidWriteData(i)
  PROVE  TypeOK'
<1> DEFINE u == tasks[i].url
<1>1. u \in Url
  BY TaskTypes
<1>2. mainQueue' \in Seq([url : Url, view : View])
  <2>1. [url |-> u, view |-> ViewOf(FALSE, TRUE, FALSE)] \in [url : Url, view : View]
    BY <1>1, ViewTypes
  <2> QED BY <2>1, AppendProperties DEF DidWriteData, Dispatch, TypeOK
<1>3. /\ active' \in [Url -> Entry]
      /\ \A v \in Url : active'[v].task = active[v].task
  <2>1. ASSUME NEW v \in Url
        PROVE  active'[v] \in Entry /\ active'[v].task = active[v].task
    <3>1. active[v] \in Entry /\ active \in [Url -> Entry]
      BY DEF TypeOK
    <3>2. v # u => active'[v] = active[v]
      BY <1>1, <3>1 DEF DidWriteData
    <3>3. active'[u] = [active[u] EXCEPT !.isDownloading = TRUE, !.isGoingDownload = FALSE]
      BY <1>1, <3>1 DEF DidWriteData
    <3> QED BY <3>1, <3>2, <3>3 DEF Entry
  <2>2. active' \in [Url -> Entry]
    <3> DEFINE marked == [active EXCEPT ![u].isDownloading = TRUE]
    <3>1. marked \in [Url -> Entry]
      BY DEF TypeOK, Entry
    <3>2. active' = [marked EXCEPT ![u].isGoingDownload = FALSE]
      BY DEF DidWriteData
    <3> QED BY <3>1, <3>2 DEF Entry
  <2> QED BY <2>1, <2>2
<1>4. UNCHANGED <<tasks, session, copied, files, favourite, cells, removed, restarts,
                  collisions>>
  BY DEF DidWriteData
<1> QED BY <1>2, <1>3, <1>4 DEF TypeOK

\* The file is copied and the task closed.
LEMMA CopyTypes ==
  ASSUME TypeOK, UNCHANGED instance, NEW i \in DOMAIN tasks, DidFinishCopy(i)
  PROVE  TypeOK'
<1>1. i \in 1 .. Len(tasks)
  BY LenProperties DEF TypeOK
<1>2. tasks[i].url \in Url
  BY TaskTypes
<1>3. tasks' \in Seq(TaskRecord) /\ Len(tasks') = Len(tasks)
  BY <1>1, SetTaskKeeps DEF TypeOK, DidFinishCopy, TaskState
<1>4. files' \in [Path -> Url \cup {NoFile}]
  BY <1>2 DEF DidFinishCopy, TypeOK
<1>5. copied' \in 0 .. Len(tasks')
  BY <1>1, <1>3 DEF DidFinishCopy
<1>6. UNCHANGED <<active, session, mainQueue, favourite, cells, removed, restarts, collisions>>
  BY DEF DidFinishCopy
<1> QED BY <1>3, <1>4, <1>5, <1>6 DEF TypeOK

\* The entry is removed, or the removal is lost and counted.
LEMMA ForgetTypes ==
  ASSUME TypeOK, UNCHANGED instance, DidFinishForget
  PROVE  TypeOK'
<1> DEFINE u == tasks[copied].url
<1>1. u \in Url /\ copied \in DOMAIN tasks
  <2>1. copied \in DOMAIN tasks
    BY LenProperties DEF DidFinishForget, TypeOK
  <2> QED BY <2>1, TaskTypes
<1>2. /\ active[u].isGoingDownload \in BOOLEAN /\ NoEntry \in Entry /\ Len(tasks) \in Nat
      /\ \A v \in Url : active[v].task \in 0 .. Len(tasks)
  BY <1>1, LenProperties DEF TypeOK, Entry, NoEntry
<1>3. UNCHANGED <<tasks, session, files, favourite, cells, removed, restarts>> /\ copied' = 0
  BY DEF DidFinishForget
<1>4. CASE ~ IsActive(u)
  <2>1. UNCHANGED <<active, mainQueue, collisions>>
    BY <1>4 DEF DidFinishForget
  <2> QED BY <1>2, <1>3, <2>1 DEF TypeOK
<1>5. CASE IsActive(u)
  <2>1. mainQueue' \in Seq([url : Url, view : View])
    <3>1. Dispatch(u, ViewOf(TRUE, FALSE, active[u].isGoingDownload))
      BY <1>5 DEF DidFinishForget
    <3>2. [url |-> u, view |-> ViewOf(TRUE, FALSE, active[u].isGoingDownload)]
            \in [url : Url, view : View]
      BY <1>1, <1>2, ViewTypes
    <3> QED BY <3>1, <3>2, AppendProperties DEF Dispatch, TypeOK
  <2>2. CASE active' = [active EXCEPT ![u] = NoEntry] /\ UNCHANGED collisions
    <3>1. active' \in [Url -> Entry] /\ \A v \in Url : active'[v].task \in 0 .. Len(tasks)
      BY <1>1, <1>2, <2>2 DEF TypeOK, NoEntry
    <3> QED BY <1>2, <1>3, <2>1, <2>2, <3>1 DEF TypeOK
  <2>3. CASE /\ collisions < instance.collisions /\ collisions' = collisions + 1
             /\ UNCHANGED active
    <3>1. collisions' \in 0 .. instance.collisions
      BY <2>3, InstanceTypes DEF TypeOK
    <3> QED BY <1>2, <1>3, <2>1, <2>3, <3>1 DEF TypeOK
  <2> QED BY <1>5, <2>2, <2>3 DEF DidFinishForget
<1> QED BY <1>4, <1>5

\* The block at the head of the queue changes one cell.
LEMMA BlockTypes ==
  ASSUME TypeOK, UNCHANGED instance, RunMainBlock
  PROVE  TypeOK'
<1>1. /\ Head(mainQueue) \in [url : Url, view : View]
      /\ mainQueue' \in Seq([url : Url, view : View])
  BY HeadTailProperties DEF RunMainBlock, TypeOK
<1>2. cells' \in [Url -> View]
  BY <1>1 DEF RunMainBlock, Shows, TypeOK
<1>3. UNCHANGED <<active, tasks, session, copied, files, favourite, removed, restarts,
                  collisions>>
  BY DEF RunMainBlock
<1> QED BY <1>1, <1>2, <1>3 DEF TypeOK

\* A new process starts with nothing in memory.
LEMMA RestartTypes ==
  ASSUME TypeOK, UNCHANGED instance, Restart
  PROVE  TypeOK'
<1>1. tasks' \in Seq(TaskRecord) /\ Len(tasks') = Len(tasks) /\ Len(tasks) \in Nat
  BY RestartKeeps DEF TypeOK
<1>2. active' \in [Url -> Entry] /\ \A u \in Url : active'[u].task = 0
  BY DEF Restart, NoEntry, Entry
<1>3. cells' \in [Url -> View]
  <2>1. \A u \in Url : ViewOf(IsStored(u), FALSE, FALSE) \in View
    BY ViewTypes DEF IsStored
  <2> QED BY <2>1 DEF Restart
<1>4. restarts' \in 0 .. instance.restarts
  BY InstanceTypes DEF Restart, TypeOK
<1>5. /\ session' \in BOOLEAN /\ copied' \in 0 .. Len(tasks')
      /\ mainQueue' \in Seq([url : Url, view : View])
  <2>1. session' = FALSE /\ copied' = 0 /\ mainQueue' = <<>>
    BY DEF Restart
  <2>2. mainQueue' \in Seq([url : Url, view : View])
    BY <2>1
  <2>3. copied' \in 0 .. Len(tasks')
    BY <1>1, <2>1
  <2>4. session' \in BOOLEAN
    BY <2>1
  <2> QED BY <2>2, <2>3, <2>4
<1>6. UNCHANGED <<files, favourite, removed, collisions>>
  BY DEF Restart
<1> QED BY <1>1, <1>2, <1>3, <1>4, <1>5, <1>6 DEF TypeOK

\* Which primitive steps a step of the system is made of.
LEMMA StepCases ==
  ASSUME Next
  PROVE  /\ UNCHANGED instance
         /\ \/ \E u \in Url :
                 \/ Favourite(u) \/ Unfavourite(u) \/ CellAppears(u)
                 \/ CancelDownload(u) /\ UNCHANGED favourite
                 \/ IsActive(u) /\ (SuspendDownload(u) \/ ContinueDownload(u))
                 \/ StartDownload(u) /\ ~ IsActive(u) /\ ~ IsStored(u)
            \/ \E i \in DOMAIN tasks :
                 TransferEnds(i) \/ DidWriteData(i) \/ DidFinishCopy(i)
            \/ DidFinishForget
            \/ RunMainBlock
            \/ Restart
<1>1. \A u \in Url : Conform(u) =>
        \/ CancelDownload(u) /\ UNCHANGED favourite
        \/ IsActive(u) /\ (SuspendDownload(u) \/ ContinueDownload(u))
        \/ StartDownload(u) /\ ~ IsActive(u) /\ ~ IsStored(u)
  BY DEF Conform
<1> QED BY <1>1 DEF Next, User, Callback, Transfer

\* Every step keeps the types.
LEMMA StepTypes == TypeOK /\ [Next]_vars => TypeOK'
<1> SUFFICES ASSUME TypeOK, [Next]_vars PROVE TypeOK'
  OBVIOUS
<1>1. CASE UNCHANGED vars
  BY <1>1 DEF vars, TypeOK
<1>2. CASE Next
  <2>0. UNCHANGED instance
    BY <1>2, StepCases
  <2>1. ASSUME NEW u \in Url,
               \/ Favourite(u) \/ Unfavourite(u) \/ CellAppears(u)
               \/ CancelDownload(u) /\ UNCHANGED favourite
        PROVE  TypeOK'
    <3>1. favourite' \subseteq Url
      BY <2>1 DEF TypeOK, Favourite, Unfavourite, CellAppears
    <3>2. Favourite(u) \/ Unfavourite(u) \/ CellAppears(u) \/ CancelDownload(u)
      BY <2>1
    <3> QED BY <2>0, <3>1, <3>2, QuietTypes
  <2>2. ASSUME NEW u \in Url, IsActive(u), SuspendDownload(u) \/ ContinueDownload(u)
        PROVE  TypeOK'
    BY <2>0, <2>2, ToggleTypes
  <2>3. ASSUME NEW u \in Url, StartDownload(u)
        PROVE  TypeOK'
    <3>1. UNCHANGED favourite
      BY <2>3 DEF StartDownload
    <3> QED BY <2>0, <2>3, <3>1, StartTypes
  <2>4. ASSUME NEW i \in DOMAIN tasks, TransferEnds(i) \/ DidWriteData(i) \/ DidFinishCopy(i)
        PROVE  TypeOK'
    BY <2>0, <2>4, EndTypes, WriteTypes, CopyTypes
  <2>5. CASE DidFinishForget \/ RunMainBlock \/ Restart
    BY <2>0, <2>5, ForgetTypes, BlockTypes, RestartTypes
  <2> QED BY <1>2, <2>1, <2>2, <2>3, <2>4, <2>5, StepCases
<1> QED BY <1>1, <1>2

\* Every reachable state of the service has the declared types, and entries
\* and callbacks refer to existing tasks.
THEOREM TypeCorrect == Spec => []TypeOK
BY InitTypes, StepTypes, PTL DEF Spec

-----------------------------------------------------------------------------
(* What is stored.                                                         *)

\* No stored file is ever replaced: only a removal empties a place.
THEOREM FilesStay == Spec => StoredFilesStay
<1> DEFINE Stay == \A u \in Url :
                     files[LocalPath[u]] = u /\ files'[LocalPath[u]] # u =>
                       \E v \in Url : LocalPath[v] = LocalPath[u] /\ removed'[v]
<1>1. TypeOK /\ [Next]_vars => Stay
  <2> SUFFICES ASSUME TypeOK, [Next]_vars, NEW u \in Url,
                      files[LocalPath[u]] = u, files'[LocalPath[u]] # u
               PROVE  \E v \in Url : LocalPath[v] = LocalPath[u] /\ removed'[v]
    OBVIOUS
  <2>0. Next /\ files' # files
    BY DEF vars
  <2>1. u # NoFile /\ LocalPath[u] \in Path
    BY DownloadsAssumption, InstanceTypes DEF LocalPath, TypeOK
  <2>2. ASSUME NEW v \in Url, CancelDownload(v)
        PROVE  LocalPath[v] = LocalPath[u] /\ removed'[v]
    <3>1. /\ files' = [files EXCEPT ![LocalPath[v]] = NoFile]
          /\ removed' = [removed EXCEPT ![v] = TRUE]
      BY <2>2 DEF CancelDownload
    <3> QED BY <2>1, <3>1 DEF TypeOK
  <2>3. ASSUME NEW i \in DOMAIN tasks, DidFinishCopy(i)
        PROVE  FALSE
    BY <2>0, <2>1, <2>3 DEF DidFinishCopy, TypeOK
  <2>4. PICK v \in Url : CancelDownload(v)
    <3>1. \/ \E v \in Url : CancelDownload(v) \/ Unfavourite(v)
          \/ \E i \in DOMAIN tasks : DidFinishCopy(i)
          \/ UNCHANGED files
      BY <2>0, StepCases DEF Favourite, CellAppears, SuspendDownload, ContinueDownload,
           StartDownload, TransferEnds, DidWriteData, DidFinishForget, RunMainBlock, Restart
    <3> QED BY <2>0, <2>3, <3>1 DEF Unfavourite
  <2> QED BY <2>2, <2>4
<1>2. Spec => [][Stay]_vars
  BY <1>1, TypeCorrect, PTL DEF Spec
<1> QED BY <1>2 DEF StoredFilesStay

-----------------------------------------------------------------------------
(* Entries and their tasks.                                                *)

\* An entry belongs to the url of its task, and the task being ended is closed.
EntriesMatch ==
  /\ \A u \in Url : IsActive(u) => tasks[active[u].task].url = u
  /\ copied # 0 => tasks[copied].state = "closed"

\* The transfers of a url its entry does not know: the callback that is ending
\* one counts until it is done.
Loose(u) ==
  {i \in DOMAIN tasks :
     /\ tasks[i].url = u /\ i # active[u].task
     /\ tasks[i].state \in {"running", "suspended", "finished"} \/ i = copied}

LooseHaveACause == \A u \in Url : Cardinality(Loose(u)) <= restarts + collisions

\* A report of progress in the queue has its transfer, or is followed by the
\* news of its end.
ReportsAreCurrent ==
  collisions = 0 =>
    \A k \in DOMAIN mainQueue :
      mainQueue[k].view.isDownloading =>
        IsActive(mainQueue[k].url) \/ EndIsQueued(mainQueue[k].url)

\* A step appends to the list of tasks, changes states in it, or leaves it: no
\* url changes.
LEMMA UrlsStay ==
  ASSUME TypeOK, Next
  PROVE  \A i \in DOMAIN tasks : i \in DOMAIN tasks' /\ tasks'[i].url = tasks[i].url
<1>0. DOMAIN tasks = 1 .. Len(tasks) /\ Len(tasks) \in Nat /\ tasks \in Seq(TaskRecord)
  BY LenProperties DEF TypeOK
<1>00. tasks' \in Seq(TaskRecord) => DOMAIN tasks' = 1 .. Len(tasks')
  BY LenProperties
<1>1. ASSUME NEW i \in 1 .. Len(tasks), NEW s \in TaskState, SetTask(i, s)
      PROVE  \A j \in DOMAIN tasks : j \in DOMAIN tasks' /\ tasks'[j].url = tasks[j].url
  BY <1>0, <1>00, <1>1, SetTaskKeeps
<1>2. ASSUME NEW u \in Url, StartDownload(u)
      PROVE  \A j \in DOMAIN tasks : j \in DOMAIN tasks' /\ tasks'[j].url = tasks[j].url
  <2>1. /\ tasks' \in Seq(TaskRecord) /\ Len(tasks') = Len(tasks) + 1
        /\ \A j \in 1 .. Len(tasks) : tasks'[j] = tasks[j]
    BY <1>0, <1>2, AppendKeeps DEF StartDownload
  <2> QED BY <1>0, <1>00, <2>1
<1>3. CASE Restart
  BY <1>0, <1>00, <1>3, RestartKeeps
<1>4. CASE UNCHANGED tasks
  BY <1>4
<1>5. ASSUME NEW u \in Url, IsActive(u), SuspendDownload(u) \/ ContinueDownload(u)
      PROVE  \A j \in DOMAIN tasks : j \in DOMAIN tasks' /\ tasks'[j].url = tasks[j].url
  <2>1. PICK s \in TaskState : SetTask(active[u].task, s)
    BY <1>5 DEF SuspendDownload, ContinueDownload, TaskState
  <2> QED BY <1>1, <1>5, <2>1, TaskOf
<1>6. ASSUME NEW i \in DOMAIN tasks, TransferEnds(i) \/ DidFinishCopy(i)
      PROVE  \A j \in DOMAIN tasks : j \in DOMAIN tasks' /\ tasks'[j].url = tasks[j].url
  <2>1. PICK s \in TaskState : SetTask(i, s)
    BY <1>6 DEF TransferEnds, DidFinishCopy, TaskState
  <2> QED BY <1>0, <1>1, <2>1
<1>7. ASSUME NEW u \in Url, Favourite(u) \/ Unfavourite(u) \/ CellAppears(u) \/ CancelDownload(u)
      PROVE  UNCHANGED tasks
  BY <1>7 DEF Favourite, Unfavourite, CellAppears, CancelDownload
<1>8. ASSUME NEW i \in DOMAIN tasks, DidWriteData(i)
      PROVE  UNCHANGED tasks
  BY <1>8 DEF DidWriteData
<1>9. DidFinishForget \/ RunMainBlock => UNCHANGED tasks
  BY DEF DidFinishForget, RunMainBlock
<1> QED BY <1>2, <1>3, <1>4, <1>5, <1>6, <1>7, <1>8, <1>9, StepCases

\* A new entry is the one of its url's new task.
LEMMA StepMatches == TypeOK /\ EntriesMatch /\ [Next]_vars => EntriesMatch'
<1> SUFFICES ASSUME TypeOK, EntriesMatch, [Next]_vars PROVE EntriesMatch'
  OBVIOUS
<1>1. CASE UNCHANGED vars
  BY <1>1 DEF vars, EntriesMatch, IsActive
<1>2. CASE Next
  <2>0. TypeOK' /\ DOMAIN tasks = 1 .. Len(tasks) /\ Len(tasks) \in Nat
    BY <1>2, StepTypes, LenProperties DEF TypeOK
  <2>1. ASSUME NEW u \in Url, active'[u].task = active[u].task, active'[u].task # 0
        PROVE  tasks'[active'[u].task].url = u
    <3>1. IsActive(u)
      BY <2>1 DEF IsActive
    <3>2. active[u].task \in DOMAIN tasks
      BY <2>0, <3>1, TaskOf
    <3> QED BY <1>2, <2>1, <3>1, <3>2, UrlsStay DEF EntriesMatch
  <2>2. \A u \in Url : active'[u].task # 0 => tasks'[active'[u].task].url = u
    <3>1. ASSUME NEW v \in Url, StartDownload(v), NEW u \in Url, active'[u].task # 0
          PROVE  tasks'[active'[u].task].url = u
      <4>1. tasks'[Len(tasks) + 1].url = v
        BY <3>1, AppendKeeps DEF StartDownload, TypeOK
      <4>2. active'[u].task = active[u].task \/ (u = v /\ active'[u].task = Len(tasks) + 1)
        BY <3>1 DEF StartDownload, InsertEntry, InsertIsLost, NewEntry, TypeOK
      <4> QED BY <2>1, <3>1, <4>1, <4>2
    <3>2. CASE UNCHANGED active
      BY <2>1, <3>2
    <3>3. ASSUME NEW i \in DOMAIN tasks, DidWriteData(i), NEW u \in Url
          PROVE  active'[u].task = active[u].task
      <4>1. active[tasks[i].url] \in Entry
        BY TaskTypes DEF TypeOK
      <4> QED BY <3>3, <4>1 DEF DidWriteData, TypeOK, Entry
    <3>4. CASE DidFinishForget
      <4>0. \/ UNCHANGED active
            \/ active' = [active EXCEPT ![tasks[copied].url] = NoEntry]
        BY <3>4 DEF DidFinishForget
      <4>1. \A u \in Url : active'[u].task \in {active[u].task, 0}
        BY <4>0 DEF NoEntry, TypeOK
      <4> QED BY <2>1, <4>1
    <3>5. CASE Restart
      BY <3>5 DEF Restart, NoEntry
    <3>6. ASSUME NEW u \in Url, \/ Favourite(u) \/ Unfavourite(u) \/ CellAppears(u)
                                \/ CancelDownload(u) \/ SuspendDownload(u) \/ ContinueDownload(u)
          PROVE  UNCHANGED active
      BY <3>6 DEF Favourite, Unfavourite, CellAppears, CancelDownload, SuspendDownload,
           ContinueDownload
    <3>7. ASSUME NEW i \in DOMAIN tasks, TransferEnds(i) \/ DidFinishCopy(i)
          PROVE  UNCHANGED active
      BY <3>7 DEF TransferEnds, DidFinishCopy
    <3>8. RunMainBlock => UNCHANGED active
      BY DEF RunMainBlock
    <3> QED BY <1>2, <2>1, <3>1, <3>2, <3>3, <3>4, <3>5, <3>6, <3>7, <3>8, StepCases
  <2>3. ASSUME copied' # 0
        PROVE  tasks'[copied'].state = "closed"
    <3>1. ASSUME NEW i \in DOMAIN tasks, DidFinishCopy(i)
          PROVE  tasks'[copied'].state = "closed"
      BY <3>1, TaskTypes, SetTaskKeeps DEF DidFinishCopy, TypeOK, TaskState
    <3>2. ASSUME UNCHANGED copied, NEW i \in 1 .. Len(tasks), NEW s \in TaskState, SetTask(i, s),
                 tasks[i].state # "closed"
          PROVE  tasks'[copied'].state = "closed"
      <4>1. copied \in 1 .. Len(tasks) /\ tasks[copied].state = "closed"
        BY <2>0, <2>3, <3>2 DEF TypeOK, EntriesMatch
      <4>2. tasks'[copied].state = IF copied = i THEN s ELSE tasks[copied].state
        BY <3>2, <4>1, SetTaskKeeps DEF TypeOK
      <4> QED BY <3>2, <4>1, <4>2
    <3>3. ASSUME UNCHANGED copied, NEW u \in Url, StartDownload(u)
          PROVE  tasks'[copied'].state = "closed"
      <4>1. copied \in 1 .. Len(tasks) /\ tasks[copied].state = "closed"
        BY <2>0, <2>3, <3>3 DEF TypeOK, EntriesMatch
      <4>2. tasks'[copied] = tasks[copied]
        BY <3>3, <4>1, AppendKeeps DEF StartDownload, TypeOK
      <4> QED BY <3>3, <4>1, <4>2
    <3>4. ASSUME NEW u \in Url, IsActive(u), SuspendDownload(u) \/ ContinueDownload(u)
          PROVE  tasks'[copied'].state = "closed"
      <4>1. PICK s \in TaskState : SetTask(active[u].task, s)
        BY <3>4 DEF SuspendDownload, ContinueDownload, TaskState
      <4>2. UNCHANGED copied /\ tasks[active[u].task].state # "closed"
        BY <3>4 DEF SuspendDownload, ContinueDownload
      <4> QED BY <3>2, <3>4, <4>1, <4>2, TaskOf
    <3>5. ASSUME NEW i \in DOMAIN tasks, TransferEnds(i)
          PROVE  tasks'[copied'].state = "closed"
      <4>1. PICK s \in TaskState : SetTask(i, s)
        BY <3>5 DEF TransferEnds, TaskState
      <4>2. UNCHANGED copied /\ tasks[i].state # "closed"
        BY <3>5 DEF TransferEnds
      <4> QED BY <2>0, <3>2, <4>1, <4>2
    <3>6. ASSUME UNCHANGED <<tasks, copied>>
          PROVE  tasks'[copied'].state = "closed"
      BY <2>3, <3>6 DEF EntriesMatch
    <3>7. ASSUME NEW u \in Url, Favourite(u) \/ Unfavourite(u) \/ CellAppears(u) \/ CancelDownload(u)
          PROVE  UNCHANGED <<tasks, copied>>
      BY <3>7 DEF Favourite, Unfavourite, CellAppears, CancelDownload
    <3>8. ASSUME NEW i \in DOMAIN tasks, DidWriteData(i)
          PROVE  UNCHANGED <<tasks, copied>>
      BY <3>8 DEF DidWriteData
    <3>9. RunMainBlock => UNCHANGED <<tasks, copied>>
      BY DEF RunMainBlock
    <3>10. ~ DidFinishForget /\ ~ Restart
      BY <2>3 DEF DidFinishForget, Restart
    <3>11. \A u \in Url : StartDownload(u) => UNCHANGED copied
      BY DEF StartDownload
    <3> QED BY <1>2, <3>1, <3>3, <3>4, <3>5, <3>6, <3>7, <3>8, <3>9, <3>10, <3>11, StepCases
  <2> QED BY <2>2, <2>3 DEF EntriesMatch, IsActive
<1> QED BY <1>1, <1>2

\* Only the end of a transfer closes its task, and its entry goes with it.
LEMMA StepBlocks ==
  TypeOK /\ EntriesMatch /\ OnlyFailuresBlock /\ [Next]_vars => OnlyFailuresBlock'
<1> SUFFICES ASSUME TypeOK, EntriesMatch, OnlyFailuresBlock, [Next]_vars PROVE OnlyFailuresBlock'
  OBVIOUS
<1>1. CASE UNCHANGED vars
  BY <1>1 DEF vars, OnlyFailuresBlock, Answers, IsActive
<1>2. CASE Next
  <2>0. /\ TypeOK' /\ DOMAIN tasks = 1 .. Len(tasks) /\ Len(tasks) \in Nat
        /\ \A u \in Url : active'[u].task # 0 =>
             tasks'[active'[u].task].state \in TaskState
    <3>1. TypeOK'
      BY <1>2, StepTypes
    <3>2. \A u \in Url : active'[u].task # 0 => tasks'[active'[u].task] \in TaskRecord
      BY <3>1, ElementOfSeq DEF TypeOK
    <3> QED BY <3>1, <3>2, LenProperties DEF TypeOK, TaskRecord
  <2> SUFFICES ASSUME NEW u \in Url, active'[u].task # 0,
                      tasks'[active'[u].task].state = "closed"
               PROVE  copied' = active'[u].task \/ collisions' > 0
    BY <2>0 DEF OnlyFailuresBlock, Answers, IsActive, TaskState
  <2>1. ASSUME UNCHANGED <<copied, collisions>>, active'[u].task = active[u].task,
               tasks[active[u].task].state = "closed"
        PROVE  copied' = active'[u].task \/ collisions' > 0
    BY <2>1 DEF OnlyFailuresBlock, Answers, IsActive
  <2>2. ASSUME NEW i \in 1 .. Len(tasks), NEW s \in TaskState, SetTask(i, s), s # "closed",
               UNCHANGED <<copied, collisions, active>>
        PROVE  copied' = active'[u].task \/ collisions' > 0
    <3>1. active[u].task \in 1 .. Len(tasks) /\ active'[u].task = active[u].task
      BY <2>2, TaskOf DEF IsActive
    <3>2. tasks[active[u].task].state = "closed"
      BY <2>2, <3>1, SetTaskKeeps DEF TypeOK
    <3> QED BY <2>1, <2>2, <3>1, <3>2
  <2>3. ASSUME NEW v \in Url, StartDownload(v)
        PROVE  copied' = active'[u].task \/ collisions' > 0
    <3>1. /\ tasks'[Len(tasks) + 1].state = "running"
          /\ \A j \in 1 .. Len(tasks) : tasks'[j] = tasks[j]
      BY <2>3, AppendKeeps DEF StartDownload, TypeOK
    <3>2. CASE InsertEntry(v)
      <4>1. UNCHANGED <<copied, collisions>>
        BY <2>3, <3>2 DEF StartDownload, InsertEntry
      <4>2. u # v
        BY <3>1, <3>2 DEF InsertEntry, NewEntry, TypeOK
      <4>3. active'[u].task = active[u].task
        BY <3>2, <4>2 DEF InsertEntry, TypeOK
      <4>4. active[u].task \in 1 .. Len(tasks)
        BY <4>3, TaskOf DEF IsActive
      <4> QED BY <2>1, <3>1, <4>1, <4>3, <4>4
    <3>3. CASE InsertIsLost
      BY <3>3 DEF InsertIsLost, TypeOK
    <3> QED BY <2>3, <3>2, <3>3 DEF StartDownload
  <2>4. ASSUME NEW v \in Url, IsActive(v), SuspendDownload(v) \/ ContinueDownload(v)
        PROVE  copied' = active'[u].task \/ collisions' > 0
    <3>1. PICK s \in TaskState : SetTask(active[v].task, s) /\ s # "closed"
      BY <2>4 DEF SuspendDownload, ContinueDownload, TaskState
    <3>2. UNCHANGED <<copied, collisions, active>>
      BY <2>4 DEF SuspendDownload, ContinueDownload
    <3> QED BY <2>2, <2>4, <3>1, <3>2, TaskOf
  <2>5. ASSUME NEW i \in DOMAIN tasks, TransferEnds(i)
        PROVE  copied' = active'[u].task \/ collisions' > 0
    <3>1. PICK s \in TaskState : SetTask(i, s) /\ s # "closed"
      BY <2>5 DEF TransferEnds, TaskState
    <3>2. UNCHANGED <<copied, collisions, active>>
      BY <2>5 DEF TransferEnds
    <3> QED BY <2>0, <2>2, <3>1, <3>2
  <2>6. ASSUME NEW i \in DOMAIN tasks, DidWriteData(i)
        PROVE  copied' = active'[u].task \/ collisions' > 0
    <3>1. UNCHANGED <<tasks, copied, collisions>>
      BY <2>6 DEF DidWriteData
    <3>2. active'[u].task = active[u].task
      <4>1. active[tasks[i].url] \in Entry
        BY TaskTypes DEF TypeOK
      <4> QED BY <2>6, <4>1 DEF DidWriteData, TypeOK, Entry
    <3> QED BY <2>1, <3>1, <3>2
  <2>7. ASSUME NEW i \in DOMAIN tasks, DidFinishCopy(i)
        PROVE  copied' = active'[u].task \/ collisions' > 0
    <3>1. /\ UNCHANGED <<active, collisions>> /\ copied' = i /\ copied = 0
          /\ SetTask(i, "closed")
      BY <2>7 DEF DidFinishCopy
    <3>2. active[u].task \in 1 .. Len(tasks) /\ active'[u].task = active[u].task
      BY <3>1, TaskOf DEF IsActive
    <3>3. CASE active[u].task # i
      <4>1. tasks[active[u].task].state = "closed"
        BY <2>0, <3>1, <3>2, <3>3, SetTaskKeeps DEF TypeOK, TaskState
      <4> QED BY <3>1, <3>2, <4>1 DEF OnlyFailuresBlock, Answers, IsActive
    <3> QED BY <3>1, <3>2, <3>3
  <2>8. CASE DidFinishForget
    <3>0. copied \in DOMAIN tasks
      BY <2>0, <2>8 DEF DidFinishForget, TypeOK
    <3> DEFINE v == tasks[copied].url
    <3>1. UNCHANGED tasks
      BY <2>8 DEF DidFinishForget
    <3>2. CASE active' = [active EXCEPT ![v] = NoEntry] /\ UNCHANGED collisions
      <4>1. u # v /\ active'[u] = active[u]
        BY <3>2 DEF NoEntry, TypeOK
      <4>2. active[u].task # copied
        BY <4>1 DEF EntriesMatch, IsActive
      <4> QED BY <3>1, <3>2, <4>1, <4>2 DEF OnlyFailuresBlock, Answers, IsActive
    <3>3. CASE collisions' = collisions + 1
      BY <3>3 DEF TypeOK
    <3>4. CASE ~ IsActive(v) /\ UNCHANGED <<active, collisions>>
      <4>1. active[u].task # copied
        BY <3>4 DEF EntriesMatch, IsActive
      <4> QED BY <3>1, <3>4, <4>1 DEF OnlyFailuresBlock, Answers, IsActive
    <3> QED BY <2>8, <3>2, <3>3, <3>4 DEF DidFinishForget
  <2>9. ~ Restart
    <3>1. Restart => active' = [v \in Url |-> NoEntry]
      BY DEF Restart
    <3> QED BY <3>1 DEF NoEntry
  <2>10. ASSUME UNCHANGED <<tasks, active, copied, collisions>>
         PROVE  copied' = active'[u].task \/ collisions' > 0
    BY <2>1, <2>10
  <2>11. ASSUME NEW v \in Url, Favourite(v) \/ Unfavourite(v) \/ CellAppears(v) \/ CancelDownload(v)
         PROVE  UNCHANGED <<tasks, active, copied, collisions>>
    BY <2>11 DEF Favourite, Unfavourite, CellAppears, CancelDownload
  <2>12. RunMainBlock => UNCHANGED <<tasks, active, copied, collisions>>
    BY DEF RunMainBlock
  <2> QED BY <1>2, <2>3, <2>4, <2>5, <2>6, <2>7, <2>8, <2>9, <2>10, <2>11, <2>12, StepCases
<1> QED BY <1>1, <1>2

-----------------------------------------------------------------------------
(* What the cells are told.                                                *)

\* A queued block is one.
LEMMA BlocksAre ==
  ASSUME TypeOK
  PROVE  /\ Len(mainQueue) \in Nat /\ DOMAIN mainQueue = 1 .. Len(mainQueue)
         /\ \A k \in DOMAIN mainQueue : mainQueue[k].url \in Url /\ mainQueue[k].view \in View
<1>1. mainQueue \in Seq([url : Url, view : View])
  BY DEF TypeOK
<1>2. \A k \in 1 .. Len(mainQueue) : mainQueue[k] \in [url : Url, view : View]
  BY <1>1, ElementOfSeq
<1> QED BY <1>1, <1>2, LenProperties

\* Taking the first block off keeps the news of an end, unless it was that.
LEMMA TailKeepsEnd ==
  ASSUME TypeOK, mainQueue # <<>>, mainQueue' = Tail(mainQueue), NEW u \in Url, EndIsQueued(u),
         \/ Head(mainQueue).url # u
         \/ Head(mainQueue).view.isDownloading
         \/ \E j \in 2 .. Len(mainQueue) : mainQueue[j].url = u
  PROVE  EndIsQueued(u)'
<1>1. /\ Len(mainQueue) \in Nat \ {0} /\ Len(mainQueue') = Len(mainQueue) - 1
      /\ DOMAIN mainQueue = 1 .. Len(mainQueue) /\ DOMAIN mainQueue' = 1 .. Len(mainQueue')
      /\ \A k \in 1 .. Len(mainQueue') : mainQueue'[k] = mainQueue[k + 1]
      /\ Head(mainQueue) = mainQueue[1]
  <2>1. mainQueue \in Seq([url : Url, view : View])
    BY DEF TypeOK
  <2>2. /\ Len(mainQueue) \in Nat \ {0} /\ Len(mainQueue') = Len(mainQueue) - 1
        /\ \A k \in 1 .. Len(mainQueue') : mainQueue'[k] = mainQueue[k + 1]
        /\ mainQueue' \in Seq([url : Url, view : View])
    BY <2>1, HeadTailProperties, LenProperties, EmptySeq
  <2> QED BY <2>1, <2>2, LenProperties
<1>2. PICK k \in DOMAIN mainQueue :
        /\ mainQueue[k].url = u /\ ~ mainQueue[k].view.isDownloading
        /\ \A j \in k + 1 .. Len(mainQueue) : mainQueue[j].url # u
  BY DEF EndIsQueued
<1>3. k # 1
  BY <1>1, <1>2
<1>4. /\ k - 1 \in DOMAIN mainQueue' /\ mainQueue'[k - 1] = mainQueue[k]
      /\ \A j \in k .. Len(mainQueue') : mainQueue'[j] = mainQueue[j + 1]
  BY <1>1, <1>2, <1>3
<1>5. \A j \in (k - 1) + 1 .. Len(mainQueue') : mainQueue'[j].url # u
  BY <1>1, <1>2, <1>4
<1> QED BY <1>2, <1>4, <1>5 DEF EndIsQueued

\* A block added for one url keeps the news of the others; added as the news of
\* an end, it is that.
LEMMA DispatchKeepsEnd ==
  ASSUME TypeOK, NEW v \in Url, NEW view \in View, Dispatch(v, view), NEW u \in Url
  PROVE  /\ u # v /\ EndIsQueued(u) => EndIsQueued(u)'
         /\ u = v /\ ~ view.isDownloading => EndIsQueued(u)'
<1> DEFINE block == [url |-> v, view |-> view]
           n == Len(mainQueue)
<1>1. /\ n \in Nat /\ Len(mainQueue') = n + 1
      /\ DOMAIN mainQueue = 1 .. n /\ DOMAIN mainQueue' = 1 .. n + 1
      /\ \A k \in 1 .. n : mainQueue'[k] = mainQueue[k]
      /\ mainQueue'[n + 1] = block
  <2>1. mainQueue \in Seq([url : Url, view : View]) /\ block \in [url : Url, view : View]
    BY DEF TypeOK
  <2>2. mainQueue' = Append(mainQueue, block)
    BY DEF Dispatch
  <2> QED BY <2>1, <2>2, AppendProperties, LenProperties
<1>2. ASSUME u # v, EndIsQueued(u)
      PROVE  EndIsQueued(u)'
  <2>1. PICK k \in DOMAIN mainQueue :
          /\ mainQueue[k].url = u /\ ~ mainQueue[k].view.isDownloading
          /\ \A j \in k + 1 .. n : mainQueue[j].url # u
    BY <1>2 DEF EndIsQueued
  <2>2. k \in DOMAIN mainQueue' /\ mainQueue'[k] = mainQueue[k]
    BY <1>1, <2>1
  <2>3. \A j \in k + 1 .. Len(mainQueue') : mainQueue'[j].url # u
    BY <1>1, <1>2, <2>1
  <2> QED BY <2>1, <2>2, <2>3 DEF EndIsQueued
<1>3. ASSUME u = v, ~ view.isDownloading
      PROVE  EndIsQueued(u)'
  <2>1. /\ n + 1 \in DOMAIN mainQueue' /\ mainQueue'[n + 1].url = u
        /\ ~ mainQueue'[n + 1].view.isDownloading
        /\ \A j \in (n + 1) + 1 .. Len(mainQueue') : mainQueue'[j].url # u
    BY <1>1, <1>3
  <2> QED BY <2>1 DEF EndIsQueued
<1> QED BY <1>2, <1>3

\* A view's flag of a transfer.
LEMMA ViewFlag ==
  ASSUME NEW x, NEW y, NEW z
  PROVE  ViewOf(x, y, z).isDownloading = y
BY DEF ViewOf

\* The cells and the queued reports show only transfers that are under way, or
\* whose end is announced behind them.
LEMMA StepReports ==
  TypeOK /\ ReportsAreCurrent /\ NoPhantomTransfer /\ [Next]_vars =>
    ReportsAreCurrent' /\ NoPhantomTransfer'
<1> SUFFICES ASSUME TypeOK, ReportsAreCurrent, NoPhantomTransfer, [Next]_vars
             PROVE  ReportsAreCurrent' /\ NoPhantomTransfer'
  OBVIOUS
<1>1. CASE UNCHANGED vars
  BY <1>1 DEF vars, ReportsAreCurrent, NoPhantomTransfer, IsActive, EndIsQueued
<1>2. CASE Next
  <2> DEFINE Reports == \A k \in DOMAIN mainQueue', u \in Url :
                          mainQueue'[k].url = u /\ mainQueue'[k].view.isDownloading =>
                            IsActive(u)' \/ EndIsQueued(u)'
             Shown == \A u \in Url : cells'[u].isDownloading => IsActive(u)' \/ EndIsQueued(u)'
             Both == collisions' = 0 => Reports /\ Shown
  <2>0. ASSUME Both PROVE ReportsAreCurrent' /\ NoPhantomTransfer'
    <3>1. \A k \in DOMAIN mainQueue' : mainQueue'[k].url \in Url
      <4>1. mainQueue' \in Seq([url : Url, view : View])
        BY StepTypes DEF TypeOK
      <4>2. \A k \in 1 .. Len(mainQueue') : mainQueue'[k] \in [url : Url, view : View]
        BY <4>1, ElementOfSeq
      <4> QED BY <4>1, <4>2, LenProperties
    <3>2. ASSUME collisions' = 0, NEW k \in DOMAIN mainQueue', mainQueue'[k].view.isDownloading
          PROVE  IsActive(mainQueue[k].url)' \/ EndIsQueued(mainQueue[k].url)'
      <4>1. PICK u \in Url : u = mainQueue'[k].url
        BY <3>1
      <4>2. IsActive(u)' \/ EndIsQueued(u)'
        BY <2>0, <3>2, <4>1
      <4> QED BY <4>1, <4>2 DEF IsActive, EndIsQueued
    <3> QED BY <2>0, <3>2 DEF ReportsAreCurrent, NoPhantomTransfer
  <2>1. ASSUME UNCHANGED <<mainQueue, collisions>>, \A u \in Url : IsActive(u) => IsActive(u)',
               \A u \in Url : cells'[u].isDownloading => cells[u].isDownloading \/ IsActive(u)'
        PROVE  Both
    <3>1. \A u : EndIsQueued(u) => EndIsQueued(u)'
      BY <2>1 DEF EndIsQueued
    <3>2. \A k \in DOMAIN mainQueue : mainQueue[k].url \in Url
      BY BlocksAre
    <3>3. ASSUME collisions' = 0 PROVE Reports
      BY <2>1, <3>1, <3>2, <3>3 DEF ReportsAreCurrent
    <3>4. ASSUME collisions' = 0 PROVE Shown
      BY <2>1, <3>1, <3>4 DEF NoPhantomTransfer
    <3> QED BY <3>3, <3>4
  <2>2. ASSUME UNCHANGED <<mainQueue, collisions, active>>, NEW u \in Url, NEW view \in View,
               Shows(u, view), view.isDownloading => IsActive(u)
        PROVE  Both
    <3>1. \A v \in Url : cells'[v].isDownloading => cells[v].isDownloading \/ IsActive(v)
      BY <2>2 DEF Shows, TypeOK
    <3> QED BY <2>1, <2>2, <3>1 DEF IsActive
  <2>3. ASSUME UNCHANGED <<mainQueue, collisions, active, cells>>
        PROVE  Both
    BY <2>1, <2>3 DEF IsActive
  <2>4. ASSUME NEW u \in Url, Unfavourite(u) \/ CancelDownload(u)
        PROVE  Both
    <3>1. UNCHANGED <<mainQueue, collisions, active>> /\ Shows(u, ViewOf(FALSE, FALSE, FALSE))
      BY <2>4 DEF Unfavourite, CancelDownload
    <3> QED BY <2>2, <3>1, ViewTypes, ViewFlag
  <2>5. ASSUME NEW u \in Url, CellAppears(u)
        PROVE  Both
    <3>1. UNCHANGED <<mainQueue, collisions, active>> /\ Shows(u, FreshView(u))
      BY <2>5 DEF CellAppears
    <3>2. active[u].isGoingDownload \in BOOLEAN
      BY DEF TypeOK, Entry
    <3>3. FreshView(u) \in View /\ FreshView(u).isDownloading = IsActive(u)
      BY <3>2, ViewTypes, ViewFlag DEF FreshView, IsActive, IsStored
    <3> QED BY <2>2, <3>1, <3>3
  <2>6. ASSUME NEW u \in Url, IsActive(u), SuspendDownload(u) \/ ContinueDownload(u)
        PROVE  Both
    <3>1. UNCHANGED <<mainQueue, collisions, active>>
      BY <2>6 DEF SuspendDownload, ContinueDownload
    <3>2. PICK view \in View : Shows(u, view)
      BY <2>6, TaskOf, ViewTypes DEF SuspendDownload, ContinueDownload
    <3> QED BY <2>2, <2>6, <3>1, <3>2
  <2>7. ASSUME NEW u \in Url, StartDownload(u)
        PROVE  Both
    <3>1. UNCHANGED mainQueue /\ Shows(u, ViewOf(FALSE, FALSE, TRUE))
      BY <2>7 DEF StartDownload
    <3>2. \A v \in Url : cells'[v].isDownloading => cells[v].isDownloading
      BY <3>1, ViewFlag DEF Shows, TypeOK
    <3>3. CASE InsertEntry(u)
      <4>1. \A v \in Url : IsActive(v) => IsActive(v)'
        BY <3>3, LenProperties DEF InsertEntry, NewEntry, IsActive, TypeOK
      <4>2. UNCHANGED collisions
        BY <3>3 DEF InsertEntry
      <4> QED BY <2>1, <3>1, <3>2, <4>1, <4>2
    <3>4. CASE InsertIsLost
      BY <3>4 DEF InsertIsLost, TypeOK
    <3> QED BY <2>7, <3>3, <3>4 DEF StartDownload
  <2>8. ASSUME NEW i \in DOMAIN tasks, DidWriteData(i)
        PROVE  Both
    <3>0. PICK u \in Url : u = tasks[i].url
      BY TaskTypes
    <3>1. /\ UNCHANGED <<collisions, cells>> /\ Dispatch(u, ViewOf(FALSE, TRUE, FALSE))
          /\ IsActive(u)
      BY <2>8, <3>0 DEF DidWriteData
    <3>2. \A v \in Url : IsActive(v) => IsActive(v)'
      <4>1. \A v \in Url : active'[v].task = active[v].task
        <5>1. active[u] \in Entry
          BY <3>0 DEF TypeOK
        <5> QED BY <2>8, <3>0, <5>1 DEF DidWriteData, TypeOK, Entry
      <4> QED BY <4>1 DEF IsActive
    <3>3. \A v \in Url \ {u} : EndIsQueued(v) => EndIsQueued(v)'
      BY <3>0, <3>1, ViewTypes, DispatchKeepsEnd
    <3>4. ASSUME collisions' = 0 PROVE Shown
      BY <3>1, <3>2, <3>3, <3>4 DEF NoPhantomTransfer
    <3>5. ASSUME collisions' = 0 PROVE Reports
      <4>1. /\ Len(mainQueue) \in Nat
            /\ DOMAIN mainQueue = 1 .. Len(mainQueue)
            /\ DOMAIN mainQueue' = 1 .. Len(mainQueue) + 1
            /\ \A k \in 1 .. Len(mainQueue) : mainQueue'[k] = mainQueue[k] /\ mainQueue[k].url \in Url
            /\ mainQueue'[Len(mainQueue) + 1].url = u
        <5>1. mainQueue \in Seq([url : Url, view : View])
          BY DEF TypeOK
        <5>2. \A k \in 1 .. Len(mainQueue) : mainQueue[k].url \in Url
          BY BlocksAre
        <5>3. [url |-> u, view |-> ViewOf(FALSE, TRUE, FALSE)] \in [url : Url, view : View]
          BY <3>0, ViewTypes
        <5>4. mainQueue' = Append(mainQueue, [url |-> u, view |-> ViewOf(FALSE, TRUE, FALSE)])
          BY <3>1 DEF Dispatch
        <5> QED BY <5>1, <5>2, <5>3, <5>4, AppendProperties, LenProperties
      <4>2. ASSUME NEW k \in 1 .. Len(mainQueue), NEW v \in Url, mainQueue'[k].url = v,
                   mainQueue'[k].view.isDownloading
            PROVE  IsActive(v)' \/ EndIsQueued(v)'
        <5>1. IsActive(v) \/ EndIsQueued(v)
          BY <3>1, <3>5, <4>1, <4>2 DEF ReportsAreCurrent
        <5> QED BY <3>1, <3>2, <3>3, <5>1
      <4>3. IsActive(u)'
        BY <3>1, <3>2
      <4>4. \A k \in DOMAIN mainQueue' : k \in 1 .. Len(mainQueue) \/ k = Len(mainQueue) + 1
        BY <4>1
      <4> QED BY <4>1, <4>2, <4>3, <4>4
    <3> QED BY <3>4, <3>5
  <2>9. ASSUME DidFinishForget PROVE Both
    <3>0. PICK u \in Url : u = tasks[copied].url
      <4>1. copied \in DOMAIN tasks
        BY <2>9, LenProperties DEF DidFinishForget, TypeOK
      <4> QED BY <4>1, TaskTypes
    <3>1. UNCHANGED cells
      BY <2>9 DEF DidFinishForget
    <3>2. CASE ~ IsActive(u)
      <4>1. UNCHANGED <<active, mainQueue, collisions>>
        BY <2>9, <3>0, <3>2 DEF DidFinishForget
      <4> QED BY <2>3, <3>1, <4>1
    <3>3. CASE IsActive(u) /\ collisions' = 0
      <4> DEFINE view == ViewOf(TRUE, FALSE, active[u].isGoingDownload)
      <4>1. view \in View /\ ~ view.isDownloading
        <5>1. active[u].isGoingDownload \in BOOLEAN
          BY DEF TypeOK, Entry
        <5> QED BY <5>1, ViewTypes, ViewFlag
      <4>2. /\ Dispatch(u, view) /\ UNCHANGED collisions
            /\ active' = [active EXCEPT ![u] = NoEntry]
        <5>1. collisions' # collisions + 1
          BY <3>3 DEF TypeOK
        <5> QED BY <2>9, <3>0, <3>3, <5>1 DEF DidFinishForget
      <4>3. \A v \in Url \ {u} : /\ IsActive(v) => IsActive(v)'
                                 /\ EndIsQueued(v) => EndIsQueued(v)'
        BY <4>1, <4>2, DispatchKeepsEnd DEF IsActive, TypeOK
      <4>4. EndIsQueued(u)'
        BY <4>1, <4>2, DispatchKeepsEnd
      <4>5. Shown
        BY <3>1, <3>3, <4>2, <4>3, <4>4 DEF NoPhantomTransfer
      <4>6. Reports
        <5>1. /\ Len(mainQueue) \in Nat
              /\ DOMAIN mainQueue = 1 .. Len(mainQueue)
              /\ DOMAIN mainQueue' = 1 .. Len(mainQueue) + 1
              /\ \A k \in 1 .. Len(mainQueue) :
                   mainQueue'[k] = mainQueue[k] /\ mainQueue[k].url \in Url
              /\ mainQueue'[Len(mainQueue) + 1].url = u
          <6>1. mainQueue \in Seq([url : Url, view : View])
            BY DEF TypeOK
          <6>2. mainQueue' = Append(mainQueue, [url |-> u, view |-> view])
            BY <4>2 DEF Dispatch
          <6>3. [url |-> u, view |-> view] \in [url : Url, view : View]
            BY <4>1
          <6> QED BY <6>1, <6>2, <6>3, BlocksAre, AppendProperties, LenProperties
        <5>2. ASSUME NEW k \in 1 .. Len(mainQueue), NEW v \in Url, mainQueue'[k].url = v,
                     mainQueue'[k].view.isDownloading
              PROVE  IsActive(v)' \/ EndIsQueued(v)'
          <6>1. IsActive(v) \/ EndIsQueued(v)
            BY <3>3, <4>2, <5>1, <5>2 DEF ReportsAreCurrent
          <6> QED BY <4>3, <4>4, <6>1
        <5>3. \A k \in DOMAIN mainQueue' : k \in 1 .. Len(mainQueue) \/ k = Len(mainQueue) + 1
          BY <5>1
        <5> QED BY <4>4, <5>1, <5>2, <5>3
      <4> QED BY <4>5, <4>6
    <3> QED BY <3>2, <3>3
  <2>10. ASSUME Restart PROVE Both
    <3>1. mainQueue' = <<>> /\ cells' = [u \in Url |-> ViewOf(IsStored(u), FALSE, FALSE)]
      BY <2>10 DEF Restart
    <3>2. DOMAIN mainQueue' = {}
      BY <3>1
    <3>3. \A u \in Url : ~ cells'[u].isDownloading
      BY <3>1, ViewFlag
    <3> QED BY <3>2, <3>3
  <2>11. ASSUME RunMainBlock PROVE Both
    <3>1. /\ mainQueue # <<>> /\ mainQueue' = Tail(mainQueue) /\ UNCHANGED <<active, collisions>>
          /\ Shows(Head(mainQueue).url, Head(mainQueue).view)
      BY <2>11 DEF RunMainBlock
    <3> DEFINE head == Head(mainQueue)
               n == Len(mainQueue)
    <3>2. /\ n \in Nat \ {0} /\ DOMAIN mainQueue = 1 .. n /\ DOMAIN mainQueue' = 1 .. n - 1
          /\ \A k \in 1 .. n - 1 : mainQueue'[k] = mainQueue[k + 1]
          /\ head = mainQueue[1] /\ head.url \in Url /\ head.view \in View
      <4>1. mainQueue \in Seq([url : Url, view : View])
        BY DEF TypeOK
      <4> QED BY <3>1, <4>1, BlocksAre, HeadTailProperties, LenProperties, EmptySeq
    <3>3. \A u : IsActive(u) <=> IsActive(u)'
      BY <3>1 DEF IsActive
    <3>4. ASSUME collisions' = 0, NEW k \in 1 .. n - 1, NEW u \in Url, mainQueue'[k].url = u,
                 mainQueue'[k].view.isDownloading
          PROVE  IsActive(u)' \/ EndIsQueued(u)'
      <4>1. k + 1 \in 2 .. n /\ mainQueue[k + 1].url = u /\ mainQueue[k + 1].view.isDownloading
        BY <3>2, <3>4
      <4>2. IsActive(u) \/ EndIsQueued(u)
        BY <3>1, <3>2, <3>4, <4>1 DEF ReportsAreCurrent
      <4> QED BY <3>1, <3>3, <4>1, <4>2, TailKeepsEnd
    <3>5. ASSUME collisions' = 0, NEW u \in Url, cells'[u].isDownloading
          PROVE  IsActive(u)' \/ EndIsQueued(u)'
      <4>1. CASE u = head.url
        <5>1. head.view.isDownloading
          BY <3>1, <3>2, <3>5, <4>1 DEF Shows, TypeOK
        <5>2. IsActive(u) \/ EndIsQueued(u)
          BY <3>1, <3>2, <3>5, <4>1, <5>1 DEF ReportsAreCurrent
        <5> QED BY <3>1, <3>3, <5>1, <5>2, TailKeepsEnd
      <4>2. CASE u # head.url
        <5>1. cells[u].isDownloading
          BY <3>1, <3>2, <3>5, <4>2 DEF Shows, TypeOK
        <5>2. IsActive(u) \/ EndIsQueued(u)
          BY <3>1, <3>5, <5>1 DEF NoPhantomTransfer
        <5> QED BY <3>1, <3>3, <4>2, <5>2, TailKeepsEnd
      <4> QED BY <4>1, <4>2
    <3> QED BY <3>2, <3>4, <3>5
  <2>12. ASSUME NEW u \in Url, Favourite(u)
         PROVE  UNCHANGED <<mainQueue, collisions, active, cells>>
    BY <2>12 DEF Favourite
  <2>13. ASSUME NEW i \in DOMAIN tasks, TransferEnds(i) \/ DidFinishCopy(i)
         PROVE  UNCHANGED <<mainQueue, collisions, active, cells>>
    BY <2>13 DEF TransferEnds, DidFinishCopy
  <2>14. Both
    <3>1. ASSUME NEW u \in Url,
                 \/ Favourite(u) \/ Unfavourite(u) \/ CellAppears(u) \/ CancelDownload(u)
                 \/ IsActive(u) /\ (SuspendDownload(u) \/ ContinueDownload(u))
                 \/ StartDownload(u)
          PROVE  Both
      BY <2>3, <2>4, <2>5, <2>6, <2>7, <2>12, <3>1
    <3>2. ASSUME NEW i \in DOMAIN tasks, TransferEnds(i) \/ DidWriteData(i) \/ DidFinishCopy(i)
          PROVE  Both
      BY <2>3, <2>8, <2>13, <3>2
    <3>3. CASE DidFinishForget \/ RunMainBlock \/ Restart
      BY <2>9, <2>10, <2>11, <3>3
    <3> HIDE DEF Both
    <3> QED BY <1>2, <3>1, <3>2, <3>3, StepCases
  <2> QED BY <2>0, <2>14
<1> QED BY <1>1, <1>2

-----------------------------------------------------------------------------
(* Transfers the table does not know.                                      *)

LEMMA LooseFinite ==
  ASSUME TypeOK, NEW u \in Url
  PROVE  IsFiniteSet(Loose(u)) /\ Cardinality(Loose(u)) \in Nat
         /\ restarts \in Nat /\ collisions \in Nat
<1>1. DOMAIN tasks = 1 .. Len(tasks) /\ Len(tasks) \in Nat
  BY LenProperties DEF TypeOK
<1>2. IsFiniteSet(1 .. Len(tasks))
  BY <1>1, FS_Interval
<1>3. Loose(u) \subseteq 1 .. Len(tasks)
  BY <1>1 DEF Loose
<1>4. IsFiniteSet(Loose(u))
  BY <1>2, <1>3, FS_Subset
<1>5. restarts \in Nat /\ collisions \in Nat
  BY InstanceTypes DEF TypeOK
<1> QED BY <1>4, <1>5, FS_CardinalityType

\* A set with at most one element more has at most one more.
LEMMA OneMore ==
  ASSUME NEW S, NEW T, NEW x, IsFiniteSet(S), T \subseteq S \cup {x}
  PROVE  Cardinality(T) <= Cardinality(S) + 1 /\ Cardinality(T) \in Nat
<1>1. /\ IsFiniteSet(S \cup {x}) /\ Cardinality(S \cup {x}) <= Cardinality(S) + 1
      /\ Cardinality(S) \in Nat /\ Cardinality(S \cup {x}) \in Nat
  BY FS_AddElement, FS_CardinalityType
<1>2. Cardinality(T) <= Cardinality(S \cup {x}) /\ IsFiniteSet(T)
  BY <1>1, FS_Subset
<1> QED BY <1>1, <1>2, FS_CardinalityType

\* One element exchanged for another at most.
LEMMA OneForOne ==
  ASSUME NEW S, NEW T, NEW x \in S, NEW y, IsFiniteSet(S), T \subseteq (S \ {x}) \cup {y}
  PROVE  Cardinality(T) <= Cardinality(S) /\ Cardinality(T) \in Nat
<1>1. IsFiniteSet(S \ {x}) /\ Cardinality(S \ {x}) = Cardinality(S) - 1 /\ Cardinality(S) \in Nat
  BY FS_RemoveElement, FS_CardinalityType
<1>2. Cardinality(T) <= Cardinality(S \ {x}) + 1 /\ Cardinality(T) \in Nat
  BY <1>1, OneMore
<1> QED BY <1>1, <1>2

\* Every transfer the table loses sight of is counted as a restart or a lost
\* write; the end of an unknown transfer, whose callback takes out the entry of
\* another of the same url, exchanges the two.
LEMMA StepLoose ==
  TypeOK /\ EntriesMatch /\ LooseHaveACause /\ [Next]_vars => LooseHaveACause'
<1> SUFFICES ASSUME TypeOK, EntriesMatch, LooseHaveACause, [Next]_vars, NEW u \in Url
             PROVE  Cardinality(Loose(u)') <= restarts' + collisions'
  BY DEF LooseHaveACause
<1> DEFINE Live == {"running", "suspended", "finished"}
           Few == Cardinality(Loose(u)') <= restarts' + collisions'
<1>0. /\ IsFiniteSet(Loose(u)) /\ Cardinality(Loose(u)) \in Nat
      /\ restarts \in Nat /\ collisions \in Nat
      /\ Cardinality(Loose(u)) <= restarts + collisions
      /\ DOMAIN tasks = 1 .. Len(tasks) /\ Len(tasks) \in Nat
  BY LooseFinite, LenProperties DEF LooseHaveACause, TypeOK
<1>1. ASSUME Loose(u)' \subseteq Loose(u), UNCHANGED restarts,
             collisions' \in {collisions, collisions + 1}
      PROVE  Few
  <2>1. Cardinality(Loose(u)') <= Cardinality(Loose(u)) /\ Cardinality(Loose(u)') \in Nat
    BY <1>0, <1>1, FS_Subset, FS_CardinalityType
  <2> QED BY <1>0, <1>1, <2>1
<1>2. ASSUME NEW x, Loose(u)' \subseteq Loose(u) \cup {x},
             \/ restarts' = restarts + 1 /\ UNCHANGED collisions
             \/ collisions' = collisions + 1 /\ UNCHANGED restarts
      PROVE  Few
  <2>1. Cardinality(Loose(u)') <= Cardinality(Loose(u)) + 1 /\ Cardinality(Loose(u)') \in Nat
    BY <1>0, <1>2, OneMore
  <2>2. restarts' + collisions' = restarts + collisions + 1
    BY <1>0, <1>2
  <2> QED BY <1>0, <2>1, <2>2
<1>3. ASSUME NEW x \in Loose(u), NEW y, Loose(u)' \subseteq (Loose(u) \ {x}) \cup {y},
             UNCHANGED <<restarts, collisions>>
      PROVE  Few
  <2>1. Cardinality(Loose(u)') <= Cardinality(Loose(u)) /\ Cardinality(Loose(u)') \in Nat
    BY <1>0, <1>3, OneForOne
  <2> QED BY <1>0, <1>3, <2>1
<1>4. ASSUME UNCHANGED <<tasks, copied, restarts, collisions>>, active'[u].task = active[u].task
      PROVE  Few
  <2>1. Loose(u)' \subseteq Loose(u)
    BY <1>4 DEF Loose
  <2> QED BY <1>1, <1>4, <2>1
<1>5. ASSUME NEW i \in 1 .. Len(tasks), NEW s \in TaskState, SetTask(i, s), tasks[i].state \in Live,
             UNCHANGED <<active, restarts, collisions>>, copied' \in {copied, i}
      PROVE  Few
  <2>1. \A j \in DOMAIN tasks' : /\ j \in DOMAIN tasks /\ tasks'[j].url = tasks[j].url
                                 /\ tasks'[j].state = IF j = i THEN s ELSE tasks[j].state
    BY <1>0, <1>5, SetTaskKeeps, LenProperties DEF TypeOK
  <2>2. ASSUME NEW j \in Loose(u)' PROVE j \in Loose(u)
    <3>1. /\ j \in DOMAIN tasks' /\ j \in DOMAIN tasks
          /\ tasks[j].url = u /\ j # active[u].task
          /\ tasks'[j].state \in Live \/ j = copied'
      BY <1>5, <2>1, <2>2 DEF Loose
    <3>2. CASE j = i
      BY <1>5, <3>1, <3>2 DEF Loose
    <3>3. CASE j # i
      <4>1. tasks[j].state \in Live \/ j = copied
        BY <1>5, <2>1, <3>1, <3>3
      <4> QED BY <3>1, <4>1 DEF Loose
    <3> QED BY <3>2, <3>3
  <2> QED BY <1>1, <1>5, <2>2
<1>6. CASE UNCHANGED vars
  BY <1>4, <1>6 DEF vars
<1>7. ASSUME NEW v \in Url, StartDownload(v), ~ IsActive(v)
      PROVE  Few
  <2>1. /\ tasks' \in Seq(TaskRecord) /\ Len(tasks') = Len(tasks) + 1
        /\ tasks'[Len(tasks) + 1].url = v
        /\ \A j \in 1 .. Len(tasks) : tasks'[j] = tasks[j]
    BY <1>7, AppendKeeps DEF StartDownload, TypeOK
  <2>2. /\ DOMAIN tasks' = 1 .. Len(tasks) + 1 /\ UNCHANGED <<copied, restarts>>
        /\ copied \in 0 .. Len(tasks)
    BY <1>7, <2>1, LenProperties DEF StartDownload, TypeOK
  <2>3. CASE InsertEntry(v)
    <3>1. /\ UNCHANGED collisions
          /\ u # v => active'[u].task = active[u].task
          /\ u = v => active'[u].task = Len(tasks) + 1 /\ active[u].task = 0
      BY <1>7, <2>3 DEF InsertEntry, NewEntry, IsActive, TypeOK
    <3>2. ASSUME NEW j \in Loose(u)' PROVE j \in Loose(u)
      <4>1. /\ j \in 1 .. Len(tasks) + 1 /\ tasks'[j].url = u /\ j # active'[u].task
            /\ tasks'[j].state \in Live \/ j = copied
        BY <2>2, <3>2 DEF Loose
      <4>2. j \in 1 .. Len(tasks)
        BY <1>0, <2>1, <3>1, <4>1
      <4> QED BY <1>0, <2>1, <3>1, <4>1, <4>2 DEF Loose
    <3> QED BY <1>1, <2>2, <3>1, <3>2
  <2>4. CASE InsertIsLost
    <3>1. UNCHANGED active /\ collisions' = collisions + 1
      BY <2>4 DEF InsertIsLost
    <3>2. ASSUME NEW j \in Loose(u)' PROVE j \in Loose(u) \cup {Len(tasks) + 1}
      <4>1. /\ j \in 1 .. Len(tasks) + 1 /\ tasks'[j].url = u /\ j # active[u].task
            /\ tasks'[j].state \in Live \/ j = copied
        BY <2>2, <3>1, <3>2 DEF Loose
      <4> QED BY <1>0, <2>1, <4>1 DEF Loose
    <3> QED BY <1>2, <2>2, <3>1, <3>2
  <2> QED BY <1>7, <2>3, <2>4 DEF StartDownload
<1>8. ASSUME NEW v \in Url, IsActive(v), SuspendDownload(v) \/ ContinueDownload(v)
      PROVE  Few
  <2>1. PICK s \in TaskState : SetTask(active[v].task, s)
    BY <1>8 DEF SuspendDownload, ContinueDownload, TaskState
  <2>2. UNCHANGED <<active, copied, restarts, collisions>> /\ tasks[active[v].task].state \in Live
    BY <1>8 DEF SuspendDownload, ContinueDownload
  <2> QED BY <1>5, <1>8, <2>1, <2>2, TaskOf
<1>9. ASSUME NEW i \in DOMAIN tasks, TransferEnds(i) \/ DidFinishCopy(i)
      PROVE  Few
  <2>1. PICK s \in TaskState : SetTask(i, s)
    BY <1>9 DEF TransferEnds, DidFinishCopy, TaskState
  <2>2. /\ UNCHANGED <<active, restarts, collisions>> /\ tasks[i].state \in Live
        /\ copied' \in {copied, i}
    BY <1>9 DEF TransferEnds, DidFinishCopy
  <2> QED BY <1>0, <1>5, <2>1, <2>2
<1>10. ASSUME NEW i \in DOMAIN tasks, DidWriteData(i)
       PROVE  Few
  <2>1. UNCHANGED <<tasks, copied, restarts, collisions>>
    BY <1>10 DEF DidWriteData
  <2>2. active'[u].task = active[u].task
    <3>1. active[tasks[i].url] \in Entry
      BY TaskTypes DEF TypeOK
    <3> QED BY <1>10, <3>1 DEF DidWriteData, TypeOK, Entry
  <2> QED BY <1>4, <2>1, <2>2
<1>11. ASSUME DidFinishForget
       PROVE  Few
  <2>0. copied \in DOMAIN tasks /\ tasks[copied].state = "closed"
    BY <1>0, <1>11 DEF DidFinishForget, TypeOK, EntriesMatch
  <2>1. PICK v \in Url : v = tasks[copied].url
    BY <2>0, TaskTypes
  <2>2. UNCHANGED <<tasks, restarts>> /\ copied' = 0
    BY <1>11 DEF DidFinishForget
  <2>3. ASSUME NEW j \in Loose(u)'
        PROVE  /\ j \in DOMAIN tasks /\ tasks[j].url = u /\ j # active'[u].task
               /\ tasks[j].state \in Live /\ j # copied
    BY <1>0, <2>0, <2>2, <2>3 DEF Loose
  <2>4. ASSUME active'[u].task = active[u].task, collisions' \in {collisions, collisions + 1}
        PROVE  Few
    <3>1. \A j \in Loose(u)' : j \in Loose(u)
      BY <2>3, <2>4 DEF Loose
    <3> QED BY <1>1, <2>2, <2>4, <3>1
  <2>5. CASE u = v /\ IsActive(u) /\ active' = [active EXCEPT ![v] = NoEntry] /\ UNCHANGED collisions
    <3>1. active'[u].task = 0
      BY <2>5 DEF NoEntry, TypeOK
    <3>2. CASE copied = active[u].task
      <4>1. \A j \in Loose(u)' : j \in Loose(u)
        BY <2>3, <3>2 DEF Loose
      <4> QED BY <1>1, <2>2, <2>5, <4>1
    <3>3. CASE copied # active[u].task
      <4>1. copied \in Loose(u)
        BY <2>0, <2>1, <2>5, <3>3 DEF Loose
      <4>2. \A j \in Loose(u)' : j \in (Loose(u) \ {copied}) \cup {active[u].task}
        BY <2>3 DEF Loose
      <4> QED BY <1>3, <2>2, <2>5, <4>1, <4>2
    <3> QED BY <3>2, <3>3
  <2>6. CASE u # v /\ active' = [active EXCEPT ![v] = NoEntry] /\ UNCHANGED collisions
    <3>1. active'[u].task = active[u].task
      BY <2>6 DEF TypeOK
    <3> QED BY <2>4, <2>6, <3>1
  <2>7. CASE UNCHANGED active /\ collisions' \in {collisions, collisions + 1}
    BY <2>4, <2>7
  <2>8. \/ IsActive(v) /\ active' = [active EXCEPT ![v] = NoEntry] /\ UNCHANGED collisions
        \/ UNCHANGED active /\ collisions' \in {collisions, collisions + 1}
    BY <1>11, <2>1 DEF DidFinishForget
  <2> QED BY <2>5, <2>6, <2>7, <2>8
<1>12. ASSUME Restart
       PROVE  Few
  <2>1. /\ tasks' \in Seq(TaskRecord) /\ Len(tasks') = Len(tasks)
        /\ \A j \in 1 .. Len(tasks) : /\ tasks'[j].url = tasks[j].url
                                      /\ tasks'[j].state \in {tasks[j].state, "failed"}
    BY <1>12, RestartKeeps DEF TypeOK
  <2>2. /\ active' = [v \in Url |-> NoEntry] /\ copied' = 0
        /\ restarts' = restarts + 1 /\ UNCHANGED collisions
    BY <1>12 DEF Restart
  <2>3. ASSUME NEW j \in Loose(u)' PROVE j \in Loose(u) \cup {active[u].task}
    <3>1. /\ j \in DOMAIN tasks /\ tasks'[j].url = u
          /\ tasks'[j].state \in Live
      BY <1>0, <2>1, <2>2, <2>3, LenProperties DEF Loose
    <3> QED BY <1>0, <2>1, <3>1 DEF Loose
  <2> QED BY <1>2, <2>2, <2>3
<1>13. ASSUME NEW v \in Url, Favourite(v) \/ Unfavourite(v) \/ CellAppears(v) \/ CancelDownload(v)
       PROVE  Few
  <2>1. UNCHANGED <<tasks, active, copied, restarts, collisions>>
    BY <1>13 DEF Favourite, Unfavourite, CellAppears, CancelDownload
  <2> QED BY <1>4, <2>1
<1>14. ASSUME RunMainBlock
       PROVE  Few
  <2>1. UNCHANGED <<tasks, active, copied, restarts, collisions>>
    BY <1>14 DEF RunMainBlock
  <2> QED BY <1>4, <2>1
<1>15. CASE Next
  <2>1. Few
    <3> HIDE DEF Few
    <3> QED BY <1>7, <1>8, <1>9, <1>10, <1>11, <1>12, <1>13, <1>14, <1>15, StepCases
  <2> QED BY <2>1
<1> QED BY <1>6, <1>15

\* A transfer under way is the one of the entry or one the table does not know.
LEMMA LooseBound ==
  ASSUME TypeOK, LooseHaveACause
  PROVE  DuplicatesNeedACause
<1> SUFFICES ASSUME NEW u \in Url PROVE Cardinality(Transfers(u)) <= 1 + restarts + collisions
  BY DEF DuplicatesNeedACause
<1>1. Transfers(u) \subseteq Loose(u) \cup {active[u].task}
  BY DEF Transfers, Loose
<1>2. /\ IsFiniteSet(Loose(u)) /\ Cardinality(Loose(u)) \in Nat /\ restarts \in Nat
      /\ collisions \in Nat /\ Cardinality(Loose(u)) <= restarts + collisions
  BY LooseFinite DEF LooseHaveACause
<1>3. /\ Cardinality(Transfers(u)) <= Cardinality(Loose(u)) + 1
      /\ Cardinality(Transfers(u)) \in Nat
  BY <1>1, <1>2, OneMore
<1> QED BY <1>2, <1>3

-----------------------------------------------------------------------------
(* The inductive invariant, and what follows.                              *)

\* What the steps keep together.
DownloadsInv ==
  TypeOK /\ EntriesMatch /\ OnlyFailuresBlock /\ ReportsAreCurrent /\ NoPhantomTransfer
  /\ LooseHaveACause

LEMMA InitInvariant == Init => DownloadsInv
<1> SUFFICES ASSUME Init PROVE DownloadsInv
  OBVIOUS
<1>1. TypeOK
  BY InitTypes
<1>2. /\ \A u \in Url : active[u].task = 0 /\ ~ cells[u].isDownloading
      /\ copied = 0 /\ tasks = <<>> /\ mainQueue = <<>>
  BY ViewFlag DEF Init, NoEntry
<1>3. DOMAIN tasks = {} /\ DOMAIN mainQueue = {}
  BY <1>2
<1>4. EntriesMatch /\ OnlyFailuresBlock /\ ReportsAreCurrent /\ NoPhantomTransfer
  BY <1>2, <1>3 DEF EntriesMatch, OnlyFailuresBlock, ReportsAreCurrent, NoPhantomTransfer, IsActive
<1>5. ASSUME NEW u \in Url PROVE Cardinality(Loose(u)) <= restarts + collisions
  <2>1. Loose(u) = {}
    BY <1>3 DEF Loose
  <2>2. restarts = 0 /\ collisions = 0
    BY DEF Init
  <2> QED BY <2>1, <2>2, FS_EmptySet
<1> QED BY <1>1, <1>4, <1>5 DEF DownloadsInv, LooseHaveACause

\* The service's invariant: types, entries that match their tasks, reports that
\* are current, and a cause for every transfer the table does not know.
THEOREM Inductive == Spec => []DownloadsInv
<1>1. DownloadsInv /\ [Next]_vars => DownloadsInv'
  BY StepTypes, StepMatches, StepBlocks, StepReports, StepLoose DEF DownloadsInv
<1> QED BY <1>1, InitInvariant, PTL DEF Spec

\* No cell shows a transfer that has neither an entry nor its end announced:
\* unless a write of the table is lost, no order of taps, callbacks, queued
\* blocks and restarts leaves one behind.
THEOREM CellsAreTold == Spec => []NoPhantomTransfer
BY Inductive, PTL DEF DownloadsInv

\* An entry that answers no tap is that of a failed or an ending transfer.
THEOREM OnlyFailuresStay == Spec => []OnlyFailuresBlock
BY Inductive, PTL DEF DownloadsInv

\* One url has at most one transfer more than there were restarts and lost
\* writes of the table.
THEOREM DuplicatesAreCounted == Spec => []DuplicatesNeedACause
<1>1. DownloadsInv => DuplicatesNeedACause
  BY LooseBound DEF DownloadsInv
<1> QED BY <1>1, Inductive, PTL

-----------------------------------------------------------------------------
(***************************************************************************)
(* Downloads implements DownloadLifecycle.  Each step of the service       *)
(* changes the phase of one url at most, and never loads what is stored;   *)
(* only a restart changes several.                                         *)
(***************************************************************************)

Bar == [u \in Url |-> PhaseOf(u)]

\* A change of one phase is a step of the lifecycle, but for loading what is
\* stored.
LEMMA OnePhase ==
  ASSUME NEW u \in Url, \A v \in Url \ {u} : PhaseOf(v)' = PhaseOf(v),
         ~ (PhaseOf(u) = "stored" /\ PhaseOf(u)' = "loading")
  PROVE  [Lifecycle!Next]_Bar
<1> DEFINE old == PhaseOf(u)
           new == PhaseOf(u)'
<1>1. old \in {"absent", "loading", "stored"} /\ new \in {"absent", "loading", "stored"}
  BY DEF PhaseOf
<1>2. Bar' = [Bar EXCEPT ![u] = new] /\ Bar[u] = old
  BY DEF Bar
<1>3. CASE old = new
  BY <1>2, <1>3 DEF Bar
<1>4. CASE old # new
  <2> HIDE DEF old, new
  <2>1. Lifecycle!Move(u, old, new)
    BY <1>2 DEF Lifecycle!Move, Bar
  <2>2. \/ Lifecycle!Begin(u) \/ Lifecycle!Complete(u) \/ Lifecycle!Remove(u)
        \/ Lifecycle!Arrive(u) \/ Lifecycle!Withdraw(u)
    <3>1. CASE old = "absent" /\ new = "loading"
      BY <2>1, <3>1 DEF Lifecycle!Begin
    <3>2. CASE old = "loading" /\ new = "stored"
      BY <2>1, <3>2 DEF Lifecycle!Complete
    <3>3. CASE old = "stored" /\ new = "absent"
      BY <2>1, <3>3 DEF Lifecycle!Remove
    <3>4. CASE old = "absent" /\ new = "stored"
      BY <2>1, <3>4 DEF Lifecycle!Arrive
    <3>5. CASE old = "loading" /\ new = "absent"
      BY <2>1, <3>5 DEF Lifecycle!Withdraw
    <3> QED BY <1>1, <1>4, <3>1, <3>2, <3>3, <3>4, <3>5 DEF old, new
  <2> QED BY <2>2 DEF Lifecycle!Next
<1> QED BY <1>3, <1>4

\* What is done to one url's entry and place changes no other phase: who
\* shares the place has none to change.
LEMMA OneUrl ==
  ASSUME TypeOK, UNCHANGED instance, NEW u \in Url,
         \A v \in Url \ {u} : active'[v].task = active[v].task,
         \A p \in Path \ {LocalPath[u]} : files'[p] = files[p],
         IsActive(u)' => IsActive(u) \/ ~ IsStored(u)
  PROVE  [Lifecycle!Next]_Bar
<1>1. LocalPath' = LocalPath /\ \A v \in Url : SharesPlace(v)' = SharesPlace(v)
  BY DEF LocalPath, SharesPlace
<1>2. ASSUME NEW v \in Url \ {u} PROVE PhaseOf(v)' = PhaseOf(v)
  <2>1. CASE SharesPlace(v)
    BY <1>1, <2>1 DEF PhaseOf
  <2>2. CASE ~ SharesPlace(v)
    <3>1. LocalPath[v] \in Path \ {LocalPath[u]}
      BY <2>2, InstanceTypes DEF SharesPlace, LocalPath, TypeOK
    <3> QED BY <1>1, <3>1 DEF PhaseOf, IsActive, IsStored
  <2> QED BY <2>1, <2>2
<1>3. ~ (PhaseOf(u) = "stored" /\ PhaseOf(u)' = "loading")
  BY DEF PhaseOf
<1> QED BY <1>2, <1>3, OnePhase

\* A step that touches neither table nor files.
LEMMA NoPhase ==
  ASSUME UNCHANGED instance, UNCHANGED <<active, files>>
  PROVE  UNCHANGED Bar
BY DEF Bar, PhaseOf, SharesPlace, LocalPath, IsActive, IsStored

\* A new process has an empty table, and the files.
LEMMA RestartForgets ==
  ASSUME UNCHANGED instance, Restart
  PROVE  Lifecycle!Next
<1>1. \A u \in Url : ~ IsActive(u)'
  BY DEF Restart, IsActive, NoEntry
<1>2. \A u \in Url : SharesPlace(u)' = SharesPlace(u) /\ IsStored(u)' = IsStored(u)
  BY DEF Restart, SharesPlace, IsStored, LocalPath
<1>3. \A u \in Url : /\ PhaseOf(u)' \in {"absent", "stored"}
                     /\ PhaseOf(u) # "loading" => PhaseOf(u)' = PhaseOf(u)
  BY <1>1, <1>2 DEF PhaseOf
<1>4. Lifecycle!Forget
  BY <1>3 DEF Lifecycle!Forget, Bar
<1> QED BY <1>4 DEF Lifecycle!Next

LEMMA StepRefines ==
  ASSUME TypeOK, [Next]_vars
  PROVE  [Lifecycle!Next]_Bar
<1>1. CASE UNCHANGED vars
  BY <1>1, NoPhase DEF vars
<1>2. CASE Next
  <2>0. UNCHANGED instance
    BY <1>2, StepCases
  <2>1. ASSUME NEW u \in Url, Favourite(u) \/ CellAppears(u) \/ SuspendDownload(u)
                                \/ ContinueDownload(u)
        PROVE  UNCHANGED Bar
    BY <2>0, <2>1, NoPhase DEF Favourite, CellAppears, SuspendDownload, ContinueDownload
  <2>2. ASSUME NEW u \in Url, CancelDownload(u)
        PROVE  [Lifecycle!Next]_Bar
    <3>1. UNCHANGED active /\ \A p \in Path \ {LocalPath[u]} : files'[p] = files[p]
      BY <2>2 DEF CancelDownload, TypeOK
    <3>2. IsActive(u)' = IsActive(u)
      BY <3>1 DEF IsActive
    <3> QED BY <2>0, <3>1, <3>2, OneUrl
  <2>3. ASSUME NEW u \in Url, StartDownload(u), ~ IsActive(u), ~ IsStored(u)
        PROVE  [Lifecycle!Next]_Bar
    <3>1. \A v \in Url \ {u} : active'[v].task = active[v].task
      BY <2>3 DEF StartDownload, InsertEntry, InsertIsLost, TypeOK
    <3>2. UNCHANGED files
      BY <2>3 DEF StartDownload
    <3> QED BY <2>0, <2>3, <3>1, <3>2, OneUrl
  <2>4. ASSUME NEW i \in DOMAIN tasks, TransferEnds(i)
        PROVE  UNCHANGED Bar
    BY <2>0, <2>4, NoPhase DEF TransferEnds
  <2>5. ASSUME NEW i \in DOMAIN tasks, DidWriteData(i)
        PROVE  UNCHANGED Bar
    <3>1. tasks[i].url \in Url /\ active[tasks[i].url] \in Entry
      BY TaskTypes DEF TypeOK
    <3>2. UNCHANGED files /\ \A v \in Url : active'[v].task = active[v].task
      BY <2>5, <3>1 DEF DidWriteData, TypeOK, Entry
    <3> QED BY <2>0, <3>2 DEF Bar, PhaseOf, SharesPlace, LocalPath, IsActive, IsStored
  <2>6. ASSUME NEW i \in DOMAIN tasks, DidFinishCopy(i)
        PROVE  [Lifecycle!Next]_Bar
    <3>1. tasks[i].url \in Url
      BY TaskTypes DEF TypeOK
    <3>2. UNCHANGED active
      BY <2>6 DEF DidFinishCopy
    <3>3. \A p \in Path \ {LocalPath[tasks[i].url]} : files'[p] = files[p]
      BY <2>6 DEF DidFinishCopy, TypeOK
    <3>4. PICK v \in Url : \A p \in Path \ {LocalPath[v]} : files'[p] = files[p]
      BY <3>1, <3>3
    <3>5. IsActive(v)' = IsActive(v)
      BY <3>2 DEF IsActive
    <3> QED BY <2>0, <3>2, <3>4, <3>5, OneUrl
  <2>7. CASE DidFinishForget
    <3> DEFINE u == tasks[copied].url
    <3>1. u \in Url /\ UNCHANGED files
      BY <2>7, TaskTypes, LenProperties DEF DidFinishForget, TypeOK
    <3>2. UNCHANGED active \/ active' = [active EXCEPT ![u] = NoEntry]
      BY <2>7 DEF DidFinishForget
    <3> HIDE DEF u
    <3>3. \A v \in Url : active'[v].task \in {active[v].task, 0}
      BY <3>1, <3>2 DEF NoEntry, TypeOK
    <3>4. \A v \in Url \ {u} : active'[v].task = active[v].task
      BY <3>1, <3>2 DEF TypeOK
    <3>5. \E v \in Url : /\ \A w \in Url \ {v} : active'[w].task = active[w].task
                         /\ active'[v].task \in {active[v].task, 0}
      BY <3>1, <3>3, <3>4
    <3>6. PICK v \in Url : /\ \A w \in Url \ {v} : active'[w].task = active[w].task
                           /\ active'[v].task \in {active[v].task, 0}
      BY <3>5
    <3>7. IsActive(v)' => IsActive(v)
      BY <3>6 DEF IsActive
    <3> QED BY <2>0, <3>1, <3>6, <3>7, OneUrl
  <2>8. RunMainBlock => UNCHANGED Bar
    BY <2>0, NoPhase DEF RunMainBlock
  <2>9. Restart => Lifecycle!Next
    BY <2>0, RestartForgets
  <2> QED BY <1>2, <2>1, <2>2, <2>3, <2>4, <2>5, <2>6, <2>7, <2>8, <2>9, StepCases
          DEF Unfavourite
<1> QED BY <1>1, <1>2

\* The service is a download lifecycle to every url with a place of its own,
\* whatever the order of taps, callbacks, blocks and restarts.
THEOREM ServiceImplementsLifecycle == Spec => ImplementsLifecycle
<1>1. ASSUME Init PROVE Lifecycle!Init
  <2>1. \A u \in Url : ~ IsActive(u) /\ LocalPath[u] \in Path /\ ~ IsStored(u)
    BY <1>1, InstanceTypes DEF Init, IsActive, NoEntry, LocalPath, IsStored
  <2> QED BY <2>1 DEF Lifecycle!Init, PhaseOf
<1>2. ASSUME TypeOK, [Next]_vars PROVE [Lifecycle!Next]_Bar
  BY <1>2, StepRefines
<1> QED BY <1>1, <1>2, TypeCorrect, PTL DEF Spec, ImplementsLifecycle, Lifecycle!Spec, Bar
=============================================================================
