---------------------------- MODULE FirestoreListen ----------------------------
(***************************************************************************)
(* What an app sees of a document: the read path of the Firestore client.  *)
(* A snapshot listener and getDocument (a listener that removes itself)    *)
(* share one query, its view and its watch target.  The view shows the     *)
(* document as cached on disk with the app's own pending sets on top; the  *)
(* watch stream brings the server's changes, which the aggregator turns    *)
(* into remote events and the local store into the cache, with the point   *)
(* from which the next stream resumes.  Streams break, the network changes *)
(* and the app is killed at any moment.                                    *)
(*                                                                         *)
(* One app, one user, one document.  The write path is FirestoreWrites     *)
(* here in short: the server applies the oldest sets of the queue in order *)
(* and the answers come back in order or are lost with their stream.  The  *)
(* server is external: it answers requests in order and sends a global     *)
(* snapshot only when the target is consistent.  Deletes by the app itself *)
(* of a document it listens to are left out, and so are limbo documents,   *)
(* which NeverInLimbo shows not to arise without them.                     *)
(***************************************************************************)
EXTENDS Integers, Sequences, SequencesExt, FiniteSets

CONSTANTS OwnValues,     \* what the app sets the document to
          OthersValues,  \* what others turn it into, perhaps Missing
          Missing,       \* no document
          FirstValue,    \* what the document is before anything happens
          MaxOthers,     \* bound: changes of the document by others
          MaxWrites,     \* bound: the app's own sets
          MaxOutstanding,\* bound: target requests not answered when the app asks for more
          MaxTrouble     \* bound: broken streams, changes of network, kills

VARIABLES hist,      \* server: the document's contents, version after version
          queue,     \* disk: the app's sets not yet answered for
          written,   \* how many sets the app has made
          acks,      \* answers under way: the versions of the oldest sets of the queue
          lastAck,   \* the version of the last set answered for
          disk,      \* what persistence holds besides the queue
          resume_token,  \* of listen_targets_ and target_data_by_target_; 0: none
          watch_stream_,
          aggregator,    \* WatchChangeAggregator's state of the target
          online,        \* OnlineStateTracker
          view,
          listener,  \* the app's snapshot listener
          get,       \* the app's getDocument
          trouble

ListenAssumption ==
    /\ Missing \notin OwnValues
    /\ FirstValue \in OwnValues \union OthersValues \union {Missing}
    /\ {MaxOthers, MaxWrites, MaxOutstanding, MaxTrouble} \subseteq Nat

ASSUME ListenAssumption

serverVars == <<hist, lastAck>>
writeVars == <<queue, written, acks>>
appVars == <<view, listener, get>>
watchVars == <<watch_stream_, aggregator>>
vars == <<serverVars, writeVars, disk, resume_token, watchVars, online, appVars, trouble>>

MaybeDocument == OwnValues \union OthersValues \union {Missing}

Version == Len(hist)

----------------------------------------------------------------------------
(* The online state.                                                       *)

OnlineState == {"Unknown", "Online", "Offline"}

UpdateState(state) == [state |-> state, failed |-> FALSE, timer |-> FALSE]

\* HandleWatchStreamStart
StreamStart(o) ==
    IF o.failed THEN o ELSE [o EXCEPT !.state = "Unknown", !.timer = TRUE]

\* Variant: the timer goes on.
FailureKeepsTimer(o) ==
    IF o.state = "Online" THEN [o EXCEPT !.state = "Unknown"]
    ELSE [state |-> "Offline", failed |-> TRUE, timer |-> o.timer]

\* HandleWatchStreamFailure; kMaxWatchStreamFailures is 1.
StreamFailure(o) ==
    IF o.state = "Online" THEN [o EXCEPT !.state = "Unknown"]
    ELSE [state |-> "Offline", failed |-> TRUE, timer |-> FALSE]

----------------------------------------------------------------------------
(* The local store: the cached document and the pending sets over it.      *)

\* A cached version of 0: the cache has no entry.
NoEntry == [value |-> Missing, version |-> 0, committed |-> FALSE]

\* LocalDocumentsView::GetDocument
LocalDocument(q, cached) ==
    IF q # <<>> THEN [value |-> Last(q), state |-> "local"]
    ELSE [value |-> cached.value,
          state |-> IF cached.committed THEN "committed" ELSE "synced"]

\* Variant: whatever the watch stream brings replaces the entry.
AnyUpdate(cached, update) ==
    [value |-> update.value, version |-> update.version, committed |-> FALSE]

\* ApplyRemoteEvent: a document of the watch stream enters the cache if it is newer,
\* or confirms what a write's answer has put there.
CacheUpdated(cached, update) ==
    IF \/ update.version > cached.version
       \/ (update.version = cached.version /\ cached.committed)
    THEN [value |-> update.value, version |-> update.version, committed |-> FALSE]
    ELSE cached

\* Variant: whatever a write's answer brings replaces the entry.
AckOverwrites(cached, value, version) ==
    [value |-> value, version |-> version, committed |-> TRUE]

\* ApplyBatchResult: so does a set that the server has applied.
CacheAcked(cached, value, version) ==
    IF cached.version < version
    THEN [value |-> value, version |-> version, committed |-> TRUE]
    ELSE cached

----------------------------------------------------------------------------
(* The view.  mutated_keys_ holds the document iff its state is local, and *)
(* sync_state_ is Synced iff Synced(view).                                 *)

Exists(doc) == doc.value # Missing

NoView == [on |-> FALSE, doc |-> [value |-> Missing, state |-> "synced"],
           synced_documents |-> FALSE, current |-> FALSE]

\* ShouldBeInLimbo, once the view is current.
InLimbo(v) == v.current /\ Exists(v.doc) /\ v.doc.state # "local" /\ ~v.synced_documents

Synced(v) == v.current /\ ~InLimbo(v)

\* Variant: the answer of a write is shown at once.
NeverWait(old, new) == FALSE

ShouldWaitForSyncedDocument(old, new) == old.state = "local" /\ new.state = "committed"

\* ComputeDocumentChanges: what the view shows next.
NextDocument(old, new) ==
    LET waits == ShouldWaitForSyncedDocument(old, new)
        keeps == \/ old.value # new.value /\ waits
                 \/ /\ old.value = new.value
                    /\ (old.state = "local") = (new.state = "local" \/ waits)
    IN  IF Exists(old) /\ Exists(new) /\ keeps THEN old ELSE new

\* ApplyOnlineStateChange
AfterOnline(v, o) == IF o.state = "Offline" THEN [v EXCEPT !.current = FALSE] ELSE v

\* QueryListener with the default options, as the view goes from v to w: the
\* first event waits for a document, the server or the Offline state; later
\* ones tell changes of the contents only.
ListenerSees(l, v, w, o) ==
    IF \/ /\ l.state = "new"
          /\ Synced(w) \/ Exists(w.doc) \/ o.state = "Offline"
       \/ /\ l.state = "raised"
          /\ w.doc.value # v.doc.value
    THEN [state |-> "raised", heard |-> w.doc.value]
    ELSE l

\* QueryListener that waits for a sync while online, and ListenOnce: the
\* first event answers getDocument.
GetSees(g, w, o) ==
    IF g.state = "waiting" /\ (Synced(w) \/ o.state = "Offline")
    THEN [g EXCEPT !.state = "answered", !.value = w.doc.value,
                   !.local = (w.doc.state = "local"), !.from_cache = ~Synced(w)]
    ELSE g

\* The view has become v and the online state o; the listeners are told.
Show(v, o) ==
    LET w == AfterOnline(v, o)
    IN  /\ view' = w
        /\ online' = o
        /\ listener' = ListenerSees(listener, view, w, o)
        /\ get' = GetSees(get, w, o)

----------------------------------------------------------------------------
(* The watch stream.  sent is the server's: the version up to which it has *)
(* told of the target, if it watches it.                                   *)

Watch(token) == [kind |-> "watch", token |-> token]
Unwatch == [kind |-> "unwatch"]

NotWatched == 0

NewStream(state) ==
    [state |-> state, idle |-> FALSE, requests |-> <<>>, responses |-> <<>>,
     sent |-> NotWatched]

IsOpen(s) == s.state = "Open"
IsStarted(s) == s.state \in {"Starting", "Backoff", "Open"}

Start(s) == [s EXCEPT !.state = IF @ = "Error" THEN "Backoff" ELSE "Starting"]

\* Write(message), which cancels the idle timer.
Request(s, request) == [s EXCEPT !.requests = Append(@, request), !.idle = FALSE]

\* WatchChangeAggregator; a version of 0: no document update is pending.
NoUpdate == [value |-> Missing, version |-> 0]
NewAggregator == [outstanding |-> 0, current |-> FALSE, change |-> "none", update |-> NoUpdate]

\* Variant: nothing waits for the response.
NotAwaited(a) == a

\* SendWatchRequest and SendUnwatchRequest wait for one response more.
RecordPendingTargetRequest(a) == [a EXCEPT !.outstanding = @ + 1]

\* Variant: a target is active while it is listened to.
ListenedTo == view.on

\* IsActiveTarget
Active == view.on /\ aggregator.outstanding = 0

----------------------------------------------------------------------------
(* The app.                                                                *)

Outstanding == Len(watch_stream_.requests) + Len(watch_stream_.responses)

\* AllocateTarget and InitializeViewAndComputeSnapshot, then RemoteStore::Listen.
\* The listeners see the new view before anything is sent.
Listen(l, g) ==
    LET v == [on |-> TRUE, doc |-> LocalDocument(queue, disk.cache),
              synced_documents |-> disk.key, current |-> FALSE]
        s == watch_stream_
    IN  /\ view' = v
        /\ listener' = ListenerSees(l, NoView, v, online)
        /\ get' = GetSees(g, v, online)
        /\ resume_token' = disk.token
        /\ IF IsStarted(s)
           THEN /\ online' = online
                /\ watch_stream_' = IF IsOpen(s) THEN Request(s, Watch(disk.token)) ELSE s
                /\ aggregator' = IF IsOpen(s) THEN RecordPendingTargetRequest(aggregator)
                                 ELSE aggregator
           ELSE /\ online' = StreamStart(online)
                /\ watch_stream_' = Start(s)
                /\ aggregator' = NewAggregator

\* AddQueryListener: the query's second listener is shown its view.
AddQueryListener(l, g) ==
    /\ Outstanding < MaxOutstanding
    /\ IF view.on
       THEN /\ listener' = ListenerSees(l, view, view, online)
            /\ get' = GetSees(g, view, online)
            /\ UNCHANGED <<view, online, resume_token, watchVars>>
       ELSE Listen(l, g)
    /\ UNCHANGED <<serverVars, writeVars, disk, trouble>>

NoListener == [state |-> "off", heard |-> Missing]

\* asked is the server's version at the call, or 0 if there was a listener already.
NoGet == [state |-> "off", asked |-> 0,
          value |-> Missing, local |-> FALSE, from_cache |-> FALSE]

AddSnapshotListener ==
    /\ listener.state = "off"
    /\ AddQueryListener([NoListener EXCEPT !.state = "new"], get)

GetDocument ==
    /\ get.state = "off"
    /\ AddQueryListener(listener, [NoGet EXCEPT !.state = "waiting",
                                                !.asked = IF view.on THEN 0 ELSE Version])

\* RemoveQueryListener, and StopListening after the last one: the target is
\* released with its token, and a stream that is not open knows nothing.
RemoveQueryListener(l, g) ==
    /\ listener' = l
    /\ get' = g
    /\ IF l.state # "off" \/ g.state # "off"
       THEN UNCHANGED <<view, disk, resume_token, watchVars, online>>
       ELSE /\ view' = NoView
            /\ disk' = [disk EXCEPT !.token = resume_token]
            /\ resume_token' = 0
            /\ IF IsOpen(watch_stream_)
               THEN /\ watch_stream_' = [Request(watch_stream_, Unwatch) EXCEPT !.idle = TRUE]
                    /\ aggregator' = RecordPendingTargetRequest(aggregator)
                    /\ UNCHANGED online
               ELSE /\ online' = UpdateState("Unknown")
                    /\ UNCHANGED watchVars
    /\ UNCHANGED <<serverVars, writeVars, trouble>>

\* QueryListenerRegistration::Remove
RemoveSnapshotListener ==
    /\ listener.state # "off"
    /\ Outstanding < MaxOutstanding
    /\ RemoveQueryListener(NoListener, get)

\* ListenOnce has removed itself before it passed its answer on.
GetDocumentEnds ==
    /\ get.state = "answered"
    /\ RemoveQueryListener(listener, NoGet)

\* The queue or the cache has changed; EmitNewSnapshots.
Changed(q, cached) ==
    /\ queue' = q
    /\ disk' = [disk EXCEPT !.cache = cached]
    /\ Show([view EXCEPT !.doc = IF view.on THEN NextDocument(@, LocalDocument(q, cached)) ELSE @],
            online)
    /\ UNCHANGED <<resume_token, watchVars>>

\* The app sets the document (SyncEngine::WriteMutations).
SetData(value) ==
    /\ written < MaxWrites
    /\ written' = written + 1
    /\ Changed(Append(queue, value), disk.cache)
    /\ UNCHANGED <<serverVars, acks, trouble>>

\* HandleSuccessfulWrite
WriteAcked ==
    /\ acks # <<>>
    /\ lastAck' = Head(acks)
    /\ acks' = Tail(acks)
    /\ Changed(Tail(queue), CacheAcked(disk.cache, Head(queue), Head(acks)))
    /\ UNCHANGED <<hist, written, trouble>>

\* HandleRejectedWrite
WriteRejected ==
    /\ queue # <<>> /\ acks = <<>>
    /\ Changed(Tail(queue), disk.cache)
    /\ UNCHANGED <<serverVars, written, acks, trouble>>

----------------------------------------------------------------------------
(* The watch stream's events.                                              *)

\* Variant: the target is not watched again.
OpensSilently ==
    /\ watch_stream_.state = "Starting"
    /\ watch_stream_' = [watch_stream_ EXCEPT !.state = "Open"]
    /\ UNCHANGED <<serverVars, writeVars, disk, resume_token, aggregator, online, appVars, trouble>>

\* OnWatchStreamOpen, with a token.
WatchStreamOpens ==
    /\ watch_stream_.state = "Starting"
    /\ LET s == [watch_stream_ EXCEPT !.state = "Open"]
       IN  /\ watch_stream_' = IF view.on THEN Request(s, Watch(resume_token)) ELSE s
           /\ aggregator' = IF view.on THEN RecordPendingTargetRequest(aggregator) ELSE aggregator
    /\ UNCHANGED <<serverVars, writeVars, disk, resume_token, online, appVars, trouble>>

\* OnWatchStreamClose with an error: for want of a token, or of an open stream.
WatchStreamFails ==
    /\ watch_stream_.state \in {"Starting", "Open"}
    /\ trouble < MaxTrouble
    /\ trouble' = trouble + 1
    /\ aggregator' = NewAggregator
    /\ IF view.on
       THEN /\ watch_stream_' = Start(NewStream("Error"))
            /\ Show(view, StreamStart(StreamFailure(online)))
       ELSE /\ watch_stream_' = NewStream("Error")
            /\ Show(view, UpdateState("Unknown"))
    /\ UNCHANGED <<serverVars, writeVars, disk, resume_token>>

BackoffElapsed ==
    /\ watch_stream_.state = "Backoff"
    /\ watch_stream_' = Start(watch_stream_)
    /\ UNCHANGED <<serverVars, writeVars, disk, resume_token, aggregator, online, appVars, trouble>>

\* The idle timer stops the stream.
IdleTimeout ==
    /\ watch_stream_.idle
    /\ watch_stream_' = NewStream("Initial")
    /\ aggregator' = NewAggregator
    /\ Show(view, UpdateState("Unknown"))
    /\ UNCHANGED <<serverVars, writeVars, disk, resume_token, trouble>>

\* kOnlineStateTimeout has passed.
OnlineStateTimeout ==
    /\ online.timer
    /\ Show(view, [online EXCEPT !.state = "Offline", !.timer = FALSE])
    /\ UNCHANGED <<serverVars, writeVars, disk, resume_token, watchVars, trouble>>

\* The connectivity monitor reports another network: RestartNetwork.  The
\* answers to writes are lost with the write stream.
ConnectivityChange ==
    /\ trouble < MaxTrouble
    /\ trouble' = trouble + 1
    /\ acks' = <<>>
    /\ aggregator' = NewAggregator
    /\ watch_stream_' = IF view.on THEN Start(NewStream("Initial")) ELSE NewStream("Initial")
    /\ Show(view, IF view.on THEN StreamStart(UpdateState("Unknown")) ELSE UpdateState("Unknown"))
    /\ UNCHANGED <<serverVars, queue, written, disk, resume_token>>

\* The write stream breaks: the server may have applied what is not answered.
WriteStreamBreaks ==
    /\ acks # <<>>
    /\ trouble < MaxTrouble
    /\ trouble' = trouble + 1
    /\ acks' = <<>>
    /\ UNCHANGED <<serverVars, queue, written, disk, resume_token, watchVars, online, appVars>>

\* The app is killed and launched again.
Relaunch ==
    /\ trouble < MaxTrouble
    /\ trouble' = trouble + 1
    /\ acks' = <<>>
    /\ resume_token' = 0
    /\ watch_stream_' = NewStream("Initial")
    /\ aggregator' = NewAggregator
    /\ online' = UpdateState("Unknown")
    /\ view' = NoView
    /\ listener' = NoListener
    /\ get' = NoGet
    /\ UNCHANGED <<serverVars, queue, written, disk>>

----------------------------------------------------------------------------
(* OnWatchStreamChange: every message shows that the client is online.     *)

Receives(kind) ==
    /\ watch_stream_.responses # <<>>
    /\ Head(watch_stream_.responses).kind = kind
    /\ watch_stream_' = [watch_stream_ EXCEPT !.responses = Tail(@)]
    /\ UNCHANGED <<serverVars, writeVars, trouble>>

Handle(a) ==
    /\ aggregator' = a
    /\ Show(view, UpdateState("Online"))
    /\ UNCHANGED <<disk, resume_token>>

\* HandleTargetChange: the answer to a request of ours.  What is known of the
\* target so far is void, but for current_, which outlives a second Listen.
TargetAdded ==
    /\ Receives("added")
    /\ Handle([aggregator EXCEPT !.outstanding = @ - 1,
                                 !.change = IF aggregator.outstanding = 1 THEN "none" ELSE @])

TargetRemoved ==
    /\ Receives("removed")
    /\ IF aggregator.outstanding = 1
       THEN Handle([NewAggregator EXCEPT !.update = aggregator.update])
       ELSE Handle([aggregator EXCEPT !.outstanding = @ - 1])

TargetCurrent ==
    /\ Receives("current")
    /\ Handle([aggregator EXCEPT !.current = @ \/ Active])

\* HandleDocumentChange: AddDocumentToTarget or RemoveDocumentFromTarget.
DocumentChange ==
    /\ Receives("document")
    /\ LET update == Head(watch_stream_.responses).update
           change == CASE Exists(update) /\ view.synced_documents -> "Modified"
                       [] Exists(update) /\ ~view.synced_documents -> "Added"
                       [] ~Exists(update) /\ view.synced_documents -> "Removed"
                       [] OTHER -> "none"
       IN  Handle(IF Active THEN [aggregator EXCEPT !.change = change, !.update = update]
                  ELSE aggregator)

\* Variant: silence about a document says nothing.
NoSynthesis(version) == aggregator.update

\* Variant: a document counts as missing until the view has it.
SynthesisFirst(version) ==
    IF Active /\ aggregator.current /\ ~view.synced_documents
    THEN [value |-> Missing, version |-> version]
    ELSE aggregator.update

\* CreateRemoteEvent: a document that a current target says nothing about is
\* missing.
DocumentUpdate(version) ==
    IF /\ Active /\ aggregator.current
       /\ aggregator.update = NoUpdate /\ ~view.synced_documents
    THEN [value |-> Missing, version |-> version]
    ELSE aggregator.update

\* ApplyTargetChange's added_documents and removed_documents.
InTarget(before) ==
    CASE aggregator.change = "Added" -> TRUE
      [] aggregator.change = "Removed" -> FALSE
      [] OTHER -> before

\* Variant: the view takes over the documents only.
DocumentsOnly(v, cached) ==
    [v EXCEPT !.doc = IF v.on /\ cached # disk.cache
                      THEN NextDocument(@, LocalDocument(queue, cached)) ELSE @]

\* EmitNewSnapshots with a remote event.
ViewUpdated(v, cached) ==
    [v EXCEPT !.doc = IF v.on /\ cached # disk.cache
                      THEN NextDocument(@, LocalDocument(queue, cached)) ELSE @,
              !.synced_documents = IF Active THEN InTarget(@) ELSE @,
              !.current = IF Active THEN aggregator.current ELSE @]

\* RaiseWatchSnapshot, then LocalStore's and SyncEngine's ApplyRemoteEvent.
\* ShouldPersistTargetData: always for the first token and with a change,
\* otherwise after some time.
Snapshot ==
    /\ Receives("snapshot")
    /\ LET version == Head(watch_stream_.responses).version
           update == DocumentUpdate(version)
           cached == IF update = NoUpdate THEN disk.cache ELSE CacheUpdated(disk.cache, update)
       IN  /\ \E persist \in BOOLEAN :
                 /\ resume_token = 0 \/ aggregator.change # "none" => persist
                 /\ disk' = [cache |-> cached,
                             token |-> IF Active /\ persist THEN version ELSE disk.token,
                             key |-> IF Active THEN InTarget(disk.key) ELSE disk.key,
                             snapshot |-> version]
           /\ resume_token' = IF Active THEN version ELSE resume_token
           /\ aggregator' = [aggregator EXCEPT !.change = IF Active THEN "none" ELSE @,
                                               !.update = NoUpdate]
           /\ Show(ViewUpdated(view, cached), UpdateState("Online"))

OnWatchStreamChange ==
    \/ TargetAdded
    \/ TargetRemoved
    \/ TargetCurrent
    \/ DocumentChange
    \/ Snapshot

----------------------------------------------------------------------------
(* The server, external.                                                   *)

\* Somebody else sets or deletes the document.
OthersWrite(value) ==
    /\ Cardinality({n \in 2..Version : hist[n] \in OthersValues}) < MaxOthers
    /\ value # Last(hist)
    /\ hist' = Append(hist, value)
    /\ UNCHANGED <<lastAck, writeVars, disk, resume_token, watchVars, online, appVars, trouble>>

\* The next set of the queue is applied.
ServerCommits ==
    /\ Len(acks) < Len(queue)
    /\ hist' = Append(hist, queue[Len(acks) + 1])
    /\ acks' = Append(acks, Version + 1)
    /\ UNCHANGED <<lastAck, queue, written, disk, resume_token, watchVars, online, appVars, trouble>>

\* What the server has to say to a client that it has told of the versions up to
\* sent, and a consistent snapshot.  To a client that knows nothing yet, it does
\* not speak of a document that is missing.
News(sent) ==
    LET silent == sent = Version \/ (sent = 0 /\ Last(hist) = Missing)
        document == [kind |-> "document", update |-> [value |-> Last(hist), version |-> Version]]
    IN  IF silent THEN <<>> ELSE <<document>>

Current == <<[kind |-> "current"]>>
Consistent == <<[kind |-> "snapshot", version |-> Version]>>

\* The next request: the target is added and made current, or removed.
ServerReceives ==
    /\ watch_stream_.requests # <<>>
    /\ LET request == Head(watch_stream_.requests)
       IN  watch_stream_' =
             [watch_stream_ EXCEPT
                 !.requests = Tail(@),
                 !.sent = IF request = Unwatch THEN NotWatched ELSE Version,
                 !.responses = @ \o
                    IF request = Unwatch THEN <<[kind |-> "removed"]>>
                    ELSE <<[kind |-> "added"]>> \o News(request.token) \o Current \o Consistent]
    /\ UNCHANGED <<serverVars, writeVars, disk, resume_token, aggregator, online, appVars, trouble>>

\* The document has changed since.
ServerSends ==
    /\ watch_stream_.sent \in 1..(Version - 1)
    /\ watch_stream_' = [watch_stream_ EXCEPT
                            !.responses = @ \o News(watch_stream_.sent) \o Consistent,
                            !.sent = Version]
    /\ UNCHANGED <<serverVars, writeVars, disk, resume_token, aggregator, online, appVars, trouble>>

----------------------------------------------------------------------------

Init ==
    /\ hist = <<FirstValue>>
    /\ queue = <<>>
    /\ written = 0
    /\ acks = <<>>
    /\ lastAck = 0
    /\ disk = [cache |-> NoEntry, token |-> 0, key |-> FALSE, snapshot |-> 0]
    /\ resume_token = 0
    /\ watch_stream_ = NewStream("Initial")
    /\ aggregator = NewAggregator
    /\ online = UpdateState("Unknown")
    /\ view = NoView
    /\ listener = NoListener
    /\ get = NoGet
    /\ trouble = 0

\* The client and the network at work on reading, and on writing.
ReadProgress ==
    \/ WatchStreamOpens
    \/ BackoffElapsed
    \/ OnWatchStreamChange
    \/ ServerReceives
    \/ ServerSends

WriteProgress ==
    \/ WriteAcked
    \/ ServerCommits

Next ==
    \/ ReadProgress
    \/ WriteProgress
    \/ GetDocumentEnds
    \/ AddSnapshotListener
    \/ RemoveSnapshotListener
    \/ GetDocument
    \/ \E value \in OwnValues : SetData(value)
    \/ WriteRejected
    \/ WatchStreamFails
    \/ IdleTimeout
    \/ OnlineStateTimeout
    \/ ConnectivityChange
    \/ WriteStreamBreaks
    \/ Relaunch
    \/ \E value \in OthersValues : OthersWrite(value)

\* Steps of the client and the network that can be taken are taken; nobody
\* has to read or write, and nothing has to go wrong.
Fairness == WF_vars(ReadProgress) /\ WF_vars(WriteProgress) /\ WF_vars(GetDocumentEnds)

Spec == Init /\ [][Next]_vars /\ Fairness
----------------------------------------------------------------------------
(* Properties.                                                             *)

\* Every variable keeps to its type: versions are those of the server, and
\* there is an answer under way for no more than the sets of the queue.
TypeOK ==
    /\ hist \in Seq(MaybeDocument) /\ hist # <<>>
    /\ queue \in Seq(OwnValues) /\ Len(queue) <= written
    /\ acks \in Seq(1..Version) /\ Len(acks) <= Len(queue)
    /\ lastAck \in 0..Version
    /\ disk.cache \in [value : MaybeDocument, version : 0..Version, committed : BOOLEAN]
    /\ {disk.token, disk.snapshot, resume_token} \subseteq 0..Version
    /\ disk.key \in BOOLEAN
    /\ watch_stream_.state \in {"Initial", "Starting", "Open", "Error", "Backoff"}
    /\ aggregator.outstanding \in Nat
    /\ aggregator.change \in {"none", "Added", "Modified", "Removed"}
    /\ online \in [state : OnlineState, failed : BOOLEAN, timer : BOOLEAN]
    /\ view.doc \in [value : MaybeDocument, state : {"local", "committed", "synced"}]
    /\ listener \in [state : {"off", "new", "raised"}, heard : MaybeDocument]
    /\ get.state \in {"off", "waiting", "answered"}
    /\ trouble \in 0..MaxTrouble

\* The HARD_ASSERTs of the read path hold whenever they are reached: a
\* modified document is one of the target's ("not found in view"); a timer
\* runs only in the Unknown state, and no second one is started; a snapshot
\* is never older than the last ("Watch stream reverted"); a stream that is
\* needed is not idle ("stopped gracefully while still needed"); as many
\* answers are under way as the aggregator waits for.
AssertsHold ==
    /\ Active /\ aggregator.change \in {"Modified", "Removed"} => view.synced_documents
    /\ online.timer => online.state = "Unknown" /\ IsStarted(watch_stream_)
    /\ \A m \in ToSet(watch_stream_.responses) :
          m.kind = "snapshot" => m.version >= disk.snapshot
    /\ watch_stream_.idle => ~view.on
    /\ view.on => IsStarted(watch_stream_)
    /\ aggregator.outstanding =
          Len(watch_stream_.requests)
          + Cardinality({i \in DOMAIN watch_stream_.responses :
                            watch_stream_.responses[i].kind \in {"added", "removed"}})

\* A document that the app only sets is never in limbo: a view that is
\* current shows what the server has sent for the target, or a set that the
\* target has not confirmed (ShouldWaitForSyncedDocument).
NeverInLimbo == ~InLimbo(view)

\* The cache holds the server's document as of the cached version, and never
\* goes back, whichever of an answer and the watch stream is first, and
\* through lost answers and launches (ApplyBatchResult, ApplyRemoteEvent).
CacheTrue == disk.cache.version # 0 => disk.cache.value = hist[disk.cache.version]
CacheForward == [][disk'.cache.version >= disk.cache.version]_disk

\* The server will not send again what it sent before the resume point: the
\* cache has it, also after the app was killed at any moment
\* (ShouldPersistTargetData, and the document deleted by synthesis).
ResumeCovered ==
    \A token \in {disk.token, resume_token} : token <= disk.cache.version

\* Once a set of the app is answered for, nothing older than it is shown: a
\* view shows the document as of a version since the last answered set, or a set of its own.
OwnWritesStay ==
    view.on /\ view.doc.state # "local" /\ lastAck # 0 =>
        \E n \in lastAck..Version : view.doc.value = hist[n]

\* A getDocument that found no listener and answers without from_cache and
\* hasPendingWrites tells what the server held at some moment since the call.
FreshGet ==
    get.state = "answered" /\ get.asked # 0 /\ ~get.from_cache /\ ~get.local =>
        \E n \in get.asked..Version : get.value = hist[n]

\* A getDocument is answered, whatever else the app listens to or sets.
GetAnswered == get.state = "waiting" ~> get.state # "waiting"

\* An app that goes on listening hears the server's document in the end.
Converges ==
    <>[](listener.state # "off") =>
        <>[](listener.state = "raised" /\ listener.heard = Last(hist))
=============================================================================
