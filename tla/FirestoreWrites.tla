--------------------------- MODULE FirestoreWrites ---------------------------
(***************************************************************************)
(* What becomes of a document that an app sets: the write path of the      *)
(* Firestore client.  setData puts a task on the worker queue; the task    *)
(* stores a mutation batch on disk and RemoteStore sends the batches over  *)
(* the write stream, up to kMaxPendingWrites of them ahead of the server's *)
(* answers.  The stream breaks and is started again after a backoff, the   *)
(* phone changes networks, the user signs out and another signs in, and    *)
(* the app is killed and launched again, at any moment.                    *)
(*                                                                         *)
(* One app; every user writes a document of their own, and the writes of   *)
(* user u are <<u, 1>>, <<u, 2>>, ...  The server and the network between  *)
(* are external: requests and answers arrive in order or are lost with the *)
(* stream, and a request is never applied after its stream has broken.     *)
(***************************************************************************)
EXTENDS Integers, Sequences, SequencesExt, FiniteSets

CONSTANTS Users,               \* the signed-out user is one of them
          NoUser,
          Refused,             \* the writes the server's rules refuse
          MaxPendingWrites,    \* kMaxPendingWrites
          MaxWrites,           \* bound: user -> their writes
          MaxTasks,            \* bound: tasks on the worker queue
          MaxTrouble           \* bound: broken streams, changes of network or user, kills

VARIABLES auth_user,           \* who is signed in
          worker_queue,        \* tasks the client's one worker will run, oldest first
          current_user_,       \* whom SyncEngine takes to be signed in
          mutation_queue,      \* on disk: user -> batches not yet answered
          next_batch_id_,
          mutation_callbacks_, \* the callbacks of setData not yet called
          write_pipeline_,     \* the batches sent or to be sent over the stream
          write_stream_,
          doc,                 \* server: user -> the last write applied to their document
          written,             \* user -> how often setData was called (and kept)
          answers,             \* <<write, status>> for every callback called
          trouble

WritesAssumption ==
    /\ NoUser \notin Users
    /\ Refused \subseteq Users \X Nat
    /\ MaxPendingWrites \in Nat \ {0}
    /\ MaxWrites \in [Users -> Nat]
    /\ MaxTasks \in Nat
    /\ MaxTrouble \in Nat

ASSUME WritesAssumption

appVars == <<auth_user, written>>
queueVars == <<current_user_, mutation_queue, next_batch_id_>>
remoteVars == <<write_pipeline_, write_stream_>>
answerVars == <<mutation_callbacks_, answers>>
vars == <<appVars, worker_queue, queueVars, remoteVars, doc, answerVars, trouble>>

Writes == UNION {{u} \X (1..MaxWrites[u]) : u \in Users}

\* A mutation batch: one set, with the id it is kept under on disk.
Batch == [id : Nat, write : Writes]

\* The requests of the write stream are the handshake and then batches.
Handshake == [id |-> 0]

\* Its responses; the last is the server's end of the stream.
Response == {"handshake", "result", "permanent_error"}

\* Tasks of the worker queue.  A token is live while the stream that asked
\* for it has not been closed since: close_count_ = initial_close_count.
WriteTask(w) == [kind |-> "Write", write |-> w]
CredentialTask(u) == [kind |-> "CredentialChange", user |-> u]
TokenTask(live, u) == [kind |-> "Token", live |-> live, user |-> u]

Task == [kind : {"Write"}, write : Writes]
        \union [kind : {"CredentialChange"}, user : Users]
        \union [kind : {"Token"}, live : BOOLEAN, user : Users]

----------------------------------------------------------------------------
(* Stream and WriteStream, as functions of the stream.  asked holds, for   *)
(* every token asked for and not answered, whether it is live.             *)

NewStream == [state |-> "Initial", handshake_complete |-> FALSE, idle |-> FALSE,
              asked |-> {}, requests |-> <<>>, responses |-> <<>>, user |-> NoUser]

IsOpen(s) == s.state = "Open"
IsStarted(s) == s.state \in {"Starting", "Backoff", "Open"}

\* RequestCredentials
Ask(s) == [s EXCEPT !.state = "Starting", !.asked = @ \union {TRUE}]

Start(s) == IF s.state = "Error" THEN [s EXCEPT !.state = "Backoff"] ELSE Ask(s)

\* A token arrived for a stream that waits for it: the stream is open at once.
Opened(s, u) ==
    [s EXCEPT !.state = "Open", !.user = u, !.requests = <<Handshake>>]

\* Close: the timers are cancelled, what is under way is lost, and the tokens
\* asked for are live no more.
Close(s, state) ==
    [NewStream EXCEPT !.state = state, !.asked = {FALSE : l \in s.asked}]

Stop(s) == IF IsStarted(s) THEN Close(s, "Initial") ELSE s

InhibitBackoff(s) == [s EXCEPT !.state = "Initial"]

MarkIdle(s) == IF IsOpen(s) THEN [s EXCEPT !.idle = TRUE] ELSE s

\* Variant: the idle timer goes on.
SendIdling(s, bs) ==
    IF bs # <<>> /\ IsOpen(s) /\ s.handshake_complete
    THEN [s EXCEPT !.requests = @ \o bs]
    ELSE s

\* Write(message), which cancels the idle timer, of every batch in bs.
Send(s, bs) ==
    IF bs # <<>> /\ IsOpen(s) /\ s.handshake_complete
    THEN [s EXCEPT !.requests = @ \o bs, !.idle = FALSE]
    ELSE s

\* The tasks once the stream has been closed.
Outdated(tasks) ==
    [i \in DOMAIN tasks |->
        IF tasks[i].kind = "Token" THEN [tasks[i] EXCEPT !.live = FALSE] ELSE tasks[i]]

----------------------------------------------------------------------------
(* RemoteStore.                                                            *)

\* Variant: the search begins at the last batch of the pipeline, not after it.
BatchesFromLast(pipeline, queue) ==
    LET taken == {i \in DOMAIN queue : pipeline # <<>> /\ queue[i].id < Last(pipeline).id}
        places == MaxPendingWrites - Len(pipeline)
    IN  SubSeq(queue, Cardinality(taken) + 1, Min({Len(queue), Cardinality(taken) + places}))

\* GetNextMutationBatch, again and again while CanAddToWritePipeline: the batches
\* after those up to the last of the pipeline.  A queue is kept in the order of the ids.
NextBatches(pipeline, queue) ==
    LET taken == {i \in DOMAIN queue : pipeline # <<>> /\ queue[i].id <= Last(pipeline).id}
        places == MaxPendingWrites - Len(pipeline)
    IN  SubSeq(queue, Cardinality(taken) + 1, Min({Len(queue), Cardinality(taken) + places}))

\* Variant: a stream that failed is not started again.
StartIfInitial(pipeline, s) ==
    IF pipeline # <<>> /\ s.state = "Initial" THEN Start(s) ELSE s

StartIfNeeded(pipeline, s) ==
    IF pipeline # <<>> /\ ~IsStarted(s) THEN Start(s) ELSE s

\* FillWritePipeline, which turns the pipeline and the stream into these.
Filled(pipeline, s, queue) ==
    LET more == NextBatches(pipeline, queue)
        all == pipeline \o more
        sent == IF all = <<>> THEN MarkIdle(s) ELSE Send(s, more)
    IN  [pipeline |-> all, stream |-> StartIfNeeded(all, sent)]

Become(r) ==
    /\ write_pipeline_' = r.pipeline
    /\ write_stream_' = r.stream

\* RestartNetwork
Restarted(s, queue) == Filled(<<>>, InhibitBackoff(Stop(s)), queue)

MyQueue == mutation_queue[current_user_]

----------------------------------------------------------------------------
(* SyncEngine and the mutation queue.                                      *)

\* Variant: the largest id itself.
LargestBatchId ==
    Max({0} \union {b.id : b \in UNION {ToSet(mutation_queue[u]) : u \in Users}})

\* Variant: the ids begin again.
FirstBatchId == 1

\* LoadNextBatchIdFromDb: one more than the largest id of any user's queue.
LoadNextBatchId ==
    Max({0} \union {b.id : b \in UNION {ToSet(mutation_queue[u]) : u \in Users}}) + 1

\* NotifyUser: the callback of the batch, if there is one, is called.
NotifyUser(id, status) ==
    LET mine == {c \in mutation_callbacks_ : c.user = current_user_ /\ c.id = id}
    IN  /\ mutation_callbacks_' = mutation_callbacks_ \ mine
        /\ answers' = answers \union {<<c.write, status>> : c \in mine}

\* RemoveMutationBatch, of a batch that is there.
Without(queue, batch) == RemoveAt(queue, CHOOSE i \in DOMAIN queue : queue[i].id = batch.id)

\* HandleSuccessfulWrite and HandleRejectedWrite, then FillWritePipeline: the
\* first batch of the pipeline is done with, and s is the stream from then on.
Settle(status, s) ==
    LET batch == Head(write_pipeline_)
        queue == Without(MyQueue, batch)
    IN  /\ NotifyUser(batch.id, status)
        /\ mutation_queue' = [mutation_queue EXCEPT ![current_user_] = queue]
        /\ Become(Filled(Tail(write_pipeline_), s, queue))
        /\ UNCHANGED <<current_user_, next_batch_id_>>

----------------------------------------------------------------------------
(* The app and the sign-in.                                                *)

\* The app calls setData.
SetData ==
    /\ written[auth_user] < MaxWrites[auth_user]
    /\ Len(worker_queue) < MaxTasks
    /\ written' = [written EXCEPT ![auth_user] = @ + 1]
    /\ worker_queue' = Append(worker_queue, WriteTask(<<auth_user, written'[auth_user]>>))
    /\ UNCHANGED <<auth_user, queueVars, remoteVars, doc, answerVars, trouble>>

\* FIRAuth tells the credentials provider that u is signed in, perhaps again.
AuthStateDidChange(u) ==
    /\ trouble < MaxTrouble
    /\ Len(worker_queue) < MaxTasks
    /\ trouble' = trouble + 1
    /\ auth_user' = u
    /\ worker_queue' = Append(worker_queue, CredentialTask(u))
    /\ UNCHANGED <<written, queueVars, remoteVars, doc, answerVars>>

\* GetToken answers.  It asks again when the user has changed meanwhile, so
\* the token is that of the user who is signed in now.
GetToken(live) ==
    /\ live \in write_stream_.asked
    /\ Len(worker_queue) < MaxTasks
    /\ write_stream_' = [write_stream_ EXCEPT !.asked = @ \ {live}]
    /\ worker_queue' = Append(worker_queue, TokenTask(live, auth_user))
    /\ UNCHANGED <<appVars, queueVars, write_pipeline_, doc, answerVars, trouble>>

----------------------------------------------------------------------------
(* Tasks of the worker queue.                                              *)

Run(kind) ==
    /\ worker_queue # <<>>
    /\ Head(worker_queue).kind = kind

\* SyncEngine::WriteMutations
WriteMutations ==
    /\ Run("Write")
    /\ LET w == Head(worker_queue).write
           queue == Append(MyQueue, [id |-> next_batch_id_, write |-> w])
       IN  /\ mutation_queue' = [mutation_queue EXCEPT ![current_user_] = queue]
           /\ mutation_callbacks_' = mutation_callbacks_ \union
                  {[user |-> current_user_, id |-> next_batch_id_, write |-> w]}
           /\ Become(Filled(write_pipeline_, write_stream_, queue))
    /\ next_batch_id_' = next_batch_id_ + 1
    /\ worker_queue' = Tail(worker_queue)
    /\ UNCHANGED <<appVars, current_user_, doc, answers, trouble>>

\* Variant: the network is not restarted.
ChangeQueueOnly ==
    /\ Run("CredentialChange")
    /\ LET u == Head(worker_queue).user
       IN  /\ current_user_' = u
           /\ next_batch_id_' = IF u = current_user_ THEN next_batch_id_ ELSE LoadNextBatchId
           /\ Become(Filled(write_pipeline_, write_stream_, mutation_queue[u]))
    /\ worker_queue' = Tail(worker_queue)
    /\ UNCHANGED <<appVars, mutation_queue, doc, answerVars, trouble>>

\* SyncEngine::HandleCredentialChange; a new user has a queue of their own.
HandleCredentialChange ==
    /\ Run("CredentialChange")
    /\ LET u == Head(worker_queue).user
       IN  /\ current_user_' = u
           /\ next_batch_id_' = IF u = current_user_ THEN next_batch_id_ ELSE LoadNextBatchId
           /\ Become(Restarted(write_stream_, mutation_queue[u]))
    /\ worker_queue' = Outdated(Tail(worker_queue))
    /\ UNCHANGED <<appVars, mutation_queue, doc, answerVars, trouble>>

\* ResumeStartWithCredentials with a token, unless the stream was closed.
ResumeStart ==
    /\ Run("Token")
    /\ LET t == Head(worker_queue)
       IN  write_stream_' = IF t.live THEN Opened(write_stream_, t.user) ELSE write_stream_
    /\ worker_queue' = Tail(worker_queue)
    /\ UNCHANGED <<appVars, queueVars, write_pipeline_, doc, answerVars, trouble>>

\* ResumeStartWithCredentials without: there is no token to be had.
ResumeStartFails ==
    /\ Run("Token")
    /\ Head(worker_queue).live
    /\ trouble < MaxTrouble
    /\ trouble' = trouble + 1
    /\ write_stream_' = StartIfNeeded(write_pipeline_, Close(write_stream_, "Error"))
    /\ worker_queue' = Outdated(Tail(worker_queue))
    /\ UNCHANGED <<appVars, queueVars, write_pipeline_, doc, answerVars>>

----------------------------------------------------------------------------
(* The stream's events.                                                    *)

Reads(message) ==
    /\ write_stream_.responses # <<>>
    /\ Head(write_stream_.responses) = message

Read(s) == [s EXCEPT !.responses = Tail(@)]

\* OnWriteStreamHandshakeComplete: the whole pipeline is sent.
HandshakeComplete ==
    /\ Reads("handshake")
    /\ write_stream_' = Send([Read(write_stream_) EXCEPT !.handshake_complete = TRUE],
                             write_pipeline_)
    /\ UNCHANGED <<appVars, worker_queue, queueVars, write_pipeline_, doc,
                   answerVars, trouble>>

\* OnWriteStreamMutationResult: it is about the first batch of the pipeline.
MutationResult ==
    /\ Reads("result")
    /\ Settle("ok", Read(write_stream_))
    /\ UNCHANGED <<appVars, worker_queue, doc, trouble>>

\* OnWriteStreamClose after the handshake with a permanent error:
\* HandleWriteError blames the first batch, and the restart is not delayed.
WriteError ==
    /\ Reads("permanent_error")
    /\ Settle("error", InhibitBackoff(Close(write_stream_, "Error")))
    /\ worker_queue' = Outdated(worker_queue)
    /\ UNCHANGED <<appVars, doc, trouble>>

\* OnWriteStreamClose with any other error: what was under way is lost, and
\* the pipeline waits for the next stream.
StreamBreaks ==
    /\ IsOpen(write_stream_)
    /\ trouble < MaxTrouble
    /\ trouble' = trouble + 1
    /\ write_stream_' = StartIfNeeded(write_pipeline_, Close(write_stream_, "Error"))
    /\ worker_queue' = Outdated(worker_queue)
    /\ UNCHANGED <<appVars, queueVars, write_pipeline_, doc, answerVars>>

\* BackoffAndRun's delay is over.
BackoffElapsed ==
    /\ write_stream_.state = "Backoff"
    /\ write_stream_' = Ask(write_stream_)
    /\ UNCHANGED <<appVars, worker_queue, queueVars, write_pipeline_, doc,
                   answerVars, trouble>>

\* The idle timer stops the stream.
IdleTimeout ==
    /\ write_stream_.idle
    /\ write_stream_' = Stop(write_stream_)
    /\ worker_queue' = Outdated(worker_queue)
    /\ UNCHANGED <<appVars, queueVars, write_pipeline_, doc, answerVars, trouble>>

\* The connectivity monitor reports another network.
ConnectivityChange ==
    /\ trouble < MaxTrouble
    /\ trouble' = trouble + 1
    /\ Become(Restarted(write_stream_, MyQueue))
    /\ worker_queue' = Outdated(worker_queue)
    /\ UNCHANGED <<appVars, queueVars, doc, answerVars>>

\* Those of u's writes that reached the disk: the others still wait.
Waiting(u) == {i \in DOMAIN worker_queue :
                  worker_queue[i].kind = "Write" /\ worker_queue[i].write[1] = u}
Stored(u) == written[u] - Cardinality(Waiting(u))

\* The app is killed and launched again.  What was on the worker queue never
\* happened; the mutation queues are read from the disk.
Relaunch ==
    /\ trouble < MaxTrouble
    /\ trouble' = trouble + 1
    /\ written' = [u \in Users |-> Stored(u)]
    /\ worker_queue' = <<>>
    /\ current_user_' = auth_user
    /\ next_batch_id_' = LoadNextBatchId
    /\ mutation_callbacks_' = {}
    /\ Become(Filled(<<>>, NewStream, mutation_queue[auth_user]))
    /\ UNCHANGED <<auth_user, mutation_queue, doc, answers>>

----------------------------------------------------------------------------
(* The server, external: it answers the requests in their order, and ends  *)
(* the stream at a write that it refuses.                                  *)

ServerAnswers ==
    /\ write_stream_.requests # <<>>
    /\ "permanent_error" \notin ToSet(write_stream_.responses)
    /\ LET request == Head(write_stream_.requests)
           answered(message, rest) ==
               [write_stream_ EXCEPT !.requests = rest, !.responses = Append(@, message)]
       IN  CASE request = Handshake ->
                  /\ write_stream_' = answered("handshake", Tail(write_stream_.requests))
                  /\ UNCHANGED doc
             [] request # Handshake /\ request.write \in Refused ->
                  /\ write_stream_' = answered("permanent_error", <<>>)
                  /\ UNCHANGED doc
             [] OTHER ->
                  /\ write_stream_' = answered("result", Tail(write_stream_.requests))
                  /\ doc' = [doc EXCEPT ![request.write[1]] = request.write[2]]
    /\ UNCHANGED <<appVars, worker_queue, queueVars, write_pipeline_, answerVars, trouble>>

----------------------------------------------------------------------------

Init ==
    /\ auth_user \in Users
    /\ worker_queue = <<>>
    /\ current_user_ = auth_user
    /\ mutation_queue = [u \in Users |-> <<>>]
    /\ next_batch_id_ = 1
    /\ mutation_callbacks_ = {}
    /\ write_pipeline_ = <<>>
    /\ write_stream_ = NewStream
    /\ doc = [u \in Users |-> 0]
    /\ written = [u \in Users |-> 0]
    /\ answers = {}
    /\ trouble = 0

\* The client and the network at work.
Progress ==
    \/ \E live \in BOOLEAN : GetToken(live)
    \/ WriteMutations
    \/ HandleCredentialChange
    \/ ResumeStart
    \/ HandshakeComplete
    \/ MutationResult
    \/ WriteError
    \/ BackoffElapsed
    \/ ServerAnswers

Next ==
    \/ Progress
    \/ SetData
    \/ \E u \in Users : AuthStateDidChange(u)
    \/ ResumeStartFails
    \/ StreamBreaks
    \/ IdleTimeout
    \/ ConnectivityChange
    \/ Relaunch

\* A step of the client or of the network that can be taken is taken.  Nobody
\* has to write, and nothing has to go wrong.
Spec == Init /\ [][Next]_vars /\ WF_vars(Progress)
----------------------------------------------------------------------------
(* Properties.                                                             *)

\* Every variable keeps to its type, a document never holds a write that was
\* not made, and batch ids start at 1 (LoadNextBatchIdFromDb).
TypeOK ==
    /\ auth_user \in Users /\ current_user_ \in Users
    /\ worker_queue \in Seq(Task)
    /\ mutation_queue \in [Users -> Seq(Batch)]
    /\ next_batch_id_ \in Nat \ {0}
    /\ write_pipeline_ \in Seq(Batch)
    /\ write_stream_.state \in {"Initial", "Starting", "Open", "Error", "Backoff"}
    /\ ToSet(write_stream_.responses) \subseteq Response
    /\ doc \in [Users -> Nat]
    /\ written \in [Users -> Nat]
    /\ \A u \in Users : doc[u] <= written[u] /\ written[u] <= MaxWrites[u]
    /\ trouble \in 0..MaxTrouble

\* The writes that the server has applied and the client has not heard of.
Results == Cardinality({i \in DOMAIN write_stream_.responses :
                           write_stream_.responses[i] = "result"})

LiveTokens == {i \in DOMAIN worker_queue : worker_queue[i].kind = "Token" /\ worker_queue[i].live}

\* The HARD_ASSERTs of the write path hold whenever they are reached: there is
\* a batch for every result ("Got result for empty write pipeline"), which the
\* queue on disk still has ("Mutation batch not found"); a stream with work
\* left is never stopped for idleness ("stopped gracefully while still
\* needed"); a token that counts finds the stream Starting.  For results and
\* requests match the pipeline, the beginning of the current user's queue.
AssertsHold ==
    LET s == write_stream_
    IN  /\ IsPrefix(write_pipeline_, MyQueue)
        /\ s.handshake_complete =>
              /\ IsOpen(s)
              /\ IF "permanent_error" \in ToSet(s.responses)
                 THEN Results < Len(write_pipeline_)
                 ELSE s.requests = SubSeq(write_pipeline_, Results + 1, Len(write_pipeline_))
        /\ s.idle => write_pipeline_ = <<>>
        /\ s.state = "Starting" <=> (TRUE \in s.asked) # (LiveTokens # {})
        /\ \A i, j \in LiveTokens : i = j
        /\ write_pipeline_ # <<>> => IsStarted(s)

\* A write goes out only on a stream opened with the token of the user who
\* was signed in when the app made it, however sign-ins, tokens, writes and
\* broken streams follow each other (HandleCredentialChange, close_count_).
SentAsOwner ==
    \A m \in ToSet(write_stream_.requests) :
        m # Handshake => m.write[1] = write_stream_.user

\* The stored writes that are answered for.
Settled(u) == Stored(u) - Len(mutation_queue[u])

Order == INSTANCE WriteOrder WITH
    user <- current_user_,
    written <- [u \in Users |-> Stored(u)],
    settled <- [u \in Users |-> Settled(u)],
    position <- Settled(current_user_) + Results

\* Queue, pipeline and stream implement WriteOrder: no write on disk is lost,
\* skipped or overtaken by a launch, a broken stream, a change of user or a
\* refusal, and none is applied again once it has been answered for.
KeepsOrder == Order!Spec

\* The callback of setData is called for its own write and with the truth: OK
\* after the server has applied it, an error only if it refused it, and never
\* while the write is still queued (NotifyUser finds callbacks by batch id).
AnsweredTruly ==
    \A a \in answers :
        LET u == a[1][1] IN
        /\ \A i \in DOMAIN mutation_queue[u] : mutation_queue[u][i].write # a[1]
        /\ IF a[2] = "ok" THEN a[1][2] <= doc[u] ELSE a[1] \in Refused

\* Once the troubles are over, every write of the user who stays signed in is
\* answered for, refused ones included.
EveryWriteSettles ==
    \A u \in Users : mutation_queue[u] # <<>> ~> (mutation_queue[u] = <<>> \/ auth_user # u)
=============================================================================
