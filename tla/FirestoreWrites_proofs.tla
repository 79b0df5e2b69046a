------------------------ MODULE FirestoreWrites_proofs ------------------------
(***************************************************************************)
(* Proofs about FirestoreWrites, for any users, writes refused, length of  *)
(* the pipeline, number of writes, tasks and troubles: the assertions of   *)
(* the write path hold, writes go out as their owner, callbacks are told   *)
(* the truth, and the client implements WriteOrder.                        *)
(***************************************************************************)
EXTENDS FirestoreWrites, SequenceTheorems, FiniteSetTheorems, WellFoundedInduction, TLAPS

----------------------------------------------------------------------------
(* The inductive invariant.                                                *)

Message == Batch \union {Handshake}

Stream == [state : {"Initial", "Starting", "Open", "Error", "Backoff"},
           handshake_complete : BOOLEAN, idle : BOOLEAN, asked : SUBSET BOOLEAN,
           requests : Seq(Message), responses : Seq(Response), user : Users \union {NoUser}]

Typed ==
    /\ auth_user \in Users /\ current_user_ \in Users
    /\ worker_queue \in Seq(Task)
    /\ mutation_queue \in [Users -> Seq(Batch)]
    /\ next_batch_id_ \in Nat \ {0}
    /\ mutation_callbacks_ \subseteq [user : Users, id : Nat, write : Writes]
    /\ write_stream_ \in Stream
    /\ doc \in [Users -> Nat]
    /\ written \in [Users -> Nat] /\ \A u \in Users : written[u] <= MaxWrites[u]
    /\ answers \subseteq Writes \X {"ok", "error"}
    /\ trouble \in 0..MaxTrouble

(* The worker queue.  current is signed in when the first of the tasks runs. *)

IsOf(task, u) == task.kind = "Write" /\ task.write[1] = u
Of(tasks, u) == {i \in DOMAIN tasks : IsOf(tasks[i], u)}

\* u is signed in when the task at place i runs: the last to sign in before.
SignedIn(tasks, current, i, u) ==
    \/ /\ u = current
       /\ \A k \in 1..(i - 1) : tasks[k].kind # "CredentialChange"
    \/ \E j \in 1..(i - 1) :
          /\ tasks[j].kind = "CredentialChange" /\ tasks[j].user = u
          /\ \A k \in (j + 1)..(i - 1) : tasks[k].kind # "CredentialChange"

\* A write is stored, and a token used, while the user is signed in whose it is.
TasksOwned(tasks, current, auth) ==
    /\ \A i \in 1..Len(tasks) :
          /\ tasks[i].kind = "Write" => SignedIn(tasks, current, i, tasks[i].write[1])
          /\ tasks[i].kind = "Token" /\ tasks[i].live => SignedIn(tasks, current, i, tasks[i].user)
    /\ SignedIn(tasks, current, Len(tasks) + 1, auth)

\* The writes of u among the tasks are the last up to n, in their order.
TasksNumbered(tasks, u, n) ==
    LET first == n - Cardinality(Of(tasks, u)) + 1
    IN  /\ first \in 1..(n + 1)
        /\ \A i \in Of(tasks, u) : tasks[i].write[2] \in first..n
        /\ \A m \in first..n : \E i \in Of(tasks, u) : tasks[i].write[2] = m
        /\ \A i, j \in Of(tasks, u) : i < j => tasks[i].write[2] < tasks[j].write[2]

TasksInv ==
    /\ TasksOwned(worker_queue, current_user_, auth_user)
    /\ \A u \in Users : TasksNumbered(worker_queue, u, written[u])

(* The disk.                                                               *)

\* The batches of u hold the writes after the first n, under ascending ids.
QueueSound(queue, u, n) ==
    /\ n \in Nat
    /\ \A i \in 1..Len(queue) : queue[i].write = <<u, n + i>> /\ queue[i].id > 0
    /\ \A i, j \in 1..Len(queue) : i < j => queue[i].id < queue[j].id

\* Ids to come are new in the queue, and after a launch in every queue.
IdsInv ==
    /\ \A i \in 1..Len(MyQueue) : MyQueue[i].id < next_batch_id_
    /\ \E n \in Nat : \A u \in Users : \A i \in 1..Len(mutation_queue[u]) : mutation_queue[u][i].id <= n

\* Who waits for an answer has the write in the queue.
CallbacksQueued ==
    \A c \in mutation_callbacks_ : \E i \in 1..Len(mutation_queue[c.user]) :
        mutation_queue[c.user][i].id = c.id /\ mutation_queue[c.user][i].write = c.write

DiskInv ==
    /\ \A u \in Users : QueueSound(mutation_queue[u], u, Settled(u))
    /\ IdsInv
    /\ CallbacksQueued

(* The truth.                                                              *)

\* What was answered is no longer in the queue, and was answered truly.
AnswersSound ==
    \A a \in answers :
        /\ a[1][2] <= Settled(a[1][1])
        /\ a[2] = "ok" => a[1][2] <= doc[a[1][1]]
        /\ a[2] = "error" => a[1] \in Refused

DocsSound ==
    /\ \A u \in Users : doc[u] <= Stored(u)
    /\ Results > 0 => doc[current_user_] = Settled(current_user_) + Results

TruthInv == AnswersSound /\ DocsSound

(* The pipeline and the stream.                                            *)

PipelineSound(pipeline, queue) ==
    /\ pipeline \in Seq(Batch)
    /\ Len(pipeline) <= Len(queue) /\ Len(pipeline) <= MaxPendingWrites
    /\ \A i \in 1..Len(pipeline) : pipeline[i] = queue[i]

\* The server has applied the first k batches of the pipeline; it refuses the
\* next, or the others are on their way to it.
Answered(pipeline, s, k) ==
    /\ k \in 0..Len(pipeline)
    /\ \A i \in 1..k : s.responses[i] = "result"
    /\ \/ /\ Len(s.responses) = k
          /\ Len(s.requests) = Len(pipeline) - k
          /\ \A i \in 1..Len(s.requests) : s.requests[i] = pipeline[k + i]
       \/ /\ Len(s.responses) = k + 1
          /\ s.responses[k + 1] = "permanent_error"
          /\ k < Len(pipeline) /\ pipeline[k + 1].write \in Refused

\* A stream that is open, for u: the handshake is under way, or the batches are.
OpenSound(pipeline, s, u) ==
    /\ s.user = u
    /\ ~s.handshake_complete =>
          /\ pipeline # <<>> /\ ~s.idle
          /\ \/ s.requests = <<Handshake>> /\ s.responses = <<>>
             \/ s.requests = <<>> /\ s.responses = <<"handshake">>
    /\ s.handshake_complete =>
          /\ s.idle => pipeline = <<>>
          /\ \A i \in 1..Len(s.requests) : s.requests[i] \in Batch /\ s.requests[i].write[1] = u
          /\ \E k \in 0..Len(pipeline) : Answered(pipeline, s, k)

StreamSound(pipeline, s, u) ==
    /\ IsOpen(s) => OpenSound(pipeline, s, u)
    /\ ~IsOpen(s) => /\ s.requests = <<>> /\ s.responses = <<>>
                     /\ ~s.handshake_complete /\ ~s.idle
    /\ s.state \in {"Starting", "Backoff"} => pipeline # <<>>

Live(tasks) == {i \in 1..Len(tasks) : tasks[i].kind = "Token" /\ tasks[i].live}

\* A stream that starts waits for one token, asked for or on the worker queue.
TokensSound(tasks, s) ==
    /\ s.state # "Starting" => TRUE \notin s.asked /\ Live(tasks) = {}
    /\ s.state = "Starting" => (TRUE \in s.asked <=> Live(tasks) = {})
    /\ \A i, j \in Live(tasks) : i = j

StreamInv ==
    /\ PipelineSound(write_pipeline_, MyQueue)
    /\ StreamSound(write_pipeline_, write_stream_, current_user_)
    /\ write_pipeline_ # <<>> => IsStarted(write_stream_)
    /\ TokensSound(worker_queue, write_stream_)

WritesInv == Typed /\ TasksInv /\ DiskInv /\ TruthInv /\ StreamInv

----------------------------------------------------------------------------
(* Writes and tasks.                                                       *)

LEMMA WritesFacts ==
    ASSUME NEW w \in Writes
    PROVE  w[1] \in Users /\ w[2] \in 1..MaxWrites[w[1]] /\ w = <<w[1], w[2]>>
  BY DEF Writes

LEMMA TaskFacts ==
    ASSUME NEW t \in Task
    PROVE  /\ t.kind = "Write" => t.write \in Writes
           /\ t.kind = "CredentialChange" => t.user \in Users
           /\ t.kind = "Token" => /\ t.live \in BOOLEAN /\ t.user \in Users
                                  /\ [t EXCEPT !.live = FALSE] \in Task
                                  /\ [t EXCEPT !.live = FALSE].kind = "Token"
                                  /\ ~[t EXCEPT !.live = FALSE].live
  BY DEF Task

LEMMA NewTasks ==
    /\ \A w \in Writes : /\ WriteTask(w) \in Task
                         /\ WriteTask(w).kind = "Write" /\ WriteTask(w).write = w
    /\ \A u \in Users : /\ CredentialTask(u) \in Task
                        /\ CredentialTask(u).kind = "CredentialChange" /\ CredentialTask(u).user = u
    /\ \A l \in BOOLEAN, u \in Users :
          /\ TokenTask(l, u) \in Task
          /\ TokenTask(l, u).kind = "Token"
          /\ TokenTask(l, u).live = l /\ TokenTask(l, u).user = u
  BY DEF Task, WriteTask, CredentialTask, TokenTask

\* The tasks once the stream is closed: they differ in the tokens only.
LEMMA OutdatedFacts ==
    ASSUME NEW tasks \in Seq(Task)
    PROVE  /\ Outdated(tasks) \in Seq(Task)
           /\ Len(Outdated(tasks)) = Len(tasks)
           /\ \A i \in 1..Len(tasks) :
                 /\ Outdated(tasks)[i].kind = tasks[i].kind
                 /\ tasks[i].kind = "Token" => ~Outdated(tasks)[i].live
                 /\ tasks[i].kind # "Token" => Outdated(tasks)[i] = tasks[i]
<1> DEFINE out == Outdated(tasks)
<1>1. Len(tasks) \in Nat /\ DOMAIN tasks = 1..Len(tasks)
  OBVIOUS
<1>2. \A i \in 1..Len(tasks) :
        out[i] = IF tasks[i].kind = "Token" THEN [tasks[i] EXCEPT !.live = FALSE] ELSE tasks[i]
  BY <1>1 DEF Outdated
<1>3. \A i \in 1..Len(tasks) :
        /\ out[i] \in Task
        /\ out[i].kind = tasks[i].kind
        /\ tasks[i].kind = "Token" => ~out[i].live
        /\ tasks[i].kind # "Token" => out[i] = tasks[i]
  <2> SUFFICES ASSUME NEW i \in 1..Len(tasks)
               PROVE  /\ out[i] \in Task
                      /\ out[i].kind = tasks[i].kind
                      /\ tasks[i].kind = "Token" => ~out[i].live
                      /\ tasks[i].kind # "Token" => out[i] = tasks[i]
    OBVIOUS
  <2> DEFINE t == tasks[i]
  <2>1. t \in Task /\ out[i] = IF t.kind = "Token" THEN [t EXCEPT !.live = FALSE] ELSE t
    BY <1>2
  <2>2. t.kind = "Token" => /\ [t EXCEPT !.live = FALSE] \in Task
                            /\ [t EXCEPT !.live = FALSE].kind = "Token"
                            /\ ~[t EXCEPT !.live = FALSE].live
    BY <2>1, TaskFacts
  <2> HIDE DEF t, out
  <2>3. /\ out[i] \in Task /\ out[i].kind = t.kind /\ (t.kind = "Token" => ~out[i].live)
        /\ (t.kind # "Token" => out[i] = t)
    BY <2>1, <2>2
  <2> QED
    BY <2>3 DEF t
<1>4. out = [i \in 1..Len(tasks) |-> out[i]]
  BY <1>1 DEF Outdated
<1>5. out \in [1..Len(tasks) -> Task]
  BY <1>3, <1>4
<1>6. out \in Seq(Task) /\ Len(out) = Len(tasks)
  BY <1>1, <1>5, SeqDef
<1> QED
  BY <1>3, <1>6

----------------------------------------------------------------------------
(* Counting.                                                               *)

LEMMA CountPrefix ==
    ASSUME NEW n \in Nat, NEW k \in 0..n, NEW S \in SUBSET (1..n),
           \A i \in 1..n : i \in S <=> i <= k
    PROVE  Cardinality(S) = k
<1>1. S = 1..k
  <2>1. \A i \in S : i \in 1..k
    OBVIOUS
  <2>2. \A i \in 1..k : i \in S
    OBVIOUS
  <2> QED
    BY <2>1, <2>2
<1> QED
  BY <1>1, FS_Interval

\* The places of a sequence, and those of its tail.
LEMMA CountTail ==
    ASSUME NEW n \in Nat, n > 0, NEW S \in SUBSET (1..n), NEW T,
           T = {i \in 1..(n - 1) : i + 1 \in S}
    PROVE  /\ IsFiniteSet(S)
           /\ Cardinality(T) = IF 1 \in S THEN Cardinality(S) - 1 ELSE Cardinality(S)
<1> DEFINE f == [i \in T |-> i + 1]
<1>1. IsFiniteSet(S)
  <2>1. IsFiniteSet(1..n)
    BY FS_Interval
  <2> QED
    BY <2>1, FS_Subset
<1>2. IsFiniteSet(T)
  <2>1. n - 1 \in Int /\ T \in SUBSET (1..(n - 1))
    OBVIOUS
  <2>2. IsFiniteSet(1..(n - 1))
    BY <2>1, FS_Interval
  <2> QED
    BY <2>1, <2>2, FS_Subset
<1>3. f \in Bijection(T, S \ {1})
  <2>1. f \in [T -> S \ {1}]
    OBVIOUS
  <2>2. \A i, j \in T : f[i] = f[j] => i = j
    OBVIOUS
  <2>3. \A j \in S \ {1} : j - 1 \in T /\ f[j - 1] = j
    OBVIOUS
  <2> QED
    BY <2>1, <2>2, <2>3 DEF Bijection, Injection, IsInjective, Surjection
<1>4. Cardinality(S \ {1}) = Cardinality(T)
  BY <1>2, <1>3, FS_Bijection DEF ExistsBijection
<1> QED
  BY <1>1, <1>4, FS_RemoveElement

----------------------------------------------------------------------------
(* Who is signed in when a task runs.                                      *)

\* It depends on the changes of user before it only.
LEMMA SignedInPrefix ==
    ASSUME NEW a, NEW b, NEW current, NEW u, NEW i \in Nat, SignedIn(a, current, i, u),
           \A k \in 1..(i - 1) :
              /\ a[k].kind = b[k].kind
              /\ a[k].kind = "CredentialChange" => a[k].user = b[k].user
    PROVE  SignedIn(b, current, i, u)
<1>1. CASE u = current /\ \A k \in 1..(i - 1) : a[k].kind # "CredentialChange"
  BY <1>1 DEF SignedIn
<1>2. CASE \E j \in 1..(i - 1) :
              /\ a[j].kind = "CredentialChange" /\ a[j].user = u
              /\ \A k \in (j + 1)..(i - 1) : a[k].kind # "CredentialChange"
  <2>1. PICK j \in 1..(i - 1) :
              /\ a[j].kind = "CredentialChange" /\ a[j].user = u
              /\ \A k \in (j + 1)..(i - 1) : a[k].kind # "CredentialChange"
    BY <1>2
  <2>2. \A k \in (j + 1)..(i - 1) : k \in 1..(i - 1)
    OBVIOUS
  <2>3. /\ b[j].kind = "CredentialChange" /\ b[j].user = u
        /\ \A k \in (j + 1)..(i - 1) : b[k].kind # "CredentialChange"
    BY <2>1, <2>2
  <2> QED
    BY <2>3 DEF SignedIn
<1> QED
  BY <1>1, <1>2 DEF SignedIn

\* When the first task has run.
LEMMA SignedInTail ==
    ASSUME NEW tasks \in Seq(Task), tasks # <<>>, NEW current, NEW u,
           NEW i \in 2..(Len(tasks) + 1), SignedIn(tasks, current, i, u),
           NEW next,
           next = IF Head(tasks).kind = "CredentialChange" THEN Head(tasks).user ELSE current
    PROVE  SignedIn(Tail(tasks), next, i - 1, u)
<1> DEFINE rest == Tail(tasks)
<1>1. /\ Len(tasks) \in Nat /\ Head(tasks) = tasks[1]
      /\ \A k \in 1..(i - 2) : rest[k] = tasks[k + 1]
  OBVIOUS
<1> HIDE DEF rest
<1>2. CASE u = current /\ \A k \in 1..(i - 1) : tasks[k].kind # "CredentialChange"
  <2>1. next = u
    BY <1>1, <1>2
  <2>2. \A k \in 1..(i - 2) : rest[k].kind # "CredentialChange"
    BY <1>1, <1>2
  <2> QED
    BY <2>1, <2>2 DEF SignedIn, rest
<1>3. CASE \E j \in 1..(i - 1) :
              /\ tasks[j].kind = "CredentialChange" /\ tasks[j].user = u
              /\ \A k \in (j + 1)..(i - 1) : tasks[k].kind # "CredentialChange"
  <2>1. PICK j \in 1..(i - 1) :
              /\ tasks[j].kind = "CredentialChange" /\ tasks[j].user = u
              /\ \A k \in (j + 1)..(i - 1) : tasks[k].kind # "CredentialChange"
    BY <1>3
  <2>2. \A k \in j..(i - 2) : k \in 1..(i - 2) /\ k + 1 \in (j + 1)..(i - 1)
    OBVIOUS
  <2>3. \A k \in j..(i - 2) : rest[k].kind # "CredentialChange"
    BY <1>1, <2>1, <2>2
  <2>4. CASE j = 1
    <3>1. next = u
      BY <1>1, <2>1, <2>4
    <3> QED
      BY <2>3, <2>4, <3>1 DEF SignedIn, rest
  <2>5. CASE j > 1
    <3>1. j - 1 \in 1..(i - 2) /\ rest[j - 1] = tasks[j] /\ (j - 1) + 1 = j
      BY <1>1, <2>5
    <3>2. \A k \in ((j - 1) + 1)..((i - 1) - 1) : rest[k].kind # "CredentialChange"
      BY <2>3
    <3>3. \E l \in 1..((i - 1) - 1) :
              /\ rest[l].kind = "CredentialChange" /\ rest[l].user = u
              /\ \A k \in (l + 1)..((i - 1) - 1) : rest[k].kind # "CredentialChange"
      BY <2>1, <3>1, <3>2
    <3> QED
      BY <3>3 DEF SignedIn, rest
  <2> QED
    BY <2>4, <2>5
<1> QED
  BY <1>2, <1>3 DEF SignedIn

\* The first task runs with current signed in.
LEMMA SignedInFirst ==
    ASSUME NEW tasks, NEW current, NEW u, SignedIn(tasks, current, 1, u)
    PROVE  u = current
  BY DEF SignedIn

LEMMA NoTasks ==
    ASSUME NEW current
    PROVE  TasksOwned(<<>>, current, current)
  BY DEF TasksOwned, SignedIn

LEMMA AppendOwned ==
    ASSUME NEW tasks \in Seq(Task), NEW t \in Task, NEW current, NEW auth, NEW auth2,
           TasksOwned(tasks, current, auth),
           t.kind = "Write" => t.write[1] = auth,
           t.kind = "Token" /\ t.live => t.user = auth,
           auth2 = IF t.kind = "CredentialChange" THEN t.user ELSE auth
    PROVE  TasksOwned(Append(tasks, t), current, auth2)
<1> DEFINE n == Len(tasks)
           more == Append(tasks, t)
<1>1. /\ n \in Nat /\ Len(more) = n + 1 /\ more[n + 1] = t
      /\ \A i \in 1..n : more[i] = tasks[i]
  OBVIOUS
<1> HIDE DEF n, more
<1>2. \A u : \A i \in 1..(n + 1) : SignedIn(tasks, current, i, u) => SignedIn(more, current, i, u)
  <2> SUFFICES ASSUME NEW i \in 1..(n + 1), NEW u, SignedIn(tasks, current, i, u)
               PROVE  SignedIn(more, current, i, u)
    OBVIOUS
  <2>1. i \in Nat /\ \A k \in 1..(i - 1) : tasks[k] = more[k]
    BY <1>1
  <2> QED
    BY <2>1, SignedInPrefix
<1>3. /\ \A i \in 1..n :
            /\ tasks[i].kind = "Write" => SignedIn(tasks, current, i, tasks[i].write[1])
            /\ tasks[i].kind = "Token" /\ tasks[i].live => SignedIn(tasks, current, i, tasks[i].user)
      /\ SignedIn(tasks, current, n + 1, auth)
  BY DEF TasksOwned, n
<1>4. ASSUME NEW i \in 1..(n + 1)
      PROVE  /\ more[i].kind = "Write" => SignedIn(more, current, i, more[i].write[1])
             /\ more[i].kind = "Token" /\ more[i].live => SignedIn(more, current, i, more[i].user)
  <2>1. CASE i = n + 1
    BY <1>1, <1>2, <1>3, <2>1
  <2>2. CASE i \in 1..n
    BY <1>1, <1>2, <1>3, <2>2
  <2> QED
    BY <1>1, <2>1, <2>2
<1>5. SignedIn(more, current, n + 2, auth2)
  <2>1. CASE t.kind = "CredentialChange"
    <3>1. /\ n + 1 \in 1..((n + 2) - 1) /\ more[n + 1].kind = "CredentialChange"
          /\ more[n + 1].user = auth2
          /\ \A k \in ((n + 1) + 1)..((n + 2) - 1) : more[k].kind # "CredentialChange"
      BY <1>1, <2>1
    <3> QED
      BY <3>1 DEF SignedIn
  <2>2. CASE t.kind # "CredentialChange"
    <3>1. SignedIn(more, current, n + 1, auth) /\ auth2 = auth
      BY <1>1, <1>2, <1>3, <2>2
    <3>2. \A k \in 1..(n + 1) : k \in 1..n \/ (k = n + 1 /\ more[k].kind # "CredentialChange")
      BY <1>1, <2>2
    <3>3. CASE auth = current /\ \A k \in 1..n : more[k].kind # "CredentialChange"
      BY <1>1, <3>1, <3>2, <3>3 DEF SignedIn
    <3>4. CASE \E j \in 1..n :
                  /\ more[j].kind = "CredentialChange" /\ more[j].user = auth
                  /\ \A k \in (j + 1)..n : more[k].kind # "CredentialChange"
      <4>1. PICK j \in 1..n :
                  /\ more[j].kind = "CredentialChange" /\ more[j].user = auth
                  /\ \A k \in (j + 1)..n : more[k].kind # "CredentialChange"
        BY <3>4
      <4>2. j \in 1..((n + 2) - 1)
            /\ \A k \in (j + 1)..((n + 2) - 1) : more[k].kind # "CredentialChange"
        BY <1>1, <3>2, <4>1
      <4> QED
        BY <3>1, <4>1, <4>2 DEF SignedIn
    <3> QED
      BY <1>1, <3>1, <3>3, <3>4 DEF SignedIn
  <2> QED
    BY <2>1, <2>2
<1> QED
  BY <1>1, <1>4, <1>5 DEF TasksOwned, more

LEMMA TailOwned ==
    ASSUME NEW tasks \in Seq(Task), tasks # <<>>, NEW current, NEW auth, NEW next,
           TasksOwned(tasks, current, auth),
           next = IF Head(tasks).kind = "CredentialChange" THEN Head(tasks).user ELSE current
    PROVE  TasksOwned(Tail(tasks), next, auth)
<1> DEFINE n == Len(tasks)
           rest == Tail(tasks)
<1>1. /\ n \in Nat \ {0} /\ Len(rest) = n - 1
      /\ \A i \in 1..(n - 1) : rest[i] = tasks[i + 1]
  OBVIOUS
<1>2. \A u : \A i \in 1..n : SignedIn(tasks, current, i + 1, u) => SignedIn(rest, next, i, u)
  <2> SUFFICES ASSUME NEW i \in 1..n, NEW u, SignedIn(tasks, current, i + 1, u)
               PROVE  SignedIn(rest, next, i, u)
    OBVIOUS
  <2>1. i + 1 \in 2..(Len(tasks) + 1) /\ (i + 1) - 1 = i
    BY <1>1
  <2> QED
    BY <2>1, SignedInTail
<1> HIDE DEF n, rest
<1>3. /\ \A i \in 1..n :
            /\ tasks[i].kind = "Write" => SignedIn(tasks, current, i, tasks[i].write[1])
            /\ tasks[i].kind = "Token" /\ tasks[i].live => SignedIn(tasks, current, i, tasks[i].user)
      /\ SignedIn(tasks, current, n + 1, auth)
  BY DEF TasksOwned, n
<1>4. ASSUME NEW i \in 1..(n - 1)
      PROVE  /\ rest[i].kind = "Write" => SignedIn(rest, next, i, rest[i].write[1])
             /\ rest[i].kind = "Token" /\ rest[i].live => SignedIn(rest, next, i, rest[i].user)
  <2>1. i + 1 \in 1..n /\ i \in 1..n /\ rest[i] = tasks[i + 1]
    BY <1>1
  <2> QED
    BY <1>2, <1>3, <2>1
<1>5. SignedIn(rest, next, n, auth)
  BY <1>1, <1>2, <1>3
<1>6. (n - 1) + 1 = n
  BY <1>1
<1> QED
  BY <1>1, <1>4, <1>5, <1>6 DEF TasksOwned, rest

LEMMA OutdatedOwned ==
    ASSUME NEW tasks \in Seq(Task), NEW current, NEW auth, TasksOwned(tasks, current, auth)
    PROVE  TasksOwned(Outdated(tasks), current, auth)
<1> DEFINE n == Len(tasks)
           out == Outdated(tasks)
<1>1. /\ n \in Nat /\ Len(out) = n
      /\ \A i \in 1..n : /\ out[i].kind = tasks[i].kind
                         /\ tasks[i].kind = "Token" => ~out[i].live
                         /\ tasks[i].kind # "Token" => out[i] = tasks[i]
  BY OutdatedFacts
<1> HIDE DEF n, out
<1>2. \A u : \A i \in 1..(n + 1) : SignedIn(tasks, current, i, u) => SignedIn(out, current, i, u)
  <2> SUFFICES ASSUME NEW i \in 1..(n + 1), NEW u, SignedIn(tasks, current, i, u)
               PROVE  SignedIn(out, current, i, u)
    OBVIOUS
  <2>1. i \in Nat /\ \A k \in 1..(i - 1) :
                       /\ tasks[k].kind = out[k].kind
                       /\ tasks[k].kind = "CredentialChange" => tasks[k].user = out[k].user
    BY <1>1
  <2> QED
    BY <2>1, SignedInPrefix
<1>3. /\ \A i \in 1..n :
            tasks[i].kind = "Write" => SignedIn(tasks, current, i, tasks[i].write[1])
      /\ SignedIn(tasks, current, n + 1, auth)
  BY DEF TasksOwned, n
<1>4. ASSUME NEW i \in 1..n
      PROVE  /\ out[i].kind = "Write" => SignedIn(out, current, i, out[i].write[1])
             /\ ~(out[i].kind = "Token" /\ out[i].live)
  BY <1>1, <1>2, <1>3
<1>5. SignedIn(out, current, n + 1, auth)
  BY <1>1, <1>2, <1>3
<1> QED
  BY <1>1, <1>4, <1>5 DEF TasksOwned, out

----------------------------------------------------------------------------
(* How many writes of a user wait.                                         *)

LEMMA OfFacts ==
    ASSUME NEW tasks \in Seq(Task), NEW u
    PROVE  /\ Of(tasks, u) \in SUBSET (1..Len(tasks))
           /\ IsFiniteSet(Of(tasks, u)) /\ Cardinality(Of(tasks, u)) \in Nat
<1>1. Len(tasks) \in Nat /\ DOMAIN tasks = 1..Len(tasks)
  OBVIOUS
<1>2. Of(tasks, u) \in SUBSET (1..Len(tasks))
  BY <1>1 DEF Of
<1>3. IsFiniteSet(1..Len(tasks))
  BY <1>1, FS_Interval
<1>4. IsFiniteSet(Of(tasks, u))
  BY <1>2, <1>3, FS_Subset
<1> QED
  BY <1>2, <1>4, FS_CardinalityType

LEMMA NoneNumbered ==
    ASSUME NEW u, NEW n \in Nat
    PROVE  Cardinality(Of(<<>>, u)) = 0 /\ TasksNumbered(<<>>, u, n)
<1>1. Of(<<>>, u) = {}
  BY DEF Of
<1>2. Cardinality(Of(<<>>, u)) = 0
  BY <1>1, FS_EmptySet
<1> QED
  BY <1>1, <1>2 DEF TasksNumbered

LEMMA AppendNumbered ==
    ASSUME NEW tasks \in Seq(Task), NEW t \in Task, NEW u, NEW n \in Nat, NEW n2,
           TasksNumbered(tasks, u, n),
           IsOf(t, u) => t.write[2] = n + 1,
           n2 = IF IsOf(t, u) THEN n + 1 ELSE n
    PROVE  /\ TasksNumbered(Append(tasks, t), u, n2)
           /\ n2 - Cardinality(Of(Append(tasks, t), u)) = n - Cardinality(Of(tasks, u))
<1> DEFINE l == Len(tasks)
           more == Append(tasks, t)
           old == Of(tasks, u)
           new == Of(more, u)
<1>1. /\ l \in Nat /\ Len(more) = l + 1 /\ more[l + 1] = t /\ DOMAIN more = 1..(l + 1)
      /\ \A i \in 1..l : more[i] = tasks[i]
      /\ DOMAIN tasks = 1..l
  OBVIOUS
<1>2. old \in SUBSET (1..l) /\ IsFiniteSet(old) /\ Cardinality(old) \in Nat
  BY OfFacts
<1>3. new = IF IsOf(t, u) THEN old \union {l + 1} ELSE old
  <2> HIDE DEF more, l
  <2>1. \A i \in 1..(l + 1) : i \in new <=> (i \in old \/ (i = l + 1 /\ IsOf(t, u)))
    BY <1>1 DEF Of
  <2>2. new \in SUBSET (1..(l + 1))
    BY <1>1 DEF Of
  <2> HIDE DEF old, new
  <2>3. \A i \in new : i \in old \/ (i = l + 1 /\ IsOf(t, u))
    BY <2>1, <2>2
  <2>4. l \in Nat /\ \A i \in old : i \in 1..(l + 1)
    BY <1>1, <1>2
  <2>5. \A i \in old : i \in new
    BY <2>1, <2>4
  <2>6. IsOf(t, u) => l + 1 \in new
    BY <2>1, <2>4
  <2> QED
    BY <2>3, <2>5, <2>6
<1>4. Cardinality(new) = IF IsOf(t, u) THEN Cardinality(old) + 1 ELSE Cardinality(old)
  <2>1. l + 1 \notin old
    BY <1>1, <1>2
  <2> HIDE DEF old, new
  <2> QED
    BY <1>2, <1>3, <2>1, FS_AddElement
<1> DEFINE first == n - Cardinality(old) + 1
<1>5. n2 - Cardinality(new) + 1 = first
  BY <1>2, <1>4
<1>6. /\ first \in 1..(n + 1)
      /\ \A i \in old : tasks[i].write[2] \in first..n
      /\ \A m \in first..n : \E i \in old : tasks[i].write[2] = m
      /\ \A i, j \in old : i < j => tasks[i].write[2] < tasks[j].write[2]
  BY DEF TasksNumbered
<1> HIDE DEF l, more, old, new, first
<1>7. ASSUME IsOf(t, u) PROVE TasksNumbered(more, u, n2)
  <2>1. n2 = n + 1 /\ new = old \union {l + 1} /\ more[l + 1].write[2] = n + 1
    BY <1>1, <1>3, <1>7
  <2>2. \A i \in old : i \in 1..l /\ more[i] = tasks[i]
    BY <1>1, <1>2
  <2>3. first \in 1..(n2 + 1)
    BY <1>6, <2>1
  <2>4. \A i \in new : more[i].write[2] \in first..n2
    BY <1>6, <2>1, <2>2
  <2>5. \A m \in first..n2 : \E i \in new : more[i].write[2] = m
    <3> SUFFICES ASSUME NEW m \in first..n2 PROVE \E i \in new : more[i].write[2] = m
      OBVIOUS
    <3>1. CASE m = n + 1
      BY <2>1, <3>1
    <3>2. CASE m \in first..n
      BY <1>6, <2>1, <2>2, <3>2
    <3> QED
      BY <1>6, <2>1, <3>1, <3>2
  <2>6. \A i, j \in new : i < j => more[i].write[2] < more[j].write[2]
    BY <1>1, <1>6, <2>1, <2>2
  <2> QED
    BY <1>5, <2>3, <2>4, <2>5, <2>6 DEF TasksNumbered, new
<1>8. ASSUME ~IsOf(t, u) PROVE TasksNumbered(more, u, n2)
  <2>1. n2 = n /\ new = old
    BY <1>3, <1>8
  <2>2. \A i \in old : i \in 1..l /\ more[i] = tasks[i]
    BY <1>1, <1>2
  <2>3. /\ first \in 1..(n2 + 1)
        /\ \A i \in new : more[i].write[2] \in first..n2
        /\ \A m \in first..n2 : \E i \in new : more[i].write[2] = m
        /\ \A i, j \in new : i < j => more[i].write[2] < more[j].write[2]
    BY <1>6, <2>1, <2>2
  <2> QED
    BY <1>5, <2>3 DEF TasksNumbered, new
<1>9. n2 - Cardinality(new) = n - Cardinality(old)
  BY <1>2, <1>4
<1> QED
  BY <1>7, <1>8, <1>9 DEF old, new, more

LEMMA TailNumbered ==
    ASSUME NEW tasks \in Seq(Task), tasks # <<>>, NEW u, NEW n \in Nat,
           TasksNumbered(tasks, u, n)
    PROVE  /\ TasksNumbered(Tail(tasks), u, n)
           /\ Cardinality(Of(Tail(tasks), u)) = IF IsOf(Head(tasks), u)
                                                THEN Cardinality(Of(tasks, u)) - 1
                                                ELSE Cardinality(Of(tasks, u))
           /\ IsOf(Head(tasks), u) => Head(tasks).write[2] = n - Cardinality(Of(tasks, u)) + 1
<1> DEFINE l == Len(tasks)
           rest == Tail(tasks)
           old == Of(tasks, u)
           new == Of(rest, u)
           first == n - Cardinality(old) + 1
<1>1. /\ l \in Nat \ {0} /\ Len(rest) = l - 1 /\ DOMAIN rest = 1..(l - 1) /\ DOMAIN tasks = 1..l
      /\ \A i \in 1..(l - 1) : rest[i] = tasks[i + 1]
      /\ Head(tasks) = tasks[1]
  OBVIOUS
<1>2. old \in SUBSET (1..l) /\ Cardinality(old) \in Nat
  BY OfFacts
<1>3. \A i : i \in new <=> i \in 1..(l - 1) /\ i + 1 \in old
  <2> HIDE DEF rest, l
  <2> QED
    BY <1>1 DEF Of
<1>4. 1 \in old <=> IsOf(Head(tasks), u)
  <2> HIDE DEF rest, l
  <2> QED
    BY <1>1 DEF Of
<1>5. /\ first \in 1..(n + 1)
      /\ \A i \in old : tasks[i].write[2] \in first..n
      /\ \A m \in first..n : \E i \in old : tasks[i].write[2] = m
      /\ \A i, j \in old : i < j => tasks[i].write[2] < tasks[j].write[2]
  BY DEF TasksNumbered
<1>6. Cardinality(new) = IF 1 \in old THEN Cardinality(old) - 1 ELSE Cardinality(old)
  <2> HIDE DEF l, rest, old, new
  <2>1. new = {i \in 1..(l - 1) : i + 1 \in old}
    BY <1>3
  <2> QED
    BY <1>1, <1>2, <2>1, CountTail
<1> HIDE DEF l, rest, old, new, first
<1>7. \A i \in new : i + 1 \in old /\ rest[i] = tasks[i + 1] /\ i \in Nat \ {0}
  BY <1>1, <1>3
<1>8. \A i \in old : i # 1 => i - 1 \in new /\ rest[i - 1] = tasks[i]
  BY <1>1, <1>2, <1>3
<1>9. CASE 1 \in old
  <2>1. first <= n
    BY <1>5, <1>9
  <2>2. tasks[1].write[2] = first
    <3>1. PICK i \in old : tasks[i].write[2] = first
      BY <1>5, <2>1
    <3>2. i # 1 => tasks[1].write[2] < first
      BY <1>2, <1>5, <1>9, <3>1
    <3> QED
      BY <1>5, <1>9, <3>1, <3>2
  <2>3. n - Cardinality(new) + 1 = first + 1
    BY <1>2, <1>6, <1>9 DEF first
  <2>4. \A i \in new : rest[i].write[2] \in (first + 1)..n
    <3> SUFFICES ASSUME NEW i \in new PROVE rest[i].write[2] \in (first + 1)..n
      OBVIOUS
    <3>1. tasks[1].write[2] < tasks[i + 1].write[2] /\ tasks[i + 1].write[2] \in first..n
      BY <1>5, <1>7, <1>9
    <3> QED
      BY <1>5, <1>7, <2>2, <3>1
  <2>5. \A m \in (first + 1)..n : \E i \in new : rest[i].write[2] = m
    <3> SUFFICES ASSUME NEW m \in (first + 1)..n PROVE \E i \in new : rest[i].write[2] = m
      OBVIOUS
    <3>1. m \in first..n /\ m # first
      BY <1>5
    <3>2. PICK i \in old : tasks[i].write[2] = m
      BY <1>5, <3>1
    <3> QED
      BY <1>8, <2>2, <3>1, <3>2
  <2>6. \A i, j \in new : i < j => rest[i].write[2] < rest[j].write[2]
    BY <1>5, <1>7
  <2>7. first + 1 \in 1..(n + 1)
    BY <1>5, <2>1
  <2> QED
    BY <1>1, <1>4, <1>6, <1>9, <2>2, <2>3, <2>4, <2>5, <2>6, <2>7
       DEF TasksNumbered, new, rest, first, old
<1>10. CASE 1 \notin old
  <2>1. n - Cardinality(new) + 1 = first
    BY <1>6, <1>10 DEF first
  <2>2. \A i \in new : rest[i].write[2] \in first..n
    BY <1>5, <1>7
  <2>3. \A m \in first..n : \E i \in new : rest[i].write[2] = m
    <3> SUFFICES ASSUME NEW m \in first..n PROVE \E i \in new : rest[i].write[2] = m
      OBVIOUS
    <3>1. PICK i \in old : tasks[i].write[2] = m
      BY <1>5
    <3> QED
      BY <1>8, <1>10, <3>1
  <2>4. \A i, j \in new : i < j => rest[i].write[2] < rest[j].write[2]
    BY <1>5, <1>7
  <2> QED
    BY <1>4, <1>5, <1>6, <1>10, <2>1, <2>2, <2>3, <2>4
       DEF TasksNumbered, new, rest, first, old
<1> QED
  BY <1>9, <1>10

LEMMA OutdatedNumbered ==
    ASSUME NEW tasks \in Seq(Task), NEW u, NEW n \in Nat, TasksNumbered(tasks, u, n)
    PROVE  /\ TasksNumbered(Outdated(tasks), u, n)
           /\ Cardinality(Of(Outdated(tasks), u)) = Cardinality(Of(tasks, u))
<1> DEFINE out == Outdated(tasks)
<1>1. /\ Len(out) = Len(tasks) /\ DOMAIN tasks = 1..Len(tasks) /\ DOMAIN out = 1..Len(tasks)
      /\ \A i \in 1..Len(tasks) : /\ out[i].kind = tasks[i].kind
                                  /\ tasks[i].kind # "Token" => out[i] = tasks[i]
  BY OutdatedFacts
<1> HIDE DEF out
<1>2. \A i : i \in Of(out, u) <=> i \in Of(tasks, u)
  BY <1>1 DEF Of, IsOf
<1>3. Of(out, u) = Of(tasks, u)
  BY <1>2
<1>4. \A i \in Of(tasks, u) : out[i] = tasks[i]
  BY <1>1 DEF Of, IsOf
<1> QED
  BY <1>3, <1>4 DEF TasksNumbered, out

----------------------------------------------------------------------------
(* Batch ids.                                                              *)

\* A set of numbers that has a bound has a largest.
LEMMA LargestFacts ==
    ASSUME NEW S \in SUBSET Nat, S # {}, NEW n \in Nat, \A x \in S : x <= n
    PROVE  Max(S) \in S /\ \A y \in S : y <= Max(S)
<1> DEFINE T == {m \in Nat : \E x \in S : m = n - x}
           R == OpToRel(<, Nat)
<1>1. T \subseteq Nat /\ T # {}
  <2>1. PICK x \in S : x <= n
    OBVIOUS
  <2>2. n - x \in T
    BY <2>1
  <2> QED
    BY <2>2
<1>2. \E t \in T : \A y \in T : ~(<<y, t>> \in R)
  <2> HIDE DEF T
  <2> QED
    BY <1>1, NatLessThanWellFounded, WFMin
<1>3. PICK t \in T : \A y \in T : ~(<<y, t>> \in R)
  BY <1>2
<1>4. \A y \in T : ~(y < t)
  <2>1. \A y \in Nat : y < t => <<y, t>> \in R
    BY DEF OpToRel
  <2> QED
    BY <1>3, <2>1
<1>5. PICK x \in S : t = n - x
  OBVIOUS
<1>6. \A y \in S : x >= y
  <2> SUFFICES ASSUME NEW y \in S PROVE x >= y
    OBVIOUS
  <2>1. n - y \in T
    OBVIOUS
  <2> QED
    BY <1>4, <1>5, <2>1
<1> QED
  BY <1>6 DEF Max

LEMMA NewIdFacts ==
    ASSUME Typed, IdsInv
    PROVE  /\ LoadNextBatchId \in Nat \ {0}
           /\ \A u \in Users : \A i \in 1..Len(mutation_queue[u]) :
                 mutation_queue[u][i].id < LoadNextBatchId
<1> DEFINE ids == {0} \union {b.id : b \in UNION {ToSet(mutation_queue[u]) : u \in Users}}
<1>1. PICK n \in Nat : \A u \in Users : \A i \in 1..Len(mutation_queue[u]) :
                          mutation_queue[u][i].id <= n
  BY DEF IdsInv
<1>2. \A u \in Users : /\ mutation_queue[u] \in Seq(Batch)
                       /\ ToSet(mutation_queue[u]) = {mutation_queue[u][i] : i \in 1..Len(mutation_queue[u])}
  BY DEF Typed, ToSet
<1>3. \A b \in UNION {ToSet(mutation_queue[u]) : u \in Users} : b.id \in Nat /\ b.id <= n
  <2> SUFFICES ASSUME NEW u \in Users, NEW b \in ToSet(mutation_queue[u])
               PROVE  b.id \in Nat /\ b.id <= n
    OBVIOUS
  <2>1. PICK i \in 1..Len(mutation_queue[u]) : b = mutation_queue[u][i]
    BY <1>2
  <2>2. b \in Batch
    BY <1>2, <2>1
  <2> QED
    BY <1>1, <2>1, <2>2 DEF Batch
<1>4. ids \in SUBSET Nat /\ ids # {} /\ \A x \in ids : x <= n
  BY <1>3
<1>5. \A u \in Users : \A i \in 1..Len(mutation_queue[u]) : mutation_queue[u][i].id \in ids
  BY <1>2
<1>7. LoadNextBatchId = Max(ids) + 1
  BY Zenon DEF LoadNextBatchId
<1> HIDE DEF ids
<1>6. Max(ids) \in ids /\ \A y \in ids : y <= Max(ids)
  BY <1>4, LargestFacts
<1> DEFINE max == Max(ids)
<1>8. max \in Nat
  BY <1>4, <1>6
<1>9. \A u \in Users : \A i \in 1..Len(mutation_queue[u]) :
        mutation_queue[u][i].id \in Nat /\ mutation_queue[u][i].id <= max
  BY <1>4, <1>5, <1>6
<1>10. LoadNextBatchId = max + 1
  BY <1>7
<1> HIDE DEF max
<1> QED
  BY <1>8, <1>9, <1>10

----------------------------------------------------------------------------
(* Filling the pipeline.                                                   *)

Ascending(queue) == \A i, j \in 1..Len(queue) : i < j => queue[i].id < queue[j].id

LEMMA MinFacts ==
    ASSUME NEW a \in Nat, NEW b \in Nat
    PROVE  Min({a, b}) = IF a <= b THEN a ELSE b
  BY DEF Min

\* The pipeline takes the next batches of the queue.
LEMMA NextBatchesFacts ==
    ASSUME WritesAssumption, NEW pipeline, NEW queue \in Seq(Batch),
           PipelineSound(pipeline, queue), Ascending(queue)
    PROVE  LET more == NextBatches(pipeline, queue)
           IN  /\ more \in Seq(Batch)
               /\ Len(pipeline) + Len(more) <= Len(queue)
               /\ Len(pipeline) + Len(more) <= MaxPendingWrites
               /\ \A i \in 1..Len(more) : more[i] = queue[Len(pipeline) + i]
<1> DEFINE n == Len(queue)
           p == Len(pipeline)
           taken == {i \in DOMAIN queue : pipeline # <<>> /\ queue[i].id <= Last(pipeline).id}
           end == Min({n, p + (MaxPendingWrites - p)})
<1>1. /\ n \in Nat /\ DOMAIN queue = 1..n /\ p \in 0..n /\ p <= MaxPendingWrites
      /\ MaxPendingWrites \in Nat /\ pipeline \in Seq(Batch) /\ (pipeline = <<>> <=> p = 0)
  BY DEF PipelineSound, WritesAssumption
<1>2. \A i \in 1..n : queue[i].id \in Nat
  <2>1. \A i \in 1..n : queue[i] \in Batch
    BY <1>1
  <2> QED
    BY <2>1 DEF Batch
<1>3. p > 0 => Last(pipeline) = queue[p]
  BY <1>1 DEF Last, PipelineSound
<1>4. taken \in SUBSET (1..n) /\ \A i \in 1..n : i \in taken <=> i <= p
  <2>1. taken \in SUBSET (1..n)
    BY <1>1
  <2>2. ASSUME NEW i \in 1..n
        PROVE  i \in taken <=> i <= p
    <3>1. CASE p = 0
      BY <1>1, <3>1
    <3>2. CASE p > 0
      <4>1. p \in 1..n /\ pipeline # <<>> /\ i \in DOMAIN queue
        BY <1>1, <3>2
      <4>2. i \in taken <=> queue[i].id <= queue[p].id
        BY <1>3, <3>2, <4>1
      <4>3. CASE i <= p
        <5>1. i < p => queue[i].id < queue[p].id
          BY <4>1 DEF Ascending
        <5> QED
          BY <1>2, <4>1, <4>2, <4>3, <5>1
      <4>4. CASE p < i
        <5>1. queue[p].id < queue[i].id
          BY <4>1, <4>4 DEF Ascending
        <5> QED
          BY <1>2, <4>1, <4>2, <4>4, <5>1
      <4> QED
        BY <1>1, <4>3, <4>4
    <3> QED
      BY <1>1, <3>1, <3>2
  <2> QED
    BY <2>1, <2>2
<1>5. Cardinality(taken) = p
  <2> HIDE DEF taken, n, p
  <2> QED
    BY <1>1, <1>4, CountPrefix
<1>6. end = IF n <= MaxPendingWrites THEN n ELSE MaxPendingWrites
  <2>1. p + (MaxPendingWrites - p) = MaxPendingWrites
    BY <1>1
  <2> QED
    BY <1>1, <2>1, MinFacts
<1>7. NextBatches(pipeline, queue) = SubSeq(queue, p + 1, end)
  <2> HIDE DEF taken
  <2>1. NextBatches(pipeline, queue)
        = SubSeq(queue, Cardinality(taken) + 1, Min({n, Cardinality(taken) + (MaxPendingWrites - p)}))
    BY DEF NextBatches, taken
  <2> QED
    BY <1>5, <2>1
<1> DEFINE more == SubSeq(queue, p + 1, end)
<1>8. p <= end /\ end <= n /\ end \in Nat
  BY <1>1, <1>6
<1> HIDE DEF n, p, taken, end
<1>9. /\ more \in Seq(Batch) /\ Len(more) = end - p
      /\ \A i \in 1..Len(more) : more[i] = queue[p + i]
  <2>1. /\ more \in Seq(Batch)
        /\ Len(more) = IF p + 1 <= end THEN end - (p + 1) + 1 ELSE 0
    BY <1>1, <1>8, SubSeqProperties DEF n
  <2>2. Len(more) = end - p
    BY <1>1, <1>8, <2>1
  <2>3. \A i \in 1..Len(more) : more[i] = queue[(p + 1) + i - 1]
    BY <1>1, <1>8, SubSeqProperties DEF n
  <2>4. \A i \in 1..Len(more) : (p + 1) + i - 1 = p + i
    BY <1>1
  <2> QED
    BY <2>1, <2>2, <2>3, <2>4
<1>10. p + Len(more) <= n /\ p + Len(more) <= MaxPendingWrites
  BY <1>1, <1>6, <1>8, <1>9
<1> QED
  BY <1>7, <1>9, <1>10 DEF p, n

----------------------------------------------------------------------------
(* The stream.                                                             *)

\* The results among the responses of s.
ResultsOf(s) == Cardinality({i \in DOMAIN s.responses : s.responses[i] = "result"})

LEMMA StreamFacts ==
    ASSUME NEW s \in Stream
    PROVE  /\ s.state \in {"Initial", "Starting", "Open", "Error", "Backoff"}
           /\ s.handshake_complete \in BOOLEAN /\ s.idle \in BOOLEAN
           /\ s.asked \in SUBSET BOOLEAN
           /\ s.requests \in Seq(Message) /\ s.responses \in Seq(Response)
           /\ s.user \in Users \union {NoUser}
  BY DEF Stream

LEMMA NoResults ==
    ASSUME NEW s, \A i \in DOMAIN s.responses : s.responses[i] # "result"
    PROVE  ResultsOf(s) = 0
<1>1. {i \in DOMAIN s.responses : s.responses[i] = "result"} = {}
  OBVIOUS
<1> QED
  BY <1>1, FS_EmptySet DEF ResultsOf

LEMMA CountResults ==
    ASSUME NEW pipeline, NEW s \in Stream, NEW k \in Nat, Answered(pipeline, s, k)
    PROVE  ResultsOf(s) = k
<1> DEFINE n == Len(s.responses)
           S == {i \in DOMAIN s.responses : s.responses[i] = "result"}
<1>1. n \in Nat /\ DOMAIN s.responses = 1..n
  BY StreamFacts
<1>2. n = k \/ (n = k + 1 /\ s.responses[k + 1] = "permanent_error")
  BY DEF Answered
<1>3. \A i \in 1..k : s.responses[i] = "result"
  BY DEF Answered
<1>4. S \in SUBSET (1..n) /\ \A i \in 1..n : i \in S <=> s.responses[i] = "result"
  BY <1>1
<1> HIDE DEF S, n
<1>7. k \in 0..n
  BY <1>1, <1>2
<1>5. \A i \in 1..n : i \in S <=> i <= k
  <2> SUFFICES ASSUME NEW i \in 1..n PROVE s.responses[i] = "result" <=> i <= k
    BY <1>4
  <2>1. CASE i <= k
    BY <1>3, <2>1
  <2>2. CASE i > k
    <3>1. i = k + 1 /\ s.responses[k + 1] = "permanent_error"
      BY <1>1, <1>2, <2>2
    <3> QED
      BY <2>2, <3>1
  <2> QED
    BY <1>1, <2>1, <2>2
<1>6. Cardinality(S) = k
  BY <1>1, <1>4, <1>5, <1>7, CountPrefix
<1> QED
  BY <1>6 DEF ResultsOf, S

LEMMA SendFacts ==
    ASSUME NEW s \in Stream, NEW bs \in Seq(Batch)
    PROVE  /\ Send(s, bs) \in Stream
           /\ Send(s, bs).state = s.state /\ Send(s, bs).user = s.user
           /\ Send(s, bs).handshake_complete = s.handshake_complete
           /\ Send(s, bs).asked = s.asked /\ Send(s, bs).responses = s.responses
           /\ ~(IsOpen(s) /\ s.handshake_complete) => Send(s, bs) = s
           /\ IsOpen(s) /\ s.handshake_complete =>
                 /\ Send(s, bs).requests = s.requests \o bs
                 /\ Send(s, bs).idle => s.idle /\ bs = <<>>
<1>1. s.requests \in Seq(Message) /\ bs \in Seq(Message)
  BY StreamFacts DEF Message
<1>2. s.requests \o bs \in Seq(Message) /\ (bs = <<>> => s.requests \o bs = s.requests)
  BY <1>1
<1> DEFINE reqs == s.requests \o bs
<1>3. Send(s, bs) = IF bs # <<>> /\ IsOpen(s) /\ s.handshake_complete
                    THEN [s EXCEPT !.requests = reqs, !.idle = FALSE] ELSE s
  BY DEF Send
<1> HIDE DEF reqs
<1>4. reqs \in Seq(Message) /\ (bs = <<>> => reqs = s.requests)
  BY <1>2 DEF reqs
<1>5. CASE bs # <<>> /\ IsOpen(s) /\ s.handshake_complete
  <2>1. Send(s, bs) = [s EXCEPT !.requests = reqs, !.idle = FALSE]
    BY <1>3, <1>5
  <2>2. /\ Send(s, bs) \in Stream /\ Send(s, bs).requests = reqs /\ Send(s, bs).idle = FALSE
        /\ Send(s, bs).state = s.state /\ Send(s, bs).user = s.user
        /\ Send(s, bs).handshake_complete = s.handshake_complete
        /\ Send(s, bs).asked = s.asked /\ Send(s, bs).responses = s.responses
    BY <1>4, <2>1 DEF Stream
  <2> QED
    BY <1>5, <2>2 DEF reqs
<1>6. CASE ~(bs # <<>> /\ IsOpen(s) /\ s.handshake_complete)
  <2>1. Send(s, bs) = s
    BY <1>3, <1>6
  <2>2. IsOpen(s) /\ s.handshake_complete => bs = <<>>
    BY <1>6
  <2> QED
    BY <1>4, <2>1, <2>2, StreamFacts DEF reqs
<1> QED
  BY <1>5, <1>6

LEMMA MarkIdleFacts ==
    ASSUME NEW s \in Stream
    PROVE  /\ MarkIdle(s) \in Stream
           /\ MarkIdle(s).state = s.state /\ MarkIdle(s).user = s.user
           /\ MarkIdle(s).handshake_complete = s.handshake_complete
           /\ MarkIdle(s).asked = s.asked /\ MarkIdle(s).responses = s.responses
           /\ MarkIdle(s).requests = s.requests
           /\ ~IsOpen(s) => MarkIdle(s) = s
  BY DEF MarkIdle, Stream

\* t is s, or s starting: what its tokens depend on.
Starts(s, t) ==
    \/ t.state = s.state /\ t.asked = s.asked
    \/ ~IsStarted(s) /\ t.state = "Backoff" /\ t.asked = s.asked
    \/ ~IsStarted(s) /\ t.state = "Starting" /\ t.asked = s.asked \union {TRUE}

LEMMA StartFacts ==
    ASSUME NEW s \in Stream
    PROVE  /\ Start(s) \in Stream
           /\ s.state = "Error" => Start(s).state = "Backoff" /\ Start(s).asked = s.asked
           /\ s.state # "Error" =>
                 Start(s).state = "Starting" /\ Start(s).asked = s.asked \union {TRUE}
           /\ Start(s).handshake_complete = s.handshake_complete /\ Start(s).idle = s.idle
           /\ Start(s).requests = s.requests /\ Start(s).responses = s.responses
  BY DEF Start, Ask, Stream

LEMMA StartIfNeededFacts ==
    ASSUME NEW pipeline, NEW s \in Stream, NEW u, StreamSound(pipeline, s, u)
    PROVE  LET t == StartIfNeeded(pipeline, s)
           IN  /\ t \in Stream
               /\ StreamSound(pipeline, t, u)
               /\ pipeline # <<>> => IsStarted(t)
               /\ Starts(s, t)
               /\ t.responses = s.responses
<1>1. CASE pipeline # <<>> /\ ~IsStarted(s)
  <2>1. StartIfNeeded(pipeline, s) = Start(s)
    BY <1>1 DEF StartIfNeeded
  <2>2. s.state \in {"Initial", "Error"} /\ ~IsOpen(s)
    BY <1>1, StreamFacts DEF IsStarted, IsOpen
  <2> DEFINE t == Start(s)
  <2>3. /\ t \in Stream /\ t.responses = s.responses /\ t.requests = s.requests
        /\ t.handshake_complete = s.handshake_complete /\ t.idle = s.idle
        /\ \/ t.state = "Backoff" /\ t.asked = s.asked
           \/ t.state = "Starting" /\ t.asked = s.asked \union {TRUE}
    BY <2>2, StartFacts
  <2> HIDE DEF t
  <2>4. StreamSound(pipeline, t, u)
    BY <1>1, <2>2, <2>3 DEF StreamSound, IsOpen
  <2>5. IsStarted(t) /\ Starts(s, t)
    BY <1>1, <2>3 DEF IsStarted, Starts
  <2> QED
    BY <2>1, <2>3, <2>4, <2>5 DEF t
<1>2. CASE ~(pipeline # <<>> /\ ~IsStarted(s))
  <2>1. StartIfNeeded(pipeline, s) = s
    BY <1>2 DEF StartIfNeeded
  <2> QED
    BY <1>2, <2>1 DEF Starts
<1> QED
  BY <1>1, <1>2

\* More batches in the pipeline: those that follow are sent.
LEMMA AnsweredGrows ==
    ASSUME NEW pipeline \in Seq(Batch), NEW more \in Seq(Batch), NEW s \in Stream,
           NEW t \in Stream, NEW k \in 0..Len(pipeline), Answered(pipeline, s, k),
           t.responses = s.responses, t.requests = s.requests \o more
    PROVE  k \in 0..Len(pipeline \o more) /\ Answered(pipeline \o more, t, k)
<1> DEFINE all == pipeline \o more
           p == Len(pipeline)
           m == Len(more)
           reqs == s.requests
<1>1. reqs \in Seq(Message) /\ Len(reqs) \in Nat
  BY StreamFacts
<1>2. p \in Nat /\ m \in Nat /\ Len(all) = p + m /\ k \in 0..p
  OBVIOUS
<1>8. /\ \A i \in 1..p : all[i] = pipeline[i]
      /\ \A i \in 1..m : all[p + i] = more[i]
  OBVIOUS
<1>3. /\ Len(t.requests) = Len(reqs) + m
      /\ \A i \in 1..Len(reqs) : t.requests[i] = reqs[i]
      /\ \A i \in 1..m : t.requests[Len(reqs) + i] = more[i]
  BY <1>1
<1> HIDE DEF all, p, m, reqs
<1>4. /\ \A i \in 1..k : t.responses[i] = "result"
      /\ \/ /\ Len(t.responses) = k
            /\ Len(reqs) = p - k
            /\ \A i \in 1..Len(reqs) : reqs[i] = pipeline[k + i]
         \/ /\ Len(t.responses) = k + 1
            /\ t.responses[k + 1] = "permanent_error"
            /\ k < p /\ pipeline[k + 1].write \in Refused
  BY DEF Answered, p, reqs
<1>5. k \in 0..Len(all)
  BY <1>2
<1>6. CASE /\ Len(t.responses) = k
           /\ Len(reqs) = p - k
           /\ \A i \in 1..Len(reqs) : reqs[i] = pipeline[k + i]
  <2>1. Len(t.requests) = Len(all) - k
    BY <1>2, <1>3, <1>6
  <2>2. \A i \in 1..Len(t.requests) : t.requests[i] = all[k + i]
    <3> SUFFICES ASSUME NEW i \in 1..Len(t.requests) PROVE t.requests[i] = all[k + i]
      OBVIOUS
    <3>1. CASE i <= Len(reqs)
      <4>1. i \in 1..Len(reqs) /\ k + i \in 1..p
        BY <1>1, <1>2, <1>6, <3>1
      <4> QED
        BY <1>3, <1>6, <1>8, <4>1
    <3>2. CASE i > Len(reqs)
      <4> DEFINE j == i - Len(reqs)
      <4>1. j \in 1..m /\ i = Len(reqs) + j /\ k + i = p + j
        BY <1>1, <1>2, <1>3, <1>6, <3>2
      <4> HIDE DEF j
      <4> QED
        BY <1>3, <1>8, <4>1
    <3>3. i \in Nat
      BY <1>1, <1>2, <2>1
    <3> QED
      BY <1>1, <3>1, <3>2, <3>3
  <2> QED
    BY <1>4, <1>5, <1>6, <2>1, <2>2 DEF Answered, all
<1>7. CASE /\ Len(t.responses) = k + 1
           /\ t.responses[k + 1] = "permanent_error"
           /\ k < p /\ pipeline[k + 1].write \in Refused
  <2>1. k < Len(all) /\ all[k + 1] = pipeline[k + 1]
    BY <1>2, <1>7, <1>8
  <2> QED
    BY <1>4, <1>5, <1>7, <2>1 DEF Answered, all
<1> QED
  BY <1>4, <1>6, <1>7, <1>5 DEF all

\* What the stream's state is worth when more batches join the pipeline.
LEMMA SentSound ==
    ASSUME NEW pipeline \in Seq(Batch), NEW more \in Seq(Batch), NEW s \in Stream, NEW u,
           StreamSound(pipeline, s, u),
           \A i \in 1..Len(more) : more[i].write[1] = u
    PROVE  LET all == pipeline \o more
               sent == IF all = <<>> THEN MarkIdle(s) ELSE Send(s, more)
           IN  sent \in Stream /\ StreamSound(all, sent, u)
<1> DEFINE all == pipeline \o more
           sent == IF all = <<>> THEN MarkIdle(s) ELSE Send(s, more)
<1>1. all \in Seq(Batch) /\ (pipeline # <<>> => all # <<>>) /\ (more # <<>> => all # <<>>)
  OBVIOUS
<1>2. /\ sent \in Stream
      /\ sent.state = s.state /\ sent.user = s.user
      /\ sent.handshake_complete = s.handshake_complete
      /\ sent.asked = s.asked /\ sent.responses = s.responses
      /\ ~IsOpen(s) => sent = s
  BY SendFacts, MarkIdleFacts
<1>3. all = <<>> => /\ pipeline = <<>> /\ more = <<>>
                    /\ sent.requests = s.requests
  BY <1>1, MarkIdleFacts
<1>4. all # <<>> => /\ sent = Send(s, more)
  OBVIOUS
<1> HIDE DEF sent, all
<1>5. ASSUME ~IsOpen(s) PROVE StreamSound(all, sent, u)
  BY <1>1, <1>2, <1>5 DEF StreamSound, IsOpen
<1>6. ASSUME IsOpen(s), ~s.handshake_complete PROVE StreamSound(all, sent, u)
  <2>1. /\ s.user = u /\ pipeline # <<>> /\ ~s.idle
        /\ \/ s.requests = <<Handshake>> /\ s.responses = <<>>
           \/ s.requests = <<>> /\ s.responses = <<"handshake">>
    BY <1>6 DEF StreamSound, OpenSound
  <2>2. sent = s /\ all # <<>>
    BY <1>1, <1>4, <1>6, <2>1, SendFacts
  <2>3. OpenSound(all, s, u)
    BY <1>6, <2>1, <2>2 DEF OpenSound
  <2> QED
    BY <1>2, <1>6, <2>2, <2>3 DEF StreamSound, IsOpen
<1>7. ASSUME IsOpen(s), s.handshake_complete PROVE StreamSound(all, sent, u)
  <2>1. /\ s.user = u /\ (s.idle => pipeline = <<>>)
        /\ \A i \in 1..Len(s.requests) : s.requests[i] \in Batch /\ s.requests[i].write[1] = u
    BY <1>7 DEF StreamSound, OpenSound
  <2>2. PICK k \in 0..Len(pipeline) : Answered(pipeline, s, k)
    BY <1>7 DEF StreamSound, OpenSound
  <2>3. sent.requests = s.requests \o more
    <3>1. CASE all = <<>>
      <4>1. more = <<>> /\ s.requests \in Seq(Message)
        BY <1>3, <3>1, StreamFacts
      <4> QED
        BY <1>3, <3>1, <4>1
    <3>2. CASE all # <<>>
      BY <1>4, <1>7, <3>2, SendFacts
    <3> QED
      BY <3>1, <3>2
  <2>4. sent.idle => all = <<>>
    <3>1. CASE all # <<>>
      <4>1. sent.idle => s.idle /\ more = <<>>
        BY <1>4, <1>7, <3>1, SendFacts
      <4>2. pipeline = <<>> /\ more = <<>> => all = <<>>
        BY DEF all
      <4> QED
        BY <2>1, <4>1, <4>2
    <3> QED
      BY <3>1
  <2>5. \A i \in 1..Len(sent.requests) : sent.requests[i] \in Batch /\ sent.requests[i].write[1] = u
    <3> DEFINE reqs == s.requests
    <3>1. reqs \in Seq(Message) /\ Len(reqs) \in Nat /\ Len(more) \in Nat
      BY StreamFacts
    <3>2. /\ Len(sent.requests) = Len(reqs) + Len(more)
          /\ \A i \in 1..Len(reqs) : sent.requests[i] = reqs[i]
          /\ \A i \in 1..Len(more) : sent.requests[Len(reqs) + i] = more[i]
      BY <2>3, <3>1
    <3>3. /\ \A i \in 1..Len(more) : more[i] \in Batch /\ more[i].write[1] = u
          /\ \A i \in 1..Len(reqs) : reqs[i] \in Batch /\ reqs[i].write[1] = u
      BY <2>1
    <3> HIDE DEF reqs
    <3> SUFFICES ASSUME NEW i \in 1..Len(sent.requests)
                 PROVE  sent.requests[i] \in Batch /\ sent.requests[i].write[1] = u
      OBVIOUS
    <3>4. CASE i <= Len(reqs)
      <4>1. i \in 1..Len(reqs)
        BY <3>1, <3>4
      <4> QED
        BY <3>2, <3>3, <4>1
    <3>5. CASE i > Len(reqs)
      <4> DEFINE j == i - Len(reqs)
      <4>1. j \in 1..Len(more) /\ i = Len(reqs) + j
        BY <3>1, <3>2, <3>5
      <4> HIDE DEF j
      <4> QED
        BY <3>2, <3>3, <4>1
    <3>6. i \in Nat
      BY <3>1, <3>2
    <3> QED
      BY <3>1, <3>4, <3>5, <3>6
  <2>6. k \in 0..Len(all) /\ Answered(all, sent, k)
    BY <1>2, <2>2, <2>3, AnsweredGrows DEF all
  <2>7. OpenSound(all, sent, u)
    BY <1>2, <1>7, <2>1, <2>4, <2>5, <2>6 DEF OpenSound
  <2> QED
    BY <1>2, <1>7, <2>7 DEF StreamSound, IsOpen
<1>8. sent \in Stream /\ StreamSound(all, sent, u)
  BY <1>2, <1>5, <1>6, <1>7, StreamFacts
<1> QED
  BY <1>8 DEF sent, all

LEMMA FilledFacts ==
    ASSUME WritesAssumption, NEW pipeline, NEW queue \in Seq(Batch), NEW s \in Stream, NEW u,
           PipelineSound(pipeline, queue), Ascending(queue),
           \A i \in 1..Len(queue) : queue[i].write[1] = u,
           StreamSound(pipeline, s, u)
    PROVE  LET r == Filled(pipeline, s, queue)
           IN  /\ PipelineSound(r.pipeline, queue)
               /\ r.stream \in Stream
               /\ StreamSound(r.pipeline, r.stream, u)
               /\ r.pipeline # <<>> => IsStarted(r.stream)
               /\ Starts(s, r.stream)
               /\ r.stream.responses = s.responses
<1> DEFINE more == NextBatches(pipeline, queue)
           all == pipeline \o more
           sent == IF all = <<>> THEN MarkIdle(s) ELSE Send(s, more)
           r == Filled(pipeline, s, queue)
<1>1. pipeline \in Seq(Batch) /\ Len(pipeline) \in Nat /\ Len(queue) \in Nat
  BY DEF PipelineSound
<1>2. /\ more \in Seq(Batch)
      /\ Len(pipeline) + Len(more) <= Len(queue)
      /\ Len(pipeline) + Len(more) <= MaxPendingWrites
      /\ \A i \in 1..Len(more) : more[i] = queue[Len(pipeline) + i]
  BY NextBatchesFacts
<1>3. r.pipeline = all /\ r.stream = StartIfNeeded(all, sent)
  BY DEF Filled
<1> HIDE DEF more, r
<1>4. \A i \in 1..Len(more) : more[i].write[1] = u
  <2> SUFFICES ASSUME NEW i \in 1..Len(more) PROVE more[i].write[1] = u
    OBVIOUS
  <2>1. Len(pipeline) + i \in 1..Len(queue)
    BY <1>1, <1>2
  <2> QED
    BY <1>2, <2>1
<1>5. sent \in Stream /\ StreamSound(all, sent, u)
  BY <1>1, <1>2, <1>4, SentSound
<1>6. sent.state = s.state /\ sent.asked = s.asked /\ sent.responses = s.responses
  BY <1>2, SendFacts, MarkIdleFacts
<1>7. PipelineSound(all, queue)
  <2>1. /\ all \in Seq(Batch) /\ Len(all) = Len(pipeline) + Len(more)
        /\ \A i \in 1..Len(pipeline) : all[i] = pipeline[i]
        /\ \A i \in 1..Len(more) : all[Len(pipeline) + i] = more[i]
    BY <1>1, <1>2
  <2> HIDE DEF all
  <2>2. \A i \in 1..Len(pipeline) : pipeline[i] = queue[i]
    BY DEF PipelineSound
  <2>3. \A i \in 1..Len(all) : all[i] = queue[i]
    <3> SUFFICES ASSUME NEW i \in 1..Len(all) PROVE all[i] = queue[i]
      OBVIOUS
    <3>1. CASE i <= Len(pipeline)
      <4>1. i \in 1..Len(pipeline)
        BY <1>1, <3>1
      <4> QED
        BY <2>1, <2>2, <4>1
    <3>2. CASE i > Len(pipeline)
      <4> DEFINE j == i - Len(pipeline)
      <4>1. j \in 1..Len(more) /\ i = Len(pipeline) + j
        BY <1>1, <1>2, <2>1, <3>2
      <4> HIDE DEF j
      <4> QED
        BY <1>2, <2>1, <4>1
    <3>3. i \in Nat
      BY <1>1, <1>2, <2>1
    <3> QED
      BY <1>1, <3>1, <3>2, <3>3
  <2> QED
    BY <1>2, <2>1, <2>3 DEF PipelineSound
<1> HIDE DEF all, sent
<1>8. LET t == StartIfNeeded(all, sent)
      IN  /\ t \in Stream /\ StreamSound(all, t, u) /\ (all # <<>> => IsStarted(t))
          /\ Starts(sent, t) /\ t.responses = sent.responses
  BY <1>5, StartIfNeededFacts
<1>9. Starts(s, StartIfNeeded(all, sent))
  BY <1>6, <1>8 DEF Starts, IsStarted
<1> QED
  BY <1>3, <1>6, <1>7, <1>8, <1>9 DEF r

----------------------------------------------------------------------------
(* Tokens.                                                                 *)

LEMMA StartsTokens ==
    ASSUME NEW tasks, NEW s \in Stream, NEW t, TokensSound(tasks, s), Starts(s, t)
    PROVE  TokensSound(tasks, t)
<1>1. ~IsStarted(s) => s.state # "Starting" /\ s.state # "Backoff"
  BY DEF IsStarted
<1>2. CASE t.state = s.state /\ t.asked = s.asked
  BY <1>2 DEF TokensSound
<1>3. CASE ~IsStarted(s) /\ t.state = "Backoff" /\ t.asked = s.asked
  BY <1>1, <1>3 DEF TokensSound
<1>4. CASE ~IsStarted(s) /\ t.state = "Starting" /\ t.asked = s.asked \union {TRUE}
  BY <1>1, <1>4 DEF TokensSound
<1> QED
  BY <1>2, <1>3, <1>4 DEF Starts

LEMMA OutdatedTokens ==
    ASSUME NEW tasks \in Seq(Task), NEW s, s.state # "Starting", TRUE \notin s.asked
    PROVE  TokensSound(Outdated(tasks), s)
<1>1. Live(Outdated(tasks)) = {}
  BY OutdatedFacts DEF Live
<1> QED
  BY <1>1 DEF TokensSound

LEMMA NoTokens ==
    ASSUME NEW s, s.state # "Starting", TRUE \notin s.asked
    PROVE  TokensSound(<<>>, s)
<1>1. Live(<<>>) = {}
  BY DEF Live
<1> QED
  BY <1>1 DEF TokensSound

\* The places of the live tokens when a task joins the queue, and leaves it.
LEMMA LiveAppend ==
    ASSUME NEW tasks \in Seq(Task), NEW t
    PROVE  \A i : i \in Live(Append(tasks, t))
                  <=> \/ i \in Live(tasks)
                      \/ i = Len(tasks) + 1 /\ t.kind = "Token" /\ t.live
<1> DEFINE n == Len(tasks)
           more == Append(tasks, t)
<1>1. n \in Nat /\ Len(more) = n + 1 /\ more[n + 1] = t
      /\ \A i \in 1..n : more[i] = tasks[i]
  OBVIOUS
<1> HIDE DEF n, more
<1>2. \A i : i \in 1..(n + 1) <=> (i \in 1..n \/ i = n + 1)
  BY <1>1
<1>3. ~(n + 1 \in 1..n)
  BY <1>1
<1>4. \A i : i \in Live(more) <=> (i \in Live(tasks) \/ (i = n + 1 /\ t.kind = "Token" /\ t.live))
  BY <1>1, <1>2, <1>3 DEF Live, n
<1> QED
  BY <1>4 DEF n, more

LEMMA LiveTail ==
    ASSUME NEW tasks \in Seq(Task), tasks # <<>>
    PROVE  /\ \A i \in Live(Tail(tasks)) : i + 1 \in Live(tasks) /\ i \in Nat \ {0}
           /\ \A i \in Live(tasks) : i # 1 => i - 1 \in Live(Tail(tasks))
           /\ 1 \in Live(tasks) <=> (Head(tasks).kind = "Token" /\ Head(tasks).live)
           /\ Live(tasks) \subseteq Nat
<1> DEFINE n == Len(tasks)
           rest == Tail(tasks)
<1>1. n \in Nat \ {0} /\ Len(rest) = n - 1 /\ Head(tasks) = tasks[1]
      /\ \A i \in 1..(n - 1) : rest[i] = tasks[i + 1]
  OBVIOUS
<1> HIDE DEF n, rest
<1>2. \A i \in 1..(n - 1) : i + 1 \in 1..n /\ i \in Nat \ {0}
  BY <1>1
<1>3. \A i \in 1..n : i # 1 => i - 1 \in 1..(n - 1) /\ (i - 1) + 1 = i
  BY <1>1
<1>4. \A i \in Live(rest) : i + 1 \in Live(tasks) /\ i \in Nat \ {0}
  BY <1>1, <1>2 DEF Live, n
<1>5. \A i \in Live(tasks) : i # 1 => i - 1 \in Live(rest)
  BY <1>1, <1>3 DEF Live, n
<1>6. 1 \in Live(tasks) <=> (Head(tasks).kind = "Token" /\ Head(tasks).live)
  BY <1>1 DEF Live, n
<1>7. Live(tasks) \subseteq Nat
  BY DEF Live
<1> QED
  BY <1>4, <1>5, <1>6, <1>7 DEF rest

LEMMA AppendTokens ==
    ASSUME NEW tasks \in Seq(Task), NEW t, NEW s, TokensSound(tasks, s),
           ~(t.kind = "Token" /\ t.live)
    PROVE  TokensSound(Append(tasks, t), s)
<1>1. Live(Append(tasks, t)) = Live(tasks)
  BY LiveAppend
<1> QED
  BY <1>1 DEF TokensSound

LEMMA TailTokens ==
    ASSUME NEW tasks \in Seq(Task), tasks # <<>>, NEW s, TokensSound(tasks, s),
           ~(Head(tasks).kind = "Token" /\ Head(tasks).live)
    PROVE  TokensSound(Tail(tasks), s)
<1>1. Live(tasks) = {} <=> Live(Tail(tasks)) = {}
  BY LiveTail
<1>2. \A i, j \in Live(Tail(tasks)) : i = j
  <2> SUFFICES ASSUME NEW i \in Live(Tail(tasks)), NEW j \in Live(Tail(tasks)) PROVE i = j
    OBVIOUS
  <2>1. i + 1 \in Live(tasks) /\ j + 1 \in Live(tasks) /\ i \in Nat /\ j \in Nat
    BY LiveTail
  <2>2. i + 1 = j + 1
    BY <2>1 DEF TokensSound
  <2> QED
    BY <2>1, <2>2
<1> QED
  BY <1>1, <1>2 DEF TokensSound

----------------------------------------------------------------------------
(* The stream's end, and a new one.                                        *)

LEMMA CloseFacts ==
    ASSUME NEW s \in Stream, NEW state \in {"Initial", "Error"}
    PROVE  LET t == Close(s, state)
           IN  /\ t \in Stream /\ t.state = state
               /\ t.requests = <<>> /\ t.responses = <<>>
               /\ ~t.handshake_complete /\ ~t.idle
               /\ TRUE \notin t.asked
<1> DEFINE asked == {FALSE : l \in s.asked}
           t == [NewStream EXCEPT !.state = state, !.asked = asked]
<1>1. asked \in SUBSET BOOLEAN /\ TRUE \notin asked
  OBVIOUS
<1>2. <<>> \in Seq(Message) /\ <<>> \in Seq(Response)
  OBVIOUS
<1>3. Close(s, state) = t
  BY Zenon DEF Close
<1> HIDE DEF asked
<1>4. /\ t.state = state /\ t.asked = asked /\ t.user = NoUser
      /\ t.handshake_complete = FALSE /\ t.idle = FALSE
      /\ t.requests = <<>> /\ t.responses = <<>>
  BY DEF NewStream
<1>5. t \in Stream
  BY <1>1, <1>2 DEF NewStream, Stream
<1> HIDE DEF t
<1> QED
  BY <1>1, <1>3, <1>4, <1>5

\* A stream that is not under way is sound for any pipeline and any user.
Ended(s) ==
    /\ s \in Stream /\ s.state \in {"Initial", "Error"}
    /\ s.requests = <<>> /\ s.responses = <<>>
    /\ ~s.handshake_complete /\ ~s.idle
    /\ TRUE \notin s.asked

LEMMA EndedFacts ==
    ASSUME NEW s, Ended(s)
    PROVE  /\ s \in Stream /\ s.state # "Starting" /\ TRUE \notin s.asked
           /\ ResultsOf(s) = 0
           /\ InhibitBackoff(s) \in Stream /\ Ended(InhibitBackoff(s))
           /\ \A pipeline, u : StreamSound(pipeline, s, u)
<1>1. ResultsOf(s) = 0
  <2>1. DOMAIN s.responses = {}
    BY DEF Ended
  <2> QED
    BY <2>1, NoResults
<1>2. InhibitBackoff(s) \in Stream /\ Ended(InhibitBackoff(s))
  BY DEF InhibitBackoff, Ended, Stream
<1>3. \A pipeline, u : StreamSound(pipeline, s, u)
  BY DEF Ended, StreamSound, IsOpen
<1> QED
  BY <1>1, <1>2, <1>3 DEF Ended

LEMMA NewStreamEnded == Ended(NewStream)
<1>1. <<>> \in Seq(Message) /\ <<>> \in Seq(Response)
  OBVIOUS
<1> QED
  BY <1>1 DEF Ended, NewStream, Stream

LEMMA StopFacts ==
    ASSUME NEW tasks, NEW pipeline, NEW u, NEW s \in Stream,
           StreamSound(pipeline, s, u), TokensSound(tasks, s)
    PROVE  Ended(Stop(s))
<1>1. CASE IsStarted(s)
  BY <1>1, CloseFacts DEF Stop, Ended
<1>2. CASE ~IsStarted(s)
  <2>1. s.state \in {"Initial", "Error"} /\ Stop(s) = s
    BY <1>2, StreamFacts DEF Stop, IsStarted
  <2> QED
    BY <2>1 DEF Ended, StreamSound, TokensSound, IsOpen
<1> QED
  BY <1>1, <1>2

\* The pipeline begins anew with a stream that has ended.
LEMMA RefilledFacts ==
    ASSUME WritesAssumption, NEW queue \in Seq(Batch), NEW s, Ended(s), NEW u,
           Ascending(queue), \A i \in 1..Len(queue) : queue[i].write[1] = u
    PROVE  LET r == Filled(<<>>, s, queue)
           IN  /\ PipelineSound(r.pipeline, queue)
               /\ r.stream \in Stream
               /\ StreamSound(r.pipeline, r.stream, u)
               /\ r.pipeline # <<>> => IsStarted(r.stream)
               /\ Starts(s, r.stream)
               /\ ResultsOf(r.stream) = 0
<1>1. PipelineSound(<<>>, queue)
  BY DEF PipelineSound, WritesAssumption
<1>2. s \in Stream /\ StreamSound(<<>>, s, u) /\ ResultsOf(s) = 0
  BY EndedFacts
<1> DEFINE r == Filled(<<>>, s, queue)
<1>3. /\ PipelineSound(r.pipeline, queue)
      /\ r.stream \in Stream
      /\ StreamSound(r.pipeline, r.stream, u)
      /\ r.pipeline # <<>> => IsStarted(r.stream)
      /\ Starts(s, r.stream)
      /\ r.stream.responses = s.responses
  BY <1>1, <1>2, FilledFacts
<1> HIDE DEF r
<1>4. ResultsOf(r.stream) = 0
  BY <1>2, <1>3 DEF ResultsOf
<1> QED
  BY <1>3, <1>4 DEF r

----------------------------------------------------------------------------
(* What a step does to the worker queue, and what has been stored by then. *)

LEMMA StoredFacts ==
    ASSUME Typed, TasksInv, NEW u \in Users
    PROVE  /\ Stored(u) = written[u] - Cardinality(Of(worker_queue, u))
           /\ Stored(u) \in Nat /\ Stored(u) <= written[u]
<1>1. Stored(u) = written[u] - Cardinality(Of(worker_queue, u))
  BY DEF Stored, Waiting, Of, IsOf
<1>2. written[u] \in Nat /\ worker_queue \in Seq(Task)
  BY DEF Typed
<1>3. Cardinality(Of(worker_queue, u)) \in Nat
  BY <1>2, OfFacts
<1>4. written[u] - Cardinality(Of(worker_queue, u)) + 1 \in 1..(written[u] + 1)
  BY DEF TasksInv, TasksNumbered
<1> QED
  BY <1>1, <1>2, <1>3, <1>4

\* A task joins the queue.
LEMMA TaskAppended ==
    ASSUME Typed, TasksInv, NEW t \in Task,
           worker_queue' = Append(worker_queue, t),
           t.kind = "Write" => t.write[1] = auth_user,
           t.kind = "Token" /\ t.live => t.user = auth_user,
           current_user_' = current_user_,
           auth_user' = IF t.kind = "CredentialChange" THEN t.user ELSE auth_user,
           \A u \in Users : /\ IsOf(t, u) => t.write[2] = written[u] + 1
                            /\ written'[u] = IF IsOf(t, u) THEN written[u] + 1 ELSE written[u]
    PROVE  /\ TasksInv' /\ worker_queue' \in Seq(Task)
           /\ \A u \in Users : Stored(u)' = Stored(u)
<1>1. worker_queue \in Seq(Task) /\ \A u \in Users : written[u] \in Nat
  BY DEF Typed
<1>2. worker_queue' \in Seq(Task)
  BY <1>1
<1>3. TasksOwned(worker_queue', current_user_', auth_user')
  <2>1. TasksOwned(worker_queue, current_user_, auth_user)
    BY DEF TasksInv
  <2> QED
    BY <1>1, <2>1, AppendOwned
<1>4. ASSUME NEW u \in Users
      PROVE  /\ TasksNumbered(worker_queue', u, written'[u])
             /\ written'[u] - Cardinality(Of(worker_queue', u))
                = written[u] - Cardinality(Of(worker_queue, u))
  <2>1. TasksNumbered(worker_queue, u, written[u])
    BY DEF TasksInv
  <2> QED
    BY <1>1, <2>1, AppendNumbered
<1>5. TasksInv'
  BY <1>3, <1>4 DEF TasksInv
<1>6. \A u \in Users : Stored(u)' = Stored(u)
  <2> SUFFICES ASSUME NEW u \in Users PROVE Stored(u)' = Stored(u)
    OBVIOUS
  <2>1. /\ Stored(u)' = written'[u] - Cardinality(Of(worker_queue', u))
        /\ Stored(u) = written[u] - Cardinality(Of(worker_queue, u))
    BY DEF Stored, Waiting, Of, IsOf
  <2> QED
    BY <1>4, <2>1
<1> QED
  BY <1>2, <1>5, <1>6

\* The first task runs; the stream may be closed meanwhile.
LEMMA TaskRun ==
    ASSUME Typed, TasksInv, worker_queue # <<>>,
           worker_queue' \in {Tail(worker_queue), Outdated(Tail(worker_queue))},
           auth_user' = auth_user, written' = written,
           current_user_' = IF Head(worker_queue).kind = "CredentialChange"
                            THEN Head(worker_queue).user ELSE current_user_
    PROVE  /\ TasksInv' /\ worker_queue' \in Seq(Task)
           /\ Head(worker_queue) \in Task
           /\ Head(worker_queue).kind = "Write" =>
                 /\ Head(worker_queue).write[1] = current_user_
                 /\ Head(worker_queue).write[2] = Stored(current_user_) + 1
           /\ Head(worker_queue).kind = "Token" /\ Head(worker_queue).live =>
                 Head(worker_queue).user = current_user_
           /\ \A u \in Users : Stored(u)' = IF IsOf(Head(worker_queue), u)
                                           THEN Stored(u) + 1 ELSE Stored(u)
<1> DEFINE t == Head(worker_queue)
           rest == Tail(worker_queue)
<1>1. /\ worker_queue \in Seq(Task) /\ \A u \in Users : written[u] \in Nat
      /\ current_user_ \in Users
  BY DEF Typed
<1>2. /\ rest \in Seq(Task) /\ t \in Task /\ t = worker_queue[1]
      /\ Len(worker_queue) \in Nat \ {0}
  BY <1>1
<1>3. worker_queue' \in Seq(Task)
  BY <1>2, OutdatedFacts
<1>4. TasksOwned(worker_queue', current_user_', auth_user')
  <2>1. TasksOwned(worker_queue, current_user_, auth_user)
    BY DEF TasksInv
  <2>2. TasksOwned(rest, current_user_', auth_user)
    BY <1>1, <2>1, TailOwned
  <2> QED
    BY <1>2, <2>2, OutdatedOwned
<1>5. ASSUME NEW u \in Users
      PROVE  /\ TasksNumbered(worker_queue', u, written'[u])
             /\ Cardinality(Of(worker_queue', u)) = IF IsOf(t, u)
                                                   THEN Cardinality(Of(worker_queue, u)) - 1
                                                   ELSE Cardinality(Of(worker_queue, u))
             /\ IsOf(t, u) => t.write[2] = written[u] - Cardinality(Of(worker_queue, u)) + 1
  <2>1. TasksNumbered(worker_queue, u, written[u])
    BY DEF TasksInv
  <2>2. /\ TasksNumbered(rest, u, written[u])
        /\ Cardinality(Of(rest, u)) = IF IsOf(t, u)
                                      THEN Cardinality(Of(worker_queue, u)) - 1
                                      ELSE Cardinality(Of(worker_queue, u))
        /\ IsOf(t, u) => t.write[2] = written[u] - Cardinality(Of(worker_queue, u)) + 1
    BY <1>1, <2>1, TailNumbered
  <2>3. /\ TasksNumbered(Outdated(rest), u, written[u])
        /\ Cardinality(Of(Outdated(rest), u)) = Cardinality(Of(rest, u))
    BY <1>1, <1>2, <2>2, OutdatedNumbered
  <2> HIDE DEF t, rest
  <2> QED
    BY <2>2, <2>3 DEF rest
<1>6. TasksInv'
  BY <1>4, <1>5 DEF TasksInv
<1>7. \A u \in Users : Stored(u)' = IF IsOf(t, u) THEN Stored(u) + 1 ELSE Stored(u)
  <2> SUFFICES ASSUME NEW u \in Users
               PROVE  Stored(u)' = IF IsOf(t, u) THEN Stored(u) + 1 ELSE Stored(u)
    OBVIOUS
  <2>1. Stored(u)' = written'[u] - Cardinality(Of(worker_queue', u))
    BY DEF Stored, Waiting, Of, IsOf
  <2>2. Stored(u) = written[u] - Cardinality(Of(worker_queue, u))
    BY StoredFacts
  <2>3. Cardinality(Of(worker_queue, u)) \in Nat /\ written[u] \in Nat
    BY <1>1, OfFacts
  <2> HIDE DEF t
  <2> QED
    BY <1>5, <2>1, <2>2, <2>3
<1>8. /\ t.kind = "Write" => t.write[1] = current_user_
      /\ t.kind = "Token" /\ t.live => t.user = current_user_
  <2>1. /\ t.kind = "Write" => SignedIn(worker_queue, current_user_, 1, t.write[1])
        /\ t.kind = "Token" /\ t.live => SignedIn(worker_queue, current_user_, 1, t.user)
    BY <1>2 DEF TasksInv, TasksOwned
  <2> QED
    BY <2>1, SignedInFirst
<1>9. t.kind = "Write" => t.write[2] = Stored(current_user_) + 1
  <2> SUFFICES ASSUME t.kind = "Write" PROVE t.write[2] = Stored(current_user_) + 1
    OBVIOUS
  <2>1. IsOf(t, current_user_)
    BY <1>8 DEF IsOf
  <2>2. Stored(current_user_) = written[current_user_] - Cardinality(Of(worker_queue, current_user_))
    BY <1>1, StoredFacts
  <2> HIDE DEF t
  <2> QED
    BY <1>1, <1>5, <2>1, <2>2
<1> QED
  BY <1>2, <1>3, <1>6, <1>7, <1>8, <1>9

\* No task runs; the stream may be closed.
LEMMA TasksStay ==
    ASSUME Typed, TasksInv,
           worker_queue' \in {worker_queue, Outdated(worker_queue)},
           auth_user' = auth_user, written' = written, current_user_' = current_user_
    PROVE  /\ TasksInv' /\ worker_queue' \in Seq(Task)
           /\ \A u \in Users : Stored(u)' = Stored(u)
<1>1. worker_queue \in Seq(Task) /\ \A u \in Users : written[u] \in Nat
  BY DEF Typed
<1>2. worker_queue' \in Seq(Task)
  BY <1>1, OutdatedFacts
<1>3. TasksOwned(worker_queue', current_user_', auth_user')
  BY <1>1, OutdatedOwned DEF TasksInv
<1>4. ASSUME NEW u \in Users
      PROVE  /\ TasksNumbered(worker_queue', u, written'[u])
             /\ Cardinality(Of(worker_queue', u)) = Cardinality(Of(worker_queue, u))
  BY <1>1, OutdatedNumbered DEF TasksInv
<1>5. TasksInv'
  BY <1>3, <1>4 DEF TasksInv
<1>6. \A u \in Users : Stored(u)' = Stored(u)
  <2> SUFFICES ASSUME NEW u \in Users PROVE Stored(u)' = Stored(u)
    OBVIOUS
  <2>1. /\ Stored(u)' = written'[u] - Cardinality(Of(worker_queue', u))
        /\ Stored(u) = written[u] - Cardinality(Of(worker_queue, u))
    BY DEF Stored, Waiting, Of, IsOf
  <2> QED
    BY <1>4, <2>1
<1> QED
  BY <1>2, <1>5, <1>6

\* The tasks are lost, and the writes among them.
LEMMA TasksLost ==
    ASSUME WritesAssumption, Typed, TasksInv, worker_queue' = <<>>,
           written' = [u \in Users |-> Stored(u)], current_user_' = auth_user'
    PROVE  /\ TasksInv' /\ worker_queue' \in Seq(Task)
           /\ \A u \in Users : Stored(u)' = Stored(u)
           /\ written' \in [Users -> Nat] /\ \A u \in Users : written'[u] <= MaxWrites[u]
<1>1. \A u \in Users : Stored(u) \in Nat /\ Stored(u) <= written[u]
  BY StoredFacts
<1>2. /\ written' \in [Users -> Nat] /\ \A u \in Users : written'[u] = Stored(u)
  BY <1>1
<1>3. \A u \in Users : written'[u] <= MaxWrites[u]
  <2> SUFFICES ASSUME NEW u \in Users PROVE written'[u] <= MaxWrites[u]
    OBVIOUS
  <2>1. written[u] \in Nat /\ written[u] <= MaxWrites[u] /\ written'[u] \in Nat
    BY <1>2 DEF Typed
  <2>2. MaxWrites[u] \in Nat
    BY DEF WritesAssumption
  <2> QED
    BY <1>1, <1>2, <2>1, <2>2
<1>4. TasksOwned(worker_queue', current_user_', auth_user')
  BY NoTasks
<1>5. \A u \in Users : /\ TasksNumbered(worker_queue', u, written'[u])
                       /\ Cardinality(Of(worker_queue', u)) = 0
  BY <1>2, NoneNumbered
<1>6. TasksInv'
  BY <1>4, <1>5 DEF TasksInv
<1>7. \A u \in Users : Stored(u)' = Stored(u)
  <2> SUFFICES ASSUME NEW u \in Users PROVE Stored(u)' = Stored(u)
    OBVIOUS
  <2>1. Stored(u)' = written'[u] - Cardinality(Of(worker_queue', u))
    BY DEF Stored, Waiting, Of, IsOf
  <2> QED
    BY <1>1, <1>2, <1>5, <2>1
<1> QED
  BY <1>2, <1>3, <1>6, <1>7

----------------------------------------------------------------------------
(* What a step does to the disk.                                           *)

LEMMA DiskFacts ==
    ASSUME Typed, DiskInv, NEW u \in Users
    PROVE  /\ mutation_queue[u] \in Seq(Batch) /\ Len(mutation_queue[u]) \in Nat
           /\ \A i \in 1..Len(mutation_queue[u]) : mutation_queue[u][i] \in Batch
           /\ Settled(u) \in Nat
           /\ Stored(u) = Settled(u) + Len(mutation_queue[u])
           /\ Ascending(mutation_queue[u])
           /\ \A i \in 1..Len(mutation_queue[u]) :
                 /\ mutation_queue[u][i].write = <<u, Settled(u) + i>>
                 /\ mutation_queue[u][i].write[1] = u /\ mutation_queue[u][i].id > 0
<1>1. /\ mutation_queue[u] \in Seq(Batch) /\ Len(mutation_queue[u]) \in Nat
      /\ \A i \in 1..Len(mutation_queue[u]) : mutation_queue[u][i] \in Batch
  BY DEF Typed
<1>2. /\ Settled(u) \in Nat
      /\ \A i \in 1..Len(mutation_queue[u]) :
            mutation_queue[u][i].write = <<u, Settled(u) + i>> /\ mutation_queue[u][i].id > 0
      /\ Ascending(mutation_queue[u])
  BY DEF DiskInv, QueueSound, Ascending
<1>3. Settled(u) = Stored(u) - Len(mutation_queue[u])
  BY DEF Settled
<1>4. Stored(u) = Settled(u) + Len(mutation_queue[u])
  <2>1. Stored(u) = written[u] - Cardinality(Of(worker_queue, u))
    BY DEF Stored, Waiting, Of, IsOf
  <2>2. written[u] \in Nat /\ Cardinality(Of(worker_queue, u)) \in Nat
    BY OfFacts DEF Typed
  <2> QED
    BY <1>1, <1>3, <2>1, <2>2
<1> QED
  BY <1>1, <1>2, <1>4

\* No batch comes or goes; another user may sign in, and callbacks be lost.
LEMMA DiskStays ==
    ASSUME Typed, DiskInv, mutation_queue' = mutation_queue,
           \A u \in Users : Stored(u)' = Stored(u),
           mutation_callbacks_' \subseteq mutation_callbacks_,
           \/ current_user_' = current_user_ /\ next_batch_id_' = next_batch_id_
           \/ current_user_' \in Users /\ next_batch_id_' = LoadNextBatchId
    PROVE  DiskInv' /\ \A u \in Users : Settled(u)' = Settled(u)
<1>1. \A u \in Users : Settled(u)' = Settled(u)
  BY DEF Settled
<1>2. \A u \in Users : QueueSound(mutation_queue[u]', u, Settled(u)')
  BY <1>1 DEF DiskInv
<1>3. IdsInv'
  <2>1. IdsInv
    BY DEF DiskInv
  <2>2. \A i \in 1..Len(MyQueue') : MyQueue'[i].id < next_batch_id_'
    <3>1. CASE current_user_' = current_user_ /\ next_batch_id_' = next_batch_id_
      BY <2>1, <3>1 DEF IdsInv, MyQueue
    <3>2. CASE current_user_' \in Users /\ next_batch_id_' = LoadNextBatchId
      BY <2>1, <3>2, NewIdFacts DEF MyQueue
    <3> QED
      BY <3>1, <3>2
  <2> QED
    BY <2>1, <2>2 DEF IdsInv
<1>4. CallbacksQueued'
  BY DEF DiskInv, CallbacksQueued
<1> QED
  BY <1>1, <1>2, <1>3, <1>4 DEF DiskInv

\* A write is stored.
LEMMA BatchStored ==
    ASSUME WritesAssumption, Typed, TasksInv, DiskInv, NEW w \in Writes,
           w[1] = current_user_, w[2] = Stored(current_user_) + 1,
           mutation_queue' = [mutation_queue EXCEPT ![current_user_] =
                                 Append(MyQueue, [id |-> next_batch_id_, write |-> w])],
           next_batch_id_' = next_batch_id_ + 1, current_user_' = current_user_,
           mutation_callbacks_' = mutation_callbacks_ \union
               {[user |-> current_user_, id |-> next_batch_id_, write |-> w]},
           \A u \in Users : Stored(u)' = IF u = current_user_ THEN Stored(u) + 1 ELSE Stored(u)
    PROVE  /\ DiskInv' /\ mutation_queue' \in [Users -> Seq(Batch)]
           /\ \A u \in Users : Settled(u)' = Settled(u)
<1> DEFINE c == current_user_
           b == [id |-> next_batch_id_, write |-> w]
           n == Len(MyQueue)
           queue == Append(MyQueue, b)
<1>1. /\ c \in Users /\ next_batch_id_ \in Nat \ {0} /\ b \in Batch
      /\ mutation_queue \in [Users -> Seq(Batch)]
      /\ b.id = next_batch_id_ /\ b.write = w
  BY DEF Typed, Batch
<1>2. /\ MyQueue \in Seq(Batch) /\ n \in Nat
      /\ Settled(c) \in Nat /\ Stored(c) = Settled(c) + n
  BY <1>1, DiskFacts DEF MyQueue
<1>3. /\ queue \in Seq(Batch) /\ Len(queue) = n + 1 /\ queue[n + 1] = b
      /\ \A i \in 1..n : queue[i] = MyQueue[i]
  BY <1>1, <1>2
<1>4. /\ mutation_queue' \in [Users -> Seq(Batch)]
      /\ \A u \in Users : mutation_queue'[u] = IF u = c THEN queue ELSE mutation_queue[u]
  BY <1>1, <1>3
<1>6. \A i \in 1..n : MyQueue[i].id < next_batch_id_ /\ MyQueue[i].id \in Nat
  <2>1. \A i \in 1..n : MyQueue[i] \in Batch
    BY <1>2
  <2>2. \A i \in 1..n : MyQueue[i].id < next_batch_id_
    BY DEF DiskInv, IdsInv
  <2> QED
    BY <2>1, <2>2 DEF Batch
<1> HIDE DEF b, n, queue
<1>5. \A u \in Users : Settled(u)' = Settled(u)
  <2> SUFFICES ASSUME NEW u \in Users PROVE Settled(u)' = Settled(u)
    OBVIOUS
  <2>1. CASE u = c
    <3>1. Settled(u)' = (Stored(c) + 1) - (n + 1)
      BY <1>3, <1>4, <2>1 DEF Settled
    <3> QED
      BY <1>2, <2>1, <3>1
  <2>2. CASE u # c
    BY <1>4, <2>2 DEF Settled
  <2> QED
    BY <2>1, <2>2
<1>7. QueueSound(queue, c, Settled(c))
  <2>1. QueueSound(MyQueue, c, Settled(c))
    BY <1>1 DEF DiskInv, MyQueue
  <2>2. b.write = <<c, Settled(c) + (n + 1)>>
    <3>1. w = <<w[1], w[2]>>
      BY WritesFacts
    <3>2. w[2] = Settled(c) + (n + 1)
      BY <1>2
    <3> QED
      BY <1>1, <3>1, <3>2
  <2>3. \A i \in 1..Len(queue) : i \in 1..n \/ i = n + 1
    BY <1>2, <1>3
  <2>4. \A i \in 1..Len(queue) : queue[i].write = <<c, Settled(c) + i>> /\ queue[i].id > 0
    <3> SUFFICES ASSUME NEW i \in 1..Len(queue)
                 PROVE  queue[i].write = <<c, Settled(c) + i>> /\ queue[i].id > 0
      OBVIOUS
    <3>1. CASE i \in 1..n
      BY <1>3, <2>1, <3>1 DEF QueueSound, n
    <3>2. CASE i = n + 1
      BY <1>1, <1>3, <2>2, <3>2
    <3> QED
      BY <2>3, <3>1, <3>2
  <2>5. \A i, j \in 1..Len(queue) : i < j => queue[i].id < queue[j].id
    <3> SUFFICES ASSUME NEW i \in 1..Len(queue), NEW j \in 1..Len(queue), i < j
                 PROVE  queue[i].id < queue[j].id
      OBVIOUS
    <3>1. i \in 1..n
      BY <1>2, <1>3
    <3>2. CASE j \in 1..n
      BY <1>3, <2>1, <3>1, <3>2 DEF QueueSound, n
    <3>3. CASE j = n + 1
      BY <1>1, <1>3, <1>6, <3>1, <3>3
    <3> QED
      BY <2>3, <3>2, <3>3
  <2> QED
    BY <1>2, <2>4, <2>5 DEF QueueSound
<1>8. \A u \in Users : QueueSound(mutation_queue[u]', u, Settled(u)')
  BY <1>4, <1>5, <1>7 DEF DiskInv
<1>9. IdsInv'
  <2>1. \A i \in 1..Len(MyQueue') : MyQueue'[i].id < next_batch_id_'
    <3>1. MyQueue' = queue
      BY <1>1, <1>4 DEF MyQueue
    <3>2. ASSUME NEW i \in 1..Len(queue) PROVE queue[i].id < next_batch_id_'
      <4>1. CASE i \in 1..n
        <5>1. queue[i].id < next_batch_id_ /\ queue[i].id \in Nat
          BY <1>3, <1>6, <4>1
        <5> QED
          BY <1>1, <5>1
      <4>2. CASE i = n + 1
        BY <1>1, <1>3, <4>2
      <4> QED
        BY <1>2, <1>3, <4>1, <4>2 DEF n
    <3> QED
      BY <3>1, <3>2
  <2>2. PICK m \in Nat : \A u \in Users : \A i \in 1..Len(mutation_queue[u]) :
                            mutation_queue[u][i].id <= m
    BY DEF DiskInv, IdsInv
  <2> DEFINE most == m + next_batch_id_
  <2>3. most \in Nat
    BY <1>1
  <2>4. ASSUME NEW u \in Users, NEW i \in 1..Len(mutation_queue[u]')
        PROVE  mutation_queue[u]'[i].id <= most
    <3>1. CASE u = c
      <4>1. mutation_queue[u]' = queue /\ i \in 1..Len(queue)
        BY <1>4, <3>1
      <4>2. CASE i \in 1..n
        <5>1. queue[i].id < next_batch_id_ /\ queue[i].id \in Nat
          BY <1>3, <1>6, <4>2
        <5> QED
          BY <1>1, <4>1, <5>1
      <4>3. CASE i = n + 1
        BY <1>1, <1>3, <4>1, <4>3
      <4> QED
        BY <1>2, <1>3, <4>1, <4>2, <4>3 DEF n
    <3>2. CASE u # c
      <4>1. mutation_queue[u][i].id <= m /\ mutation_queue[u][i] \in Batch
        BY <1>4, <2>2, <3>2, DiskFacts
      <4> QED
        BY <1>1, <1>4, <3>2, <4>1 DEF Batch
    <3> QED
      BY <3>1, <3>2
  <2> HIDE DEF most
  <2> QED
    BY <2>1, <2>3, <2>4 DEF IdsInv
<1>10. CallbacksQueued'
  <2> SUFFICES ASSUME NEW d \in mutation_callbacks_'
               PROVE  \E i \in 1..Len(mutation_queue'[d.user]) :
                         /\ mutation_queue'[d.user][i].id = d.id
                         /\ mutation_queue'[d.user][i].write = d.write
    BY DEF CallbacksQueued
  <2>1. CASE d \in mutation_callbacks_
    <3>1. d.user \in Users
      BY <2>1 DEF Typed
    <3>2. PICK i \in 1..Len(mutation_queue[d.user]) :
              mutation_queue[d.user][i].id = d.id /\ mutation_queue[d.user][i].write = d.write
      BY <2>1 DEF DiskInv, CallbacksQueued
    <3>3. CASE d.user = c
      <4>1. i \in 1..n /\ i \in 1..Len(queue)
        BY <1>2, <1>3, <3>2, <3>3 DEF MyQueue, n
      <4> QED
        BY <1>3, <1>4, <3>1, <3>2, <3>3, <4>1 DEF MyQueue
    <3>4. CASE d.user # c
      BY <1>4, <3>1, <3>2, <3>4
    <3> QED
      BY <3>3, <3>4
  <2>2. CASE d = [user |-> current_user_, id |-> next_batch_id_, write |-> w]
    <3>1. d.user = c /\ d.id = b.id /\ d.write = b.write
      BY <1>1, <2>2
    <3>2. n + 1 \in 1..Len(queue)
      BY <1>2, <1>3
    <3> QED
      BY <1>1, <1>3, <1>4, <3>1, <3>2
  <2> QED
    BY <2>1, <2>2
<1> QED
  BY <1>4, <1>5, <1>8, <1>9, <1>10 DEF DiskInv

\* The batch removed is the first.
LEMMA WithoutFirst ==
    ASSUME NEW queue \in Seq(Batch), queue # <<>>, Ascending(queue)
    PROVE  Without(queue, queue[1]) = Tail(queue)
<1> DEFINE n == Len(queue)
           at == CHOOSE i \in DOMAIN queue : queue[i].id = queue[1].id
<1>1. n \in Nat \ {0} /\ DOMAIN queue = 1..n /\ \A i \in 1..n : queue[i] \in Batch
  OBVIOUS
<1>2. at \in 1..n /\ queue[at].id = queue[1].id
  BY <1>1
<1> HIDE DEF at
<1>3. at = 1
  <2>1. at # 1 => queue[1].id < queue[at].id
    BY <1>1, <1>2 DEF Ascending
  <2>2. queue[1].id \in Nat
    BY <1>1 DEF Batch
  <2> QED
    BY <1>2, <2>1, <2>2
<1>4. Without(queue, queue[1]) = SubSeq(queue, 1, at - 1) \o SubSeq(queue, at + 1, n)
  BY Zenon DEF Without, RemoveAt, at
<1>7. at - 1 = 0 /\ at + 1 = 2
  BY <1>3
<1>5. SubSeq(queue, 1, 0) = <<>> /\ SubSeq(queue, 2, n) = Tail(queue)
  BY <1>1, SubSeqEmpty, TailIsSubSeq
<1>6. Tail(queue) \in Seq(Batch)
  OBVIOUS
<1> QED
  BY <1>4, <1>5, <1>6, <1>7

\* The first batch of the queue is answered for.
LEMMA BatchSettled ==
    ASSUME Typed, DiskInv, NEW status, MyQueue # <<>>,
           mutation_queue' = [mutation_queue EXCEPT ![current_user_] = Tail(MyQueue)],
           NotifyUser(MyQueue[1].id, status),
           current_user_' = current_user_, next_batch_id_' = next_batch_id_,
           \A u \in Users : Stored(u)' = Stored(u)
    PROVE  /\ DiskInv' /\ mutation_queue' \in [Users -> Seq(Batch)]
           /\ mutation_callbacks_' \subseteq mutation_callbacks_
           /\ \A u \in Users :
                 Settled(u)' = IF u = current_user_ THEN Settled(u) + 1 ELSE Settled(u)
           /\ MyQueue[1].write \in Writes
           /\ MyQueue[1].write = <<current_user_, Settled(current_user_) + 1>>
           /\ \A a \in answers' : a \in answers \/ a = <<MyQueue[1].write, status>>
<1> DEFINE c == current_user_
           n == Len(MyQueue)
           rest == Tail(MyQueue)
           mine == {d \in mutation_callbacks_ : d.user = c /\ d.id = MyQueue[1].id}
<1>1. /\ c \in Users /\ mutation_queue \in [Users -> Seq(Batch)]
  BY DEF Typed
<1>2. /\ MyQueue \in Seq(Batch) /\ n \in Nat /\ Settled(c) \in Nat /\ Stored(c) = Settled(c) + n
      /\ Ascending(MyQueue)
      /\ \A i \in 1..n : /\ MyQueue[i].write = <<c, Settled(c) + i>> /\ MyQueue[i].id > 0
                         /\ MyQueue[i] \in Batch
  BY <1>1, DiskFacts DEF MyQueue
<1>3. n > 0
  BY <1>2
<1>4. /\ rest \in Seq(Batch) /\ Len(rest) = n - 1
      /\ \A i \in 1..(n - 1) : rest[i] = MyQueue[i + 1]
  BY <1>2
<1>5. \A u \in Users : mutation_queue'[u] = IF u = c THEN rest ELSE mutation_queue[u]
  BY <1>1
<1>6. mutation_queue' \in [Users -> Seq(Batch)]
  BY <1>1, <1>4
<1>7. /\ mutation_callbacks_' = mutation_callbacks_ \ mine
      /\ answers' = answers \union {<<d.write, status>> : d \in mine}
  BY DEF NotifyUser
<1> HIDE DEF n, rest
<1>8. \A u \in Users : Settled(u)' = IF u = c THEN Settled(u) + 1 ELSE Settled(u)
  <2> SUFFICES ASSUME NEW u \in Users
               PROVE  Settled(u)' = IF u = c THEN Settled(u) + 1 ELSE Settled(u)
    OBVIOUS
  <2>1. CASE u = c
    <3>1. Settled(u)' = Stored(c) - (n - 1)
      BY <1>4, <1>5, <2>1 DEF Settled
    <3> QED
      BY <1>2, <2>1, <3>1
  <2>2. CASE u # c
    BY <1>5, <2>2 DEF Settled
  <2> QED
    BY <2>1, <2>2
<1>9. \A i \in 1..(n - 1) : i + 1 \in 1..n
  BY <1>2
<1>10. QueueSound(rest, c, Settled(c) + 1)
  <2>1. \A i \in 1..Len(rest) : rest[i].write = <<c, (Settled(c) + 1) + i>> /\ rest[i].id > 0
    <3> SUFFICES ASSUME NEW i \in 1..(n - 1)
                 PROVE  rest[i].write = <<c, (Settled(c) + 1) + i>> /\ rest[i].id > 0
      BY <1>4
    <3>1. Settled(c) + (i + 1) = (Settled(c) + 1) + i
      BY <1>2
    <3> QED
      BY <1>2, <1>4, <1>9, <3>1
  <2>2. \A i, j \in 1..Len(rest) : i < j => rest[i].id < rest[j].id
    <3> SUFFICES ASSUME NEW i \in 1..(n - 1), NEW j \in 1..(n - 1), i < j
                 PROVE  rest[i].id < rest[j].id
      BY <1>4
    <3>1. i + 1 \in 1..n /\ j + 1 \in 1..n /\ i + 1 < j + 1
      BY <1>9
    <3>2. MyQueue[i + 1].id < MyQueue[j + 1].id
      BY <1>2, <3>1 DEF Ascending, n
    <3> QED
      BY <1>4, <3>2
  <2> QED
    BY <1>2, <2>1, <2>2 DEF QueueSound
<1>11. \A u \in Users : QueueSound(mutation_queue[u]', u, Settled(u)')
  BY <1>5, <1>8, <1>10 DEF DiskInv
<1>12. IdsInv'
  <2>1. IdsInv
    BY DEF DiskInv
  <2>2. \A i \in 1..Len(MyQueue') : MyQueue'[i].id < next_batch_id_'
    <3>1. MyQueue' = rest
      BY <1>1, <1>5 DEF MyQueue
    <3>2. \A i \in 1..n : MyQueue[i].id < next_batch_id_
      BY <2>1 DEF IdsInv, n
    <3> QED
      BY <1>4, <1>9, <3>1, <3>2
  <2>3. PICK m \in Nat : \A u \in Users : \A i \in 1..Len(mutation_queue[u]) :
                            mutation_queue[u][i].id <= m
    BY <2>1 DEF IdsInv
  <2>4. ASSUME NEW u \in Users, NEW i \in 1..Len(mutation_queue[u]')
        PROVE  mutation_queue[u]'[i].id <= m
    <3>1. CASE u = c
      <4>1. mutation_queue[u]' = rest /\ i \in 1..(n - 1)
        BY <1>4, <1>5, <3>1
      <4>2. MyQueue[i + 1].id <= m
        BY <1>1, <1>9, <2>3, <4>1 DEF MyQueue, n
      <4> QED
        BY <1>4, <4>1, <4>2
    <3>2. CASE u # c
      BY <1>5, <2>3, <3>2
    <3> QED
      BY <3>1, <3>2
  <2> QED
    BY <2>2, <2>4 DEF IdsInv
<1>13. ASSUME NEW d \in mutation_callbacks_
       PROVE  /\ d.user \in Users
              /\ \E i \in 1..Len(mutation_queue[d.user]) :
                    mutation_queue[d.user][i].id = d.id /\ mutation_queue[d.user][i].write = d.write
  BY DEF Typed, DiskInv, CallbacksQueued
<1>14. CallbacksQueued'
  <2> SUFFICES ASSUME NEW d \in mutation_callbacks_, d \notin mine
               PROVE  \E i \in 1..Len(mutation_queue'[d.user]) :
                         /\ mutation_queue'[d.user][i].id = d.id
                         /\ mutation_queue'[d.user][i].write = d.write
    BY <1>7 DEF CallbacksQueued
  <2>1. PICK i \in 1..Len(mutation_queue[d.user]) :
            mutation_queue[d.user][i].id = d.id /\ mutation_queue[d.user][i].write = d.write
    BY <1>13
  <2>2. CASE d.user = c
    <3>1. i \in 1..n /\ MyQueue[i].id = d.id /\ MyQueue[i].write = d.write
      BY <2>1, <2>2 DEF MyQueue, n
    <3>2. i # 1
      BY <2>2, <3>1
    <3>3. i - 1 \in 1..(n - 1) /\ (i - 1) + 1 = i
      BY <1>2, <3>1, <3>2
    <3>4. rest[i - 1] = MyQueue[i]
      BY <1>4, <3>3
    <3>5. mutation_queue'[d.user] = rest
      BY <1>1, <1>5, <2>2
    <3>6. /\ i - 1 \in 1..Len(mutation_queue'[d.user])
          /\ mutation_queue'[d.user][i - 1].id = d.id
          /\ mutation_queue'[d.user][i - 1].write = d.write
      BY <1>4, <3>1, <3>3, <3>4, <3>5
    <3> QED
      BY <3>6
  <2>3. CASE d.user # c
    BY <1>5, <1>13, <2>1, <2>3
  <2> QED
    BY <2>2, <2>3
<1>15. ASSUME NEW d \in mine PROVE d.write = MyQueue[1].write
  <2>1. PICK i \in 1..n : MyQueue[i].id = d.id /\ MyQueue[i].write = d.write
    BY <1>13 DEF MyQueue, n
  <2>2. i = 1
    <3>1. i # 1 => MyQueue[1].id < MyQueue[i].id
      BY <1>2, <1>3, <2>1 DEF Ascending, n
    <3>2. MyQueue[1].id \in Nat
      BY <1>2, <1>3 DEF Batch
    <3> QED
      BY <2>1, <3>1, <3>2
  <2> QED
    BY <2>1, <2>2
<1>16. \A a \in answers' : a \in answers \/ a = <<MyQueue[1].write, status>>
  BY <1>7, <1>15
<1>17. /\ MyQueue[1].write \in Writes
       /\ MyQueue[1].write = <<c, Settled(c) + 1>>
  <2>1. 1 \in 1..n
    BY <1>2, <1>3
  <2> QED
    BY <1>2, <2>1 DEF Batch
<1> QED
  BY <1>6, <1>7, <1>8, <1>11, <1>12, <1>14, <1>16, <1>17 DEF DiskInv

----------------------------------------------------------------------------
(* What a step does to the truth.                                          *)

\* Nothing is answered or applied.
LEMMA TruthStays ==
    ASSUME Typed, TasksInv, DiskInv, TruthInv, answers' = answers, doc' = doc,
           \A u \in Users : Stored(u)' \in {Stored(u), Stored(u) + 1} /\ Settled(u)' = Settled(u),
           \/ current_user_' = current_user_ /\ Results' = Results
           \/ Results' = 0
    PROVE  TruthInv'
<1>1. AnswersSound'
  <2> SUFFICES ASSUME NEW a \in answers
               PROVE  /\ a[1][2] <= Settled(a[1][1])'
                      /\ a[2] = "ok" => a[1][2] <= doc'[a[1][1]]
                      /\ a[2] = "error" => a[1] \in Refused
    BY DEF AnswersSound
  <2>1. a[1] \in Writes
    BY DEF Typed
  <2>2. a[1][1] \in Users
    BY <2>1, WritesFacts
  <2> QED
    BY <2>2 DEF TruthInv, AnswersSound
<1>2. \A u \in Users : doc'[u] <= Stored(u)'
  <2> SUFFICES ASSUME NEW u \in Users PROVE doc[u] <= Stored(u)'
    OBVIOUS
  <2>1. doc[u] \in Nat /\ Stored(u) \in Nat /\ doc[u] <= Stored(u)
    BY StoredFacts DEF Typed, TruthInv, DocsSound
  <2> QED
    BY <2>1
<1>3. Results' > 0 => doc'[current_user_'] = Settled(current_user_)' + Results'
  <2>1. CASE current_user_' = current_user_ /\ Results' = Results
    <3>1. Settled(current_user_)' = Settled(current_user_)
      BY <2>1 DEF Typed, Settled, Stored, Waiting
    <3> QED
      BY <2>1, <3>1 DEF TruthInv, DocsSound
  <2>2. CASE Results' = 0
    BY <2>2
  <2> QED
    BY <2>1, <2>2
<1> QED
  BY <1>1, <1>2, <1>3 DEF TruthInv, DocsSound

----------------------------------------------------------------------------
(* What a step does to all of it, and how WriteOrder sees the step.        *)

\* WriteOrder sees nothing.
Unseen ==
    /\ current_user_' = current_user_ /\ doc' = doc /\ Results' = Results
    /\ \A u \in Users : Stored(u)' = Stored(u) /\ Settled(u)' = Settled(u)

\* WriteOrder sees a new connection.
Reconnected ==
    /\ current_user_' \in Users /\ doc' = doc /\ Results' = 0
    /\ \A u \in Users : Stored(u)' = Stored(u) /\ Settled(u)' = Settled(u)

LEMMA QuietStep ==
    ASSUME Typed, TasksInv, DiskInv, TruthInv, UNCHANGED <<queueVars, answerVars, doc>>,
           \A u \in Users : Stored(u)' = Stored(u),
           ResultsOf(write_stream_') = ResultsOf(write_stream_)
    PROVE  DiskInv' /\ TruthInv' /\ Unseen
<1>1. /\ mutation_queue' = mutation_queue /\ current_user_' = current_user_
      /\ next_batch_id_' = next_batch_id_ /\ mutation_callbacks_' = mutation_callbacks_
      /\ answers' = answers /\ doc' = doc
  BY DEF queueVars, answerVars
<1>2. Results' = Results
  BY DEF Results, ResultsOf
<1>3. DiskInv' /\ \A u \in Users : Settled(u)' = Settled(u)
  BY <1>1, DiskStays
<1>4. TruthInv'
  BY <1>1, <1>2, <1>3, TruthStays
<1> QED
  BY <1>1, <1>2, <1>3, <1>4 DEF Unseen

LEMMA ReconnectStep ==
    ASSUME Typed, TasksInv, DiskInv, TruthInv,
           mutation_queue' = mutation_queue, answers' = answers, doc' = doc,
           mutation_callbacks_' \subseteq mutation_callbacks_,
           \/ current_user_' = current_user_ /\ next_batch_id_' = next_batch_id_
           \/ current_user_' \in Users /\ next_batch_id_' = LoadNextBatchId,
           \A u \in Users : Stored(u)' = Stored(u),
           ResultsOf(write_stream_') = 0
    PROVE  DiskInv' /\ TruthInv' /\ Reconnected
<1>1. Results' = 0
  BY DEF Results, ResultsOf
<1>2. DiskInv' /\ \A u \in Users : Settled(u)' = Settled(u)
  BY DiskStays
<1>3. TruthInv'
  BY <1>1, <1>2, TruthStays
<1>4. current_user_' \in Users
  BY DEF Typed
<1> QED
  BY <1>1, <1>2, <1>3, <1>4 DEF Reconnected

LEMMA SetDataStep ==
    ASSUME WritesAssumption, WritesInv, SetData
    PROVE  WritesInv' /\ Unseen
<1> DEFINE w == <<auth_user, written[auth_user] + 1>>
           t == WriteTask(w)
<1>1. /\ Typed /\ TasksInv /\ DiskInv /\ TruthInv /\ StreamInv
      /\ auth_user \in Users /\ worker_queue \in Seq(Task) /\ written \in [Users -> Nat]
  BY DEF WritesInv, Typed
<1>2. /\ written[auth_user] < MaxWrites[auth_user] /\ MaxWrites[auth_user] \in Nat
      /\ written' = [written EXCEPT ![auth_user] = written[auth_user] + 1]
      /\ UNCHANGED <<auth_user, queueVars, remoteVars, doc, answerVars, trouble>>
  BY <1>1 DEF SetData, WritesAssumption
<1>3. /\ \A u \in Users : written'[u] = IF u = auth_user THEN written[u] + 1 ELSE written[u]
      /\ written' \in [Users -> Nat] /\ \A u \in Users : written'[u] <= MaxWrites[u]
  <2>1. \A u \in Users : written'[u] = IF u = auth_user THEN written[u] + 1 ELSE written[u]
    BY <1>1, <1>2
  <2>2. written' \in [Users -> Nat]
    BY <1>1, <1>2
  <2>3. \A u \in Users : written'[u] <= MaxWrites[u]
    BY <1>1, <1>2, <2>1 DEF Typed
  <2> QED
    BY <2>1, <2>2, <2>3
<1>4. w \in Writes
  <2>1. written[auth_user] + 1 \in 1..MaxWrites[auth_user]
    BY <1>1, <1>2
  <2> QED
    BY <1>1, <2>1 DEF Writes
<1>5. t \in Task /\ t.kind = "Write" /\ t.write = w
  BY <1>4, NewTasks
<1>6. worker_queue' = Append(worker_queue, t)
  BY <1>1, <1>3 DEF SetData
<1>7. current_user_' = current_user_ /\ auth_user' = auth_user /\ write_stream_' = write_stream_
      /\ write_pipeline_' = write_pipeline_ /\ trouble' = trouble /\ doc' = doc
      /\ UNCHANGED <<queueVars, answerVars, doc>>
  BY <1>2 DEF queueVars, remoteVars
<1>8. \A u \in Users : /\ IsOf(t, u) <=> u = auth_user
                       /\ IsOf(t, u) => t.write[2] = written[u] + 1
  BY <1>5 DEF IsOf
<1>9. t.write[1] = auth_user
  BY <1>5
<1> HIDE DEF t, w
<1>10. TasksInv' /\ worker_queue' \in Seq(Task) /\ \A u \in Users : Stored(u)' = Stored(u)
  BY <1>1, <1>3, <1>5, <1>6, <1>7, <1>8, <1>9, TaskAppended
<1>11. DiskInv' /\ TruthInv' /\ Unseen
  BY <1>1, <1>7, <1>10, QuietStep
<1>12. Typed'
  BY <1>1, <1>3, <1>7, <1>10 DEF Typed, queueVars, answerVars
<1>13. TokensSound(worker_queue', write_stream_')
  BY <1>1, <1>5, <1>6, <1>7, AppendTokens DEF StreamInv
<1>14. StreamInv'
  BY <1>1, <1>7, <1>13 DEF StreamInv, MyQueue, queueVars
<1> QED
  BY <1>10, <1>11, <1>12, <1>14 DEF WritesInv

LEMMA AuthStateDidChangeStep ==
    ASSUME WritesAssumption, WritesInv, NEW u \in Users, AuthStateDidChange(u)
    PROVE  WritesInv' /\ Unseen
<1> DEFINE t == CredentialTask(u)
<1>1. /\ Typed /\ TasksInv /\ DiskInv /\ TruthInv /\ StreamInv /\ worker_queue \in Seq(Task)
  BY DEF WritesInv, Typed
<1>2. /\ worker_queue' = Append(worker_queue, t)
      /\ auth_user' = u /\ written' = written /\ trouble' \in 0..MaxTrouble
      /\ UNCHANGED <<queueVars, answerVars, doc>>
      /\ current_user_' = current_user_ /\ write_stream_' = write_stream_
      /\ write_pipeline_' = write_pipeline_
  BY <1>1 DEF AuthStateDidChange, Typed, queueVars, remoteVars, WritesAssumption
<1>3. t \in Task /\ t.kind = "CredentialChange" /\ t.user = u
  BY NewTasks
<1>4. \A v \in Users : ~IsOf(t, v)
  BY <1>3 DEF IsOf
<1> HIDE DEF t
<1>5. TasksInv' /\ worker_queue' \in Seq(Task) /\ \A v \in Users : Stored(v)' = Stored(v)
  BY <1>1, <1>2, <1>3, <1>4, TaskAppended
<1>6. DiskInv' /\ TruthInv' /\ Unseen
  BY <1>1, <1>2, <1>5, QuietStep
<1>7. Typed'
  BY <1>1, <1>2, <1>5 DEF Typed, queueVars, answerVars
<1>8. TokensSound(worker_queue', write_stream_')
  BY <1>1, <1>2, <1>3, AppendTokens DEF StreamInv
<1>9. StreamInv'
  BY <1>1, <1>2, <1>8 DEF StreamInv, MyQueue, queueVars
<1> QED
  BY <1>5, <1>6, <1>7, <1>9 DEF WritesInv

LEMMA GetTokenStep ==
    ASSUME WritesAssumption, WritesInv, NEW live \in BOOLEAN, GetToken(live)
    PROVE  WritesInv' /\ Unseen
<1> DEFINE t == TokenTask(live, auth_user)
           s == write_stream_
           asked == s.asked \ {live}
<1>1. /\ Typed /\ TasksInv /\ DiskInv /\ TruthInv /\ StreamInv /\ worker_queue \in Seq(Task)
      /\ s \in Stream /\ auth_user \in Users
  BY DEF WritesInv, Typed
<1>2. /\ worker_queue' = Append(worker_queue, t)
      /\ write_stream_' = [s EXCEPT !.asked = asked]
      /\ live \in s.asked
      /\ auth_user' = auth_user /\ written' = written /\ trouble' = trouble
      /\ UNCHANGED <<queueVars, answerVars, doc>>
      /\ current_user_' = current_user_ /\ write_pipeline_' = write_pipeline_
  BY DEF GetToken, appVars, queueVars
<1>3. t \in Task /\ t.kind = "Token" /\ t.live = live /\ t.user = auth_user
  BY <1>1, NewTasks
<1>4. \A v \in Users : ~IsOf(t, v)
  BY <1>3 DEF IsOf
<1>5. /\ write_stream_' \in Stream
      /\ write_stream_'.asked = asked /\ write_stream_'.state = s.state
      /\ write_stream_'.handshake_complete = s.handshake_complete
      /\ write_stream_'.idle = s.idle /\ write_stream_'.requests = s.requests
      /\ write_stream_'.responses = s.responses /\ write_stream_'.user = s.user
  BY <1>1, <1>2 DEF Stream
<1> HIDE DEF t, s
<1>6. TasksInv' /\ worker_queue' \in Seq(Task) /\ \A v \in Users : Stored(v)' = Stored(v)
  BY <1>1, <1>2, <1>3, <1>4, TaskAppended
<1>7. ResultsOf(write_stream_') = ResultsOf(s)
  BY <1>5 DEF ResultsOf
<1>8. DiskInv' /\ TruthInv' /\ Unseen
  BY <1>1, <1>2, <1>6, <1>7, QuietStep DEF s
<1>9. Typed'
  BY <1>1, <1>2, <1>5, <1>6 DEF Typed, queueVars, answerVars
<1>10. TokensSound(worker_queue', write_stream_')
  <2>1. TokensSound(worker_queue, s)
    BY <1>1 DEF StreamInv, s
  <2>2. CASE live
    <3>1. s.state = "Starting" /\ Live(worker_queue) = {}
      BY <1>2, <2>1, <2>2 DEF TokensSound
    <3>2. \A i : i \in Live(worker_queue') <=> i = Len(worker_queue) + 1
      BY <1>1, <1>2, <1>3, <2>2, <3>1, LiveAppend
    <3>3. live = TRUE /\ TRUE \notin asked /\ Live(worker_queue') # {}
      BY <2>2, <3>2
    <3> HIDE DEF asked
    <3>4. \A i, j \in Live(worker_queue') : i = j
      BY <3>2
    <3> QED
      BY <1>5, <3>1, <3>3, <3>4 DEF TokensSound
  <2>3. CASE ~live
    <3>1. TokensSound(worker_queue', s)
      BY <1>1, <1>2, <1>3, <2>1, <2>3, AppendTokens
    <3>2. TRUE \in asked <=> TRUE \in s.asked
      BY <2>3
    <3> QED
      BY <1>5, <3>1, <3>2 DEF TokensSound
  <2> QED
    BY <2>2, <2>3
<1>11. StreamSound(write_pipeline_', write_stream_', current_user_')
  <2>1. StreamSound(write_pipeline_, s, current_user_)
    BY <1>1 DEF StreamInv, s
  <2> QED
    BY <1>2, <1>5, <2>1 DEF StreamSound, OpenSound, IsOpen, Answered
<1>12. StreamInv'
  BY <1>1, <1>2, <1>5, <1>10, <1>11 DEF StreamInv, MyQueue, queueVars, IsStarted, s
<1> QED
  BY <1>6, <1>8, <1>9, <1>12 DEF WritesInv

\* WriteOrder sees a write.
WriteSeen ==
    /\ current_user_' = current_user_ /\ doc' = doc /\ Results' = Results
    /\ \A u \in Users :
          /\ Stored(u)' = IF u = current_user_ THEN Stored(u) + 1 ELSE Stored(u)
          /\ Settled(u)' = Settled(u)

LEMMA WriteMutationsStep ==
    ASSUME WritesAssumption, WritesInv, WriteMutations
    PROVE  WritesInv' /\ WriteSeen
<1> DEFINE t == Head(worker_queue)
           w == t.write
           c == current_user_
           b == [id |-> next_batch_id_, write |-> w]
           queue == Append(MyQueue, b)
           r == Filled(write_pipeline_, write_stream_, queue)
<1>1. /\ Typed /\ TasksInv /\ DiskInv /\ TruthInv /\ StreamInv /\ worker_queue \in Seq(Task)
      /\ write_stream_ \in Stream /\ c \in Users /\ next_batch_id_ \in Nat \ {0}
  BY DEF WritesInv, Typed
<1>2. /\ worker_queue # <<>> /\ t.kind = "Write"
      /\ mutation_queue' = [mutation_queue EXCEPT ![c] = queue]
      /\ mutation_callbacks_' = mutation_callbacks_ \union
             {[user |-> c, id |-> next_batch_id_, write |-> w]}
      /\ write_pipeline_' = r.pipeline /\ write_stream_' = r.stream
      /\ next_batch_id_' = next_batch_id_ + 1
      /\ worker_queue' = Tail(worker_queue)
      /\ auth_user' = auth_user /\ written' = written /\ current_user_' = c
      /\ doc' = doc /\ answers' = answers /\ trouble' = trouble
  BY DEF WriteMutations, Run, Become, appVars
<1>3. /\ TasksInv' /\ worker_queue' \in Seq(Task) /\ t \in Task
      /\ w[1] = c /\ w[2] = Stored(c) + 1
      /\ \A u \in Users : Stored(u)' = IF IsOf(t, u) THEN Stored(u) + 1 ELSE Stored(u)
  BY <1>1, <1>2, TaskRun
<1>4. w \in Writes
  BY <1>2, <1>3, TaskFacts
<1>5. \A u \in Users : Stored(u)' = IF u = c THEN Stored(u) + 1 ELSE Stored(u)
  BY <1>2, <1>3 DEF IsOf
<1> HIDE DEF w, r
<1>6. DiskInv' /\ mutation_queue' \in [Users -> Seq(Batch)] /\ \A u \in Users : Settled(u)' = Settled(u)
  BY <1>1, <1>2, <1>3, <1>4, <1>5, BatchStored
<1>7. MyQueue \in Seq(Batch) /\ b \in Batch
  BY <1>1, <1>4 DEF MyQueue, Typed, Batch
<1>8. /\ queue \in Seq(Batch) /\ Len(queue) = Len(MyQueue) + 1 /\ Len(MyQueue) \in Nat
      /\ \A i \in 1..Len(MyQueue) : queue[i] = MyQueue[i]
  BY <1>7
<1>9. MyQueue' = queue
  BY <1>1, <1>2 DEF MyQueue, Typed
<1> HIDE DEF b, queue
<1>10. /\ Ascending(queue)
       /\ \A i \in 1..Len(queue) : queue[i].write[1] = c
  <2>1. \A u \in Users : /\ Ascending(mutation_queue'[u])
                         /\ \A i \in 1..Len(mutation_queue'[u]) : mutation_queue'[u][i].write[1] = u
    BY <1>6 DEF DiskInv, QueueSound, Ascending
  <2>2. mutation_queue'[c] = queue
    BY <1>1, <1>2 DEF Typed
  <2> QED
    BY <1>1, <2>1, <2>2
<1>11. PipelineSound(write_pipeline_, queue)
  <2>1. PipelineSound(write_pipeline_, MyQueue)
    BY <1>1 DEF StreamInv
  <2>2. Len(write_pipeline_) \in Nat /\ Len(write_pipeline_) <= Len(MyQueue)
    BY <2>1 DEF PipelineSound
  <2>3. \A i \in 1..Len(write_pipeline_) : i \in 1..Len(MyQueue)
    BY <1>8, <2>2
  <2> QED
    BY <1>8, <2>1, <2>2, <2>3 DEF PipelineSound
<1>12. StreamSound(write_pipeline_, write_stream_, c) /\ TokensSound(worker_queue, write_stream_)
  BY <1>1 DEF StreamInv
<1>13. /\ PipelineSound(r.pipeline, queue)
       /\ r.stream \in Stream
       /\ StreamSound(r.pipeline, r.stream, c)
       /\ r.pipeline # <<>> => IsStarted(r.stream)
       /\ Starts(write_stream_, r.stream)
       /\ r.stream.responses = write_stream_.responses
  BY <1>1, <1>8, <1>10, <1>11, <1>12, FilledFacts DEF r
<1>14. TokensSound(worker_queue', write_stream_')
  <2>1. TokensSound(worker_queue', write_stream_)
    BY <1>1, <1>2, <1>12, TailTokens
  <2> QED
    BY <1>1, <1>2, <1>13, <2>1, StartsTokens
<1>15. StreamInv'
  BY <1>2, <1>9, <1>13, <1>14 DEF StreamInv
<1>16. Results' = Results
  BY <1>2, <1>13 DEF Results
<1>17. TruthInv'
  BY <1>1, <1>2, <1>5, <1>6, <1>16, TruthStays
<1>18. Typed'
  <2>1. mutation_callbacks_' \subseteq [user : Users, id : Nat, write : Writes]
    <3>1. [user |-> c, id |-> next_batch_id_, write |-> w] \in [user : Users, id : Nat, write : Writes]
      BY <1>1, <1>4
    <3> QED
      BY <1>1, <1>2, <3>1 DEF Typed
  <2> QED
    BY <1>1, <1>2, <1>3, <1>6, <1>13, <2>1 DEF Typed
<1>19. WriteSeen
  BY <1>2, <1>5, <1>6, <1>16 DEF WriteSeen
<1> QED
  BY <1>3, <1>6, <1>15, <1>17, <1>18, <1>19 DEF WritesInv

\* What begins anew over the queue of user v.
LEMMA RestartedFacts ==
    ASSUME WritesAssumption, Typed, DiskInv, NEW v \in Users, NEW s, Ended(s)
    PROVE  LET r == Filled(<<>>, s, mutation_queue[v])
           IN  /\ PipelineSound(r.pipeline, mutation_queue[v])
               /\ r.stream \in Stream
               /\ StreamSound(r.pipeline, r.stream, v)
               /\ r.pipeline # <<>> => IsStarted(r.stream)
               /\ Starts(s, r.stream)
               /\ ResultsOf(r.stream) = 0
<1>1. /\ mutation_queue[v] \in Seq(Batch) /\ Ascending(mutation_queue[v])
      /\ \A i \in 1..Len(mutation_queue[v]) : mutation_queue[v][i].write[1] = v
  BY DiskFacts
<1> QED
  BY <1>1, RefilledFacts

LEMMA HandleCredentialChangeStep ==
    ASSUME WritesAssumption, WritesInv, HandleCredentialChange
    PROVE  WritesInv' /\ Reconnected
<1> DEFINE t == Head(worker_queue)
           v == t.user
           s == InhibitBackoff(Stop(write_stream_))
           r == Filled(<<>>, s, mutation_queue[v])
<1>1. /\ Typed /\ TasksInv /\ DiskInv /\ TruthInv /\ StreamInv /\ worker_queue \in Seq(Task)
      /\ write_stream_ \in Stream /\ mutation_queue \in [Users -> Seq(Batch)]
  BY DEF WritesInv, Typed
<1>2. /\ worker_queue # <<>> /\ t.kind = "CredentialChange"
      /\ current_user_' = v
      /\ next_batch_id_' = IF v = current_user_ THEN next_batch_id_ ELSE LoadNextBatchId
      /\ write_pipeline_' = r.pipeline /\ write_stream_' = r.stream
      /\ worker_queue' = Outdated(Tail(worker_queue))
      /\ auth_user' = auth_user /\ written' = written /\ mutation_queue' = mutation_queue
      /\ doc' = doc /\ answers' = answers /\ mutation_callbacks_' = mutation_callbacks_
      /\ trouble' = trouble
  BY DEF HandleCredentialChange, Run, Become, appVars, answerVars, Restarted
<1>3. /\ TasksInv' /\ worker_queue' \in Seq(Task) /\ t \in Task
      /\ \A u \in Users : Stored(u)' = IF IsOf(t, u) THEN Stored(u) + 1 ELSE Stored(u)
  BY <1>1, <1>2, TaskRun
<1>4. v \in Users /\ \A u \in Users : Stored(u)' = Stored(u)
  BY <1>2, <1>3, TaskFacts DEF IsOf
<1>5. StreamSound(write_pipeline_, write_stream_, current_user_) /\ TokensSound(worker_queue, write_stream_)
  BY <1>1 DEF StreamInv
<1>6. Ended(s)
  <2>1. Ended(Stop(write_stream_))
    BY <1>1, <1>5, StopFacts
  <2> QED
    BY <2>1, EndedFacts
<1> HIDE DEF v, s
<1>7. /\ PipelineSound(r.pipeline, mutation_queue[v])
      /\ r.stream \in Stream
      /\ StreamSound(r.pipeline, r.stream, v)
      /\ r.pipeline # <<>> => IsStarted(r.stream)
      /\ Starts(s, r.stream)
      /\ ResultsOf(r.stream) = 0
  BY <1>1, <1>4, <1>6, RestartedFacts
<1> HIDE DEF r
<1>8. TokensSound(worker_queue', write_stream_')
  <2>1. Tail(worker_queue) \in Seq(Task)
    BY <1>1, <1>2
  <2>2. s \in Stream /\ s.state # "Starting" /\ TRUE \notin s.asked
    BY <1>6, EndedFacts
  <2>3. TokensSound(worker_queue', s)
    BY <1>2, <2>1, <2>2, OutdatedTokens
  <2> QED
    BY <1>2, <1>7, <2>2, <2>3, StartsTokens
<1>9. StreamInv'
  BY <1>2, <1>7, <1>8 DEF StreamInv, MyQueue
<1>10. \/ current_user_' = current_user_ /\ next_batch_id_' = next_batch_id_
       \/ current_user_' \in Users /\ next_batch_id_' = LoadNextBatchId
  BY <1>2, <1>4
<1>11. ResultsOf(write_stream_') = 0
  BY <1>2, <1>7
<1>12. DiskInv' /\ TruthInv' /\ Reconnected
  BY <1>1, <1>2, <1>4, <1>10, <1>11, ReconnectStep
<1>13. next_batch_id_' \in Nat \ {0}
  <2>1. LoadNextBatchId \in Nat \ {0}
    BY <1>1, NewIdFacts DEF DiskInv
  <2> QED
    BY <1>1, <1>2, <2>1 DEF Typed
<1>14. Typed'
  BY <1>1, <1>2, <1>3, <1>4, <1>7, <1>13 DEF Typed
<1> QED
  BY <1>3, <1>9, <1>12, <1>14 DEF WritesInv

LEMMA ResumeStartStep ==
    ASSUME WritesAssumption, WritesInv, ResumeStart
    PROVE  WritesInv' /\ Unseen
<1> DEFINE t == Head(worker_queue)
           s == write_stream_
<1>1. /\ Typed /\ TasksInv /\ DiskInv /\ TruthInv /\ StreamInv /\ worker_queue \in Seq(Task)
      /\ s \in Stream
  BY DEF WritesInv, Typed
<1>2. /\ worker_queue # <<>> /\ t.kind = "Token"
      /\ write_stream_' = IF t.live THEN Opened(s, t.user) ELSE s
      /\ worker_queue' = Tail(worker_queue)
      /\ auth_user' = auth_user /\ written' = written /\ trouble' = trouble
      /\ UNCHANGED <<queueVars, answerVars, doc>>
      /\ current_user_' = current_user_ /\ write_pipeline_' = write_pipeline_
  BY DEF ResumeStart, Run, appVars, queueVars
<1>3. /\ TasksInv' /\ worker_queue' \in Seq(Task) /\ t \in Task
      /\ t.live => t.user = current_user_
      /\ \A u \in Users : Stored(u)' = IF IsOf(t, u) THEN Stored(u) + 1 ELSE Stored(u)
  BY <1>1, <1>2, TaskRun
<1>4. \A u \in Users : Stored(u)' = Stored(u)
  BY <1>2, <1>3 DEF IsOf
<1>5. /\ StreamSound(write_pipeline_, s, current_user_) /\ TokensSound(worker_queue, s)
      /\ PipelineSound(write_pipeline_, MyQueue)
      /\ write_pipeline_ # <<>> => IsStarted(s)
  BY <1>1 DEF StreamInv
<1>6. 1 \in Live(worker_queue) <=> t.live
  BY <1>1, <1>2, LiveTail
<1> HIDE DEF t, s
<1>7. /\ StreamSound(write_pipeline_, write_stream_', current_user_)
      /\ write_pipeline_ # <<>> => IsStarted(write_stream_')
      /\ write_stream_' \in Stream
      /\ TokensSound(worker_queue', write_stream_')
      /\ ResultsOf(write_stream_') = ResultsOf(s)
  <2>1. CASE t.live
    <3>1. s.state = "Starting" /\ TRUE \notin s.asked
      BY <1>5, <1>6, <2>1 DEF TokensSound
    <3>2. /\ s.requests = <<>> /\ s.responses = <<>> /\ ~s.handshake_complete /\ ~s.idle
          /\ write_pipeline_ # <<>>
      BY <1>5, <3>1 DEF StreamSound, IsOpen
    <3>3. write_stream_' = [s EXCEPT !.state = "Open", !.user = current_user_,
                                     !.requests = <<Handshake>>]
      BY <1>2, <1>3, <2>1 DEF Opened
    <3>4. <<Handshake>> \in Seq(Message) /\ current_user_ \in Users
      BY <1>1 DEF Message, Typed
    <3>5. /\ write_stream_' \in Stream
          /\ write_stream_'.state = "Open" /\ write_stream_'.user = current_user_
          /\ write_stream_'.requests = <<Handshake>> /\ write_stream_'.responses = <<>>
          /\ ~write_stream_'.handshake_complete /\ ~write_stream_'.idle
          /\ TRUE \notin write_stream_'.asked
          /\ write_stream_'.responses = s.responses
      BY <1>1, <3>1, <3>2, <3>3, <3>4 DEF Stream
    <3>6. Live(worker_queue') = {}
      <4> SUFFICES ASSUME NEW i \in Live(worker_queue') PROVE FALSE
        OBVIOUS
      <4>1. i + 1 \in Live(worker_queue) /\ i \in Nat \ {0}
        BY <1>1, <1>2, LiveTail
      <4>2. i + 1 = 1
        BY <1>5, <1>6, <2>1, <4>1 DEF TokensSound
      <4> QED
        BY <4>1, <4>2
    <3>7. TokensSound(worker_queue', write_stream_')
      BY <3>5, <3>6 DEF TokensSound
    <3>8. StreamSound(write_pipeline_, write_stream_', current_user_)
      BY <3>2, <3>5 DEF StreamSound, OpenSound, IsOpen
    <3>9. ResultsOf(write_stream_') = ResultsOf(s) /\ IsStarted(write_stream_')
      BY <3>5 DEF ResultsOf, IsStarted
    <3> QED
      BY <3>5, <3>7, <3>8, <3>9
  <2>2. CASE ~t.live
    <3>1. write_stream_' = s
      BY <1>2, <2>2
    <3>2. TokensSound(worker_queue', s)
      BY <1>1, <1>2, <1>5, <2>2, TailTokens DEF t
    <3> QED
      BY <1>1, <1>5, <3>1, <3>2
  <2> QED
    BY <2>1, <2>2
<1>8. DiskInv' /\ TruthInv' /\ Unseen
  BY <1>1, <1>2, <1>4, <1>7, QuietStep DEF s
<1>9. Typed'
  BY <1>1, <1>2, <1>3, <1>7 DEF Typed, queueVars, answerVars
<1>10. StreamInv'
  BY <1>2, <1>5, <1>7 DEF StreamInv, MyQueue, queueVars
<1> QED
  BY <1>3, <1>8, <1>9, <1>10 DEF WritesInv

\* The stream has closed and, with work left, is to start again.
LEMMA ClosedStep ==
    ASSUME Typed, DiskInv, StreamInv,
           mutation_queue' = mutation_queue, current_user_' = current_user_,
           write_pipeline_' = write_pipeline_, NEW tasks \in Seq(Task),
           worker_queue' = Outdated(tasks), NEW s, Ended(s),
           write_stream_' = StartIfNeeded(write_pipeline_, s)
    PROVE  StreamInv' /\ write_stream_' \in Stream /\ ResultsOf(write_stream_') = 0
<1>1. s \in Stream /\ StreamSound(write_pipeline_, s, current_user_) /\ ResultsOf(s) = 0
      /\ s.state # "Starting" /\ TRUE \notin s.asked
  BY EndedFacts
<1>2. /\ write_stream_' \in Stream
      /\ StreamSound(write_pipeline_, write_stream_', current_user_)
      /\ write_pipeline_ # <<>> => IsStarted(write_stream_')
      /\ Starts(s, write_stream_')
      /\ write_stream_'.responses = s.responses
  BY <1>1, StartIfNeededFacts
<1>3. TokensSound(worker_queue', write_stream_')
  BY <1>1, <1>2, OutdatedTokens, StartsTokens
<1>4. ResultsOf(write_stream_') = 0
  BY <1>1, <1>2 DEF ResultsOf
<1> QED
  BY <1>2, <1>3, <1>4 DEF StreamInv, MyQueue

LEMMA ErrorEnded ==
    ASSUME NEW s \in Stream
    PROVE  Ended(Close(s, "Error"))
  BY CloseFacts DEF Ended

LEMMA ResumeStartFailsStep ==
    ASSUME WritesAssumption, WritesInv, ResumeStartFails
    PROVE  WritesInv' /\ Reconnected
<1> DEFINE t == Head(worker_queue)
           s == Close(write_stream_, "Error")
<1>1. /\ Typed /\ TasksInv /\ DiskInv /\ TruthInv /\ StreamInv /\ worker_queue \in Seq(Task)
      /\ write_stream_ \in Stream
  BY DEF WritesInv, Typed
<1>2. /\ worker_queue # <<>> /\ t.kind = "Token"
      /\ write_stream_' = StartIfNeeded(write_pipeline_, s)
      /\ worker_queue' = Outdated(Tail(worker_queue))
      /\ auth_user' = auth_user /\ written' = written /\ trouble' \in 0..MaxTrouble
      /\ mutation_queue' = mutation_queue /\ current_user_' = current_user_
      /\ next_batch_id_' = next_batch_id_ /\ mutation_callbacks_' = mutation_callbacks_
      /\ answers' = answers /\ doc' = doc /\ write_pipeline_' = write_pipeline_
  BY <1>1 DEF ResumeStartFails, Run, appVars, queueVars, answerVars, Typed, WritesAssumption
<1>3. /\ TasksInv' /\ worker_queue' \in Seq(Task)
      /\ \A u \in Users : Stored(u)' = IF IsOf(t, u) THEN Stored(u) + 1 ELSE Stored(u)
  BY <1>1, <1>2, TaskRun
<1>4. \A u \in Users : Stored(u)' = Stored(u)
  BY <1>2, <1>3 DEF IsOf
<1>5. Ended(s) /\ Tail(worker_queue) \in Seq(Task)
  BY <1>1, <1>2, ErrorEnded
<1> HIDE DEF s, t
<1>6. StreamInv' /\ write_stream_' \in Stream /\ ResultsOf(write_stream_') = 0
  BY <1>1, <1>2, <1>5, ClosedStep
<1>7. DiskInv' /\ TruthInv' /\ Reconnected
  BY <1>1, <1>2, <1>4, <1>6, ReconnectStep
<1>8. Typed'
  BY <1>1, <1>2, <1>3, <1>6 DEF Typed
<1> QED
  BY <1>3, <1>6, <1>7, <1>8 DEF WritesInv

LEMMA StreamBreaksStep ==
    ASSUME WritesAssumption, WritesInv, StreamBreaks
    PROVE  WritesInv' /\ Reconnected
<1> DEFINE s == Close(write_stream_, "Error")
<1>1. /\ Typed /\ TasksInv /\ DiskInv /\ TruthInv /\ StreamInv /\ worker_queue \in Seq(Task)
      /\ write_stream_ \in Stream
  BY DEF WritesInv, Typed
<1>2. /\ write_stream_' = StartIfNeeded(write_pipeline_, s)
      /\ worker_queue' = Outdated(worker_queue)
      /\ auth_user' = auth_user /\ written' = written /\ trouble' \in 0..MaxTrouble
      /\ mutation_queue' = mutation_queue /\ current_user_' = current_user_
      /\ next_batch_id_' = next_batch_id_ /\ mutation_callbacks_' = mutation_callbacks_
      /\ answers' = answers /\ doc' = doc /\ write_pipeline_' = write_pipeline_
  BY <1>1 DEF StreamBreaks, appVars, queueVars, answerVars, Typed, WritesAssumption
<1>3. /\ TasksInv' /\ worker_queue' \in Seq(Task) /\ \A u \in Users : Stored(u)' = Stored(u)
  BY <1>1, <1>2, TasksStay
<1>4. Ended(s)
  BY <1>1, ErrorEnded
<1> HIDE DEF s
<1>5. StreamInv' /\ write_stream_' \in Stream /\ ResultsOf(write_stream_') = 0
  BY <1>1, <1>2, <1>4, ClosedStep
<1>6. DiskInv' /\ TruthInv' /\ Reconnected
  BY <1>1, <1>2, <1>3, <1>5, ReconnectStep
<1>7. Typed'
  BY <1>1, <1>2, <1>3, <1>5 DEF Typed
<1> QED
  BY <1>3, <1>5, <1>6, <1>7 DEF WritesInv

LEMMA BackoffElapsedStep ==
    ASSUME WritesAssumption, WritesInv, BackoffElapsed
    PROVE  WritesInv' /\ Unseen
<1> DEFINE s == write_stream_
           asked == s.asked \union {TRUE}
<1>1. /\ Typed /\ TasksInv /\ DiskInv /\ TruthInv /\ StreamInv /\ worker_queue \in Seq(Task)
      /\ s \in Stream
  BY DEF WritesInv, Typed
<1>2. /\ s.state = "Backoff" /\ write_stream_' = [s EXCEPT !.state = "Starting", !.asked = asked]
      /\ worker_queue' = worker_queue
      /\ auth_user' = auth_user /\ written' = written /\ trouble' = trouble
      /\ UNCHANGED <<queueVars, answerVars, doc>>
      /\ current_user_' = current_user_ /\ write_pipeline_' = write_pipeline_
  BY DEF BackoffElapsed, Ask, appVars, queueVars
<1>3. asked \in SUBSET BOOLEAN /\ TRUE \in asked
  BY <1>1, StreamFacts
<1> HIDE DEF asked, s
<1>4. /\ write_stream_' \in Stream
      /\ write_stream_'.asked = asked /\ write_stream_'.state = "Starting"
      /\ write_stream_'.handshake_complete = s.handshake_complete
      /\ write_stream_'.idle = s.idle /\ write_stream_'.requests = s.requests
      /\ write_stream_'.responses = s.responses
  BY <1>1, <1>2, <1>3 DEF Stream
<1>5. /\ TasksInv' /\ worker_queue' \in Seq(Task) /\ \A u \in Users : Stored(u)' = Stored(u)
  BY <1>1, <1>2, TasksStay DEF queueVars
<1>6. ResultsOf(write_stream_') = ResultsOf(s)
  BY <1>4 DEF ResultsOf
<1>7. DiskInv' /\ TruthInv' /\ Unseen
  BY <1>1, <1>2, <1>5, <1>6, QuietStep DEF s
<1>8. Typed'
  BY <1>1, <1>2, <1>4, <1>5 DEF Typed, queueVars, answerVars
<1>9. StreamSound(write_pipeline_, s, current_user_) /\ TokensSound(worker_queue, s)
  BY <1>1 DEF StreamInv, s
<1>10. /\ StreamSound(write_pipeline_', write_stream_', current_user_')
       /\ TokensSound(worker_queue', write_stream_')
  BY <1>2, <1>3, <1>4, <1>9 DEF StreamSound, TokensSound, IsOpen
<1>11. StreamInv'
  BY <1>1, <1>2, <1>4, <1>10 DEF StreamInv, MyQueue, queueVars, IsStarted
<1> QED
  BY <1>5, <1>7, <1>8, <1>11 DEF WritesInv

LEMMA IdleTimeoutStep ==
    ASSUME WritesAssumption, WritesInv, IdleTimeout
    PROVE  WritesInv' /\ Reconnected
<1> DEFINE s == Stop(write_stream_)
<1>1. /\ Typed /\ TasksInv /\ DiskInv /\ TruthInv /\ StreamInv /\ worker_queue \in Seq(Task)
      /\ write_stream_ \in Stream
  BY DEF WritesInv, Typed
<1>2. /\ write_stream_.idle /\ write_stream_' = s
      /\ worker_queue' = Outdated(worker_queue)
      /\ auth_user' = auth_user /\ written' = written /\ trouble' = trouble
      /\ mutation_queue' = mutation_queue /\ current_user_' = current_user_
      /\ next_batch_id_' = next_batch_id_ /\ mutation_callbacks_' = mutation_callbacks_
      /\ answers' = answers /\ doc' = doc /\ write_pipeline_' = write_pipeline_
  BY DEF IdleTimeout, appVars, queueVars, answerVars
<1>3. /\ TasksInv' /\ worker_queue' \in Seq(Task) /\ \A u \in Users : Stored(u)' = Stored(u)
  BY <1>1, <1>2, TasksStay
<1>4. StreamSound(write_pipeline_, write_stream_, current_user_) /\ TokensSound(worker_queue, write_stream_)
  BY <1>1 DEF StreamInv
<1>5. Ended(s)
  BY <1>1, <1>4, StopFacts
<1>6. write_pipeline_ = <<>>
  BY <1>2, <1>4 DEF StreamSound, OpenSound
<1> HIDE DEF s
<1>7. StartIfNeeded(write_pipeline_, s) = s
  BY <1>6 DEF StartIfNeeded
<1>8. StreamInv' /\ write_stream_' \in Stream /\ ResultsOf(write_stream_') = 0
  BY <1>1, <1>2, <1>5, <1>7, ClosedStep
<1>9. DiskInv' /\ TruthInv' /\ Reconnected
  BY <1>1, <1>2, <1>3, <1>8, ReconnectStep
<1>10. Typed'
  BY <1>1, <1>2, <1>3, <1>8 DEF Typed
<1> QED
  BY <1>3, <1>8, <1>9, <1>10 DEF WritesInv

LEMMA ConnectivityChangeStep ==
    ASSUME WritesAssumption, WritesInv, ConnectivityChange
    PROVE  WritesInv' /\ Reconnected
<1> DEFINE s == InhibitBackoff(Stop(write_stream_))
           r == Filled(<<>>, s, mutation_queue[current_user_])
<1>1. /\ Typed /\ TasksInv /\ DiskInv /\ TruthInv /\ StreamInv /\ worker_queue \in Seq(Task)
      /\ write_stream_ \in Stream /\ current_user_ \in Users
  BY DEF WritesInv, Typed
<1>2. /\ write_pipeline_' = r.pipeline /\ write_stream_' = r.stream
      /\ worker_queue' = Outdated(worker_queue)
      /\ auth_user' = auth_user /\ written' = written /\ trouble' \in 0..MaxTrouble
      /\ mutation_queue' = mutation_queue /\ current_user_' = current_user_
      /\ next_batch_id_' = next_batch_id_ /\ mutation_callbacks_' = mutation_callbacks_
      /\ answers' = answers /\ doc' = doc
  BY <1>1 DEF ConnectivityChange, Restarted, Become, MyQueue, appVars, queueVars, answerVars,
              Typed, WritesAssumption
<1>3. /\ TasksInv' /\ worker_queue' \in Seq(Task) /\ \A u \in Users : Stored(u)' = Stored(u)
  BY <1>1, <1>2, TasksStay
<1>4. StreamSound(write_pipeline_, write_stream_, current_user_) /\ TokensSound(worker_queue, write_stream_)
  BY <1>1 DEF StreamInv
<1>5. Ended(s)
  <2>1. Ended(Stop(write_stream_))
    BY <1>1, <1>4, StopFacts
  <2> QED
    BY <2>1, EndedFacts
<1> HIDE DEF s
<1>6. /\ PipelineSound(r.pipeline, mutation_queue[current_user_])
      /\ r.stream \in Stream
      /\ StreamSound(r.pipeline, r.stream, current_user_)
      /\ r.pipeline # <<>> => IsStarted(r.stream)
      /\ Starts(s, r.stream)
      /\ ResultsOf(r.stream) = 0
  BY <1>1, <1>5, RestartedFacts
<1> HIDE DEF r
<1>7. TokensSound(worker_queue', write_stream_')
  <2>1. s \in Stream /\ s.state # "Starting" /\ TRUE \notin s.asked
    BY <1>5, EndedFacts
  <2>2. TokensSound(worker_queue', s)
    BY <1>1, <1>2, <2>1, OutdatedTokens
  <2> QED
    BY <1>2, <1>6, <2>1, <2>2, StartsTokens
<1>8. StreamInv'
  BY <1>2, <1>6, <1>7 DEF StreamInv, MyQueue
<1>9. ResultsOf(write_stream_') = 0
  BY <1>2, <1>6
<1>10. DiskInv' /\ TruthInv' /\ Reconnected
  BY <1>1, <1>2, <1>3, <1>9, ReconnectStep
<1>11. Typed'
  BY <1>1, <1>2, <1>3, <1>6 DEF Typed
<1> QED
  BY <1>3, <1>8, <1>10, <1>11 DEF WritesInv

LEMMA RelaunchStep ==
    ASSUME WritesAssumption, WritesInv, Relaunch
    PROVE  WritesInv' /\ Reconnected
<1> DEFINE r == Filled(<<>>, NewStream, mutation_queue[auth_user])
<1>1. /\ Typed /\ TasksInv /\ DiskInv /\ TruthInv /\ StreamInv /\ auth_user \in Users
  BY DEF WritesInv, Typed
<1>2. /\ write_pipeline_' = r.pipeline /\ write_stream_' = r.stream
      /\ worker_queue' = <<>> /\ written' = [u \in Users |-> Stored(u)]
      /\ auth_user' = auth_user /\ trouble' \in 0..MaxTrouble
      /\ mutation_queue' = mutation_queue /\ current_user_' = auth_user
      /\ next_batch_id_' = LoadNextBatchId /\ mutation_callbacks_' = {}
      /\ answers' = answers /\ doc' = doc
  BY <1>1 DEF Relaunch, Become, Typed, WritesAssumption
<1>3. /\ TasksInv' /\ worker_queue' \in Seq(Task) /\ \A u \in Users : Stored(u)' = Stored(u)
      /\ written' \in [Users -> Nat] /\ \A u \in Users : written'[u] <= MaxWrites[u]
  BY <1>1, <1>2, TasksLost
<1>4. /\ PipelineSound(r.pipeline, mutation_queue[auth_user])
      /\ r.stream \in Stream
      /\ StreamSound(r.pipeline, r.stream, auth_user)
      /\ r.pipeline # <<>> => IsStarted(r.stream)
      /\ Starts(NewStream, r.stream)
      /\ ResultsOf(r.stream) = 0
  BY <1>1, NewStreamEnded, RestartedFacts
<1> HIDE DEF r
<1>5. TokensSound(worker_queue', write_stream_')
  <2>1. NewStream \in Stream /\ NewStream.state # "Starting" /\ TRUE \notin NewStream.asked
    BY NewStreamEnded, EndedFacts
  <2>2. TokensSound(worker_queue', NewStream)
    BY <1>2, <2>1, NoTokens
  <2> QED
    BY <1>2, <1>4, <2>1, <2>2, StartsTokens
<1>6. StreamInv'
  BY <1>2, <1>4, <1>5 DEF StreamInv, MyQueue
<1>7. ResultsOf(write_stream_') = 0 /\ current_user_' \in Users
  BY <1>1, <1>2, <1>4
<1>8. DiskInv' /\ TruthInv' /\ Reconnected
  BY <1>1, <1>2, <1>3, <1>7, ReconnectStep
<1>9. Typed'
  <2>1. LoadNextBatchId \in Nat \ {0}
    BY <1>1, NewIdFacts DEF DiskInv
  <2> QED
    BY <1>1, <1>2, <1>3, <1>4, <1>7, <2>1 DEF Typed
<1> QED
  BY <1>3, <1>6, <1>8, <1>9 DEF WritesInv

\* The pipeline is the beginning of the current user's queue.
LEMMA PipelineFacts ==
    ASSUME Typed, DiskInv, StreamInv
    PROVE  /\ write_pipeline_ \in Seq(Batch) /\ Len(write_pipeline_) \in Nat
           /\ MyQueue \in Seq(Batch) /\ Len(MyQueue) \in Nat
           /\ Len(write_pipeline_) <= Len(MyQueue)
           /\ Settled(current_user_) \in Nat
           /\ Stored(current_user_) = Settled(current_user_) + Len(MyQueue)
           /\ Ascending(MyQueue)
           /\ \A i \in 1..Len(write_pipeline_) :
                 /\ write_pipeline_[i] = MyQueue[i] /\ write_pipeline_[i] \in Batch
                 /\ write_pipeline_[i].write = <<current_user_, Settled(current_user_) + i>>
                 /\ write_pipeline_[i].write[1] = current_user_ /\ write_pipeline_[i].id > 0
<1>1. current_user_ \in Users
  BY DEF Typed
<1>2. PipelineSound(write_pipeline_, MyQueue)
  BY DEF StreamInv
<1>3. /\ write_pipeline_ \in Seq(Batch) /\ Len(write_pipeline_) \in Nat
      /\ Len(write_pipeline_) <= Len(MyQueue)
      /\ \A i \in 1..Len(write_pipeline_) :
            write_pipeline_[i] = MyQueue[i] /\ write_pipeline_[i] \in Batch
  BY <1>2 DEF PipelineSound
<1>4. /\ MyQueue \in Seq(Batch) /\ Len(MyQueue) \in Nat /\ Settled(current_user_) \in Nat
      /\ Stored(current_user_) = Settled(current_user_) + Len(MyQueue) /\ Ascending(MyQueue)
      /\ \A i \in 1..Len(MyQueue) :
            /\ MyQueue[i].write = <<current_user_, Settled(current_user_) + i>>
            /\ MyQueue[i].write[1] = current_user_ /\ MyQueue[i].id > 0
  BY <1>1, DiskFacts DEF MyQueue
<1>5. \A i \in 1..Len(write_pipeline_) : i \in 1..Len(MyQueue)
  BY <1>3, <1>4
<1> QED
  BY <1>3, <1>4, <1>5

\* What the first response says of the stream.
LEMMA ResponseFacts ==
    ASSUME NEW pipeline, NEW s \in Stream, NEW u, StreamSound(pipeline, s, u), s.responses # <<>>
    PROVE  /\ IsOpen(s) /\ OpenSound(pipeline, s, u)
           /\ Head(s.responses) = s.responses[1] /\ Len(s.responses) \in Nat \ {0}
           /\ ~s.handshake_complete => s.responses = <<"handshake">> /\ s.requests = <<>>
           /\ s.handshake_complete => s.responses[1] \in {"result", "permanent_error"}
<1>1. IsOpen(s) /\ OpenSound(pipeline, s, u)
  BY DEF StreamSound
<1>2. Head(s.responses) = s.responses[1] /\ Len(s.responses) \in Nat \ {0}
  BY StreamFacts
<1>3. ~s.handshake_complete => s.responses = <<"handshake">> /\ s.requests = <<>>
  BY <1>1 DEF OpenSound
<1>4. ASSUME s.handshake_complete PROVE s.responses[1] \in {"result", "permanent_error"}
  <2>1. PICK k \in 0..Len(pipeline) : Answered(pipeline, s, k)
    BY <1>1, <1>4 DEF OpenSound
  <2>2. \/ Len(s.responses) = k
        \/ Len(s.responses) = k + 1 /\ s.responses[k + 1] = "permanent_error"
    BY <2>1 DEF Answered
  <2>3. \A i \in 1..k : s.responses[i] = "result"
    BY <2>1 DEF Answered
  <2>4. CASE 1 <= k
    BY <2>3, <2>4
  <2>5. CASE k = 0
    BY <1>2, <2>2, <2>5
  <2> QED
    BY <2>1, <2>4, <2>5
<1> QED
  BY <1>1, <1>2, <1>3, <1>4

LEMMA HandshakeCompleteStep ==
    ASSUME WritesAssumption, WritesInv, HandshakeComplete
    PROVE  WritesInv' /\ Unseen
<1> DEFINE s == write_stream_
           p == write_pipeline_
           read == [Read(s) EXCEPT !.handshake_complete = TRUE]
<1>1. /\ Typed /\ TasksInv /\ DiskInv /\ TruthInv /\ StreamInv /\ worker_queue \in Seq(Task)
      /\ s \in Stream
  BY DEF WritesInv, Typed
<1>2. /\ s.responses # <<>> /\ Head(s.responses) = "handshake"
      /\ write_stream_' = Send(read, p)
      /\ worker_queue' = worker_queue
      /\ auth_user' = auth_user /\ written' = written /\ trouble' = trouble
      /\ UNCHANGED <<queueVars, answerVars, doc>>
      /\ current_user_' = current_user_ /\ write_pipeline_' = p
  BY DEF HandshakeComplete, Reads, appVars, queueVars
<1>3. /\ StreamSound(p, s, current_user_) /\ TokensSound(worker_queue, s)
      /\ PipelineSound(p, MyQueue)
  BY <1>1 DEF StreamInv
<1>4. /\ IsOpen(s) /\ ~s.handshake_complete /\ s.responses = <<"handshake">> /\ s.requests = <<>>
      /\ s.user = current_user_ /\ p # <<>> /\ ~s.idle
  <2>1. /\ IsOpen(s) /\ OpenSound(p, s, current_user_)
        /\ ~s.handshake_complete /\ s.responses = <<"handshake">> /\ s.requests = <<>>
    BY <1>1, <1>2, <1>3, ResponseFacts
  <2> QED
    BY <2>1 DEF OpenSound
<1>5. /\ p \in Seq(Batch) /\ Len(p) \in Nat
      /\ \A i \in 1..Len(p) : p[i] \in Batch /\ p[i].write[1] = current_user_
  BY <1>1, PipelineFacts
<1> HIDE DEF s, p
<1>6. /\ read \in Stream /\ IsOpen(read) /\ read.handshake_complete
      /\ read.state = s.state /\ read.user = s.user /\ read.asked = s.asked
      /\ read.idle = s.idle /\ read.requests = <<>> /\ read.responses = <<>>
  <2>1. Tail(s.responses) = <<>> /\ <<>> \in Seq(Response)
    BY <1>4
  <2>2. read = [s EXCEPT !.responses = <<>>, !.handshake_complete = TRUE]
    BY <1>1, <2>1 DEF Read, Stream
  <2> QED
    BY <1>1, <1>4, <2>1, <2>2 DEF Stream, IsOpen
<1> HIDE DEF read
<1>7. /\ write_stream_' \in Stream
      /\ write_stream_'.state = s.state /\ write_stream_'.user = current_user_
      /\ write_stream_'.handshake_complete
      /\ write_stream_'.asked = s.asked /\ write_stream_'.responses = <<>>
      /\ write_stream_'.requests = p
      /\ ~write_stream_'.idle
  <2>1. /\ write_stream_' \in Stream
        /\ write_stream_'.state = read.state /\ write_stream_'.user = read.user
        /\ write_stream_'.handshake_complete = read.handshake_complete
        /\ write_stream_'.asked = read.asked /\ write_stream_'.responses = read.responses
        /\ write_stream_'.requests = read.requests \o p
        /\ write_stream_'.idle => read.idle
    <3> DEFINE sent == Send(read, p)
    <3>1. /\ sent \in Stream
          /\ sent.state = read.state /\ sent.user = read.user
          /\ sent.handshake_complete = read.handshake_complete
          /\ sent.asked = read.asked /\ sent.responses = read.responses
          /\ sent.requests = read.requests \o p
          /\ sent.idle => read.idle
      BY <1>5, <1>6, SendFacts
    <3>2. write_stream_' = sent
      BY <1>2
    <3> HIDE DEF sent
    <3> QED
      BY <3>1, <3>2
  <2>2. <<>> \o p = p
    BY <1>5
  <2> QED
    BY <1>4, <1>6, <2>1, <2>2
<1>8. /\ TasksInv' /\ worker_queue' \in Seq(Task) /\ \A u \in Users : Stored(u)' = Stored(u)
  BY <1>1, <1>2, TasksStay DEF queueVars
<1>9. ResultsOf(write_stream_') = ResultsOf(s)
  <2>1. ResultsOf(write_stream_') = 0
    BY <1>7, NoResults
  <2>2. \A i \in DOMAIN s.responses : s.responses[i] # "result"
    BY <1>4
  <2>3. ResultsOf(s) = 0
    BY <2>2, NoResults
  <2> QED
    BY <2>1, <2>3
<1>10. DiskInv' /\ TruthInv' /\ Unseen
  BY <1>1, <1>2, <1>8, <1>9, QuietStep DEF s
<1>11. Typed'
  BY <1>1, <1>2, <1>7, <1>8 DEF Typed, queueVars, answerVars
<1>12. StreamSound(p, write_stream_', current_user_)
  <2>1. 0 \in 0..Len(p) /\ Answered(p, write_stream_', 0)
    BY <1>5, <1>7 DEF Answered
  <2>2. IsOpen(write_stream_') /\ OpenSound(p, write_stream_', current_user_)
    BY <1>4, <1>5, <1>7, <2>1 DEF OpenSound, IsOpen
  <2> QED
    BY <2>2 DEF StreamSound, IsOpen
<1>13. TokensSound(worker_queue', write_stream_')
  BY <1>2, <1>3, <1>7 DEF TokensSound
<1>14. StreamInv'
  BY <1>1, <1>2, <1>3, <1>4, <1>7, <1>12, <1>13 DEF StreamInv, MyQueue, queueVars, IsStarted, IsOpen
<1> QED
  BY <1>8, <1>10, <1>11, <1>14 DEF WritesInv

\* The first batch is done with, and s is the stream from then on.
LEMMA SettleStep ==
    ASSUME WritesAssumption, Typed, TasksInv, DiskInv, StreamInv, NEW status, NEW s \in Stream,
           write_pipeline_ # <<>>, Settle(status, s),
           StreamSound(Tail(write_pipeline_), s, current_user_),
           TokensSound(worker_queue', s),
           \A u \in Users : Stored(u)' = Stored(u)
    PROVE  /\ DiskInv' /\ StreamInv'
           /\ mutation_queue' \in [Users -> Seq(Batch)] /\ write_stream_' \in Stream
           /\ mutation_callbacks_' \subseteq mutation_callbacks_
           /\ current_user_' = current_user_ /\ next_batch_id_' = next_batch_id_
           /\ \A u \in Users :
                 Settled(u)' = IF u = current_user_ THEN Settled(u) + 1 ELSE Settled(u)
           /\ \A a \in answers' : \/ a \in answers
                                  \/ a = <<<<current_user_, Settled(current_user_) + 1>>, status>>
           /\ <<current_user_, Settled(current_user_) + 1>> \in Writes
           /\ ResultsOf(write_stream_') = ResultsOf(s)
<1> DEFINE p == write_pipeline_
           q == MyQueue
           c == current_user_
           r == Filled(Tail(p), s, Tail(q))
<1>1. /\ p \in Seq(Batch) /\ Len(p) \in Nat /\ q \in Seq(Batch) /\ Len(q) \in Nat
      /\ Len(p) <= Len(q) /\ Ascending(q)
      /\ \A i \in 1..Len(p) : p[i] = q[i]
  BY PipelineFacts
<1>2. /\ Len(p) > 0 /\ Len(q) > 0 /\ q # <<>> /\ Head(p) = q[1]
  BY <1>1
<1>3. Without(q, Head(p)) = Tail(q)
  BY <1>1, <1>2, WithoutFirst
<1>4. /\ NotifyUser(q[1].id, status)
      /\ mutation_queue' = [mutation_queue EXCEPT ![c] = Tail(q)]
      /\ write_pipeline_' = r.pipeline /\ write_stream_' = r.stream
      /\ current_user_' = c /\ next_batch_id_' = next_batch_id_
  BY <1>2, <1>3 DEF Settle, Become
<1>5. /\ DiskInv' /\ mutation_queue' \in [Users -> Seq(Batch)]
      /\ mutation_callbacks_' \subseteq mutation_callbacks_
      /\ \A u \in Users : Settled(u)' = IF u = c THEN Settled(u) + 1 ELSE Settled(u)
      /\ q[1].write \in Writes /\ q[1].write = <<c, Settled(c) + 1>>
      /\ \A a \in answers' : a \in answers \/ a = <<q[1].write, status>>
  BY <1>2, <1>4, BatchSettled
<1>6. c \in Users /\ mutation_queue \in [Users -> Seq(Batch)]
  BY DEF Typed
<1>7. mutation_queue'[c] = Tail(q) /\ MyQueue' = Tail(q)
  BY <1>4, <1>6 DEF MyQueue
<1>8. /\ Tail(q) \in Seq(Batch) /\ Len(Tail(q)) = Len(q) - 1
      /\ \A i \in 1..(Len(q) - 1) : Tail(q)[i] = q[i + 1]
      /\ Tail(p) \in Seq(Batch) /\ Len(Tail(p)) = Len(p) - 1
      /\ \A i \in 1..(Len(p) - 1) : Tail(p)[i] = p[i + 1]
  BY <1>1, <1>2
<1>9. Ascending(Tail(q)) /\ \A i \in 1..Len(Tail(q)) : Tail(q)[i].write[1] = c
  <2>1. \A u \in Users : /\ Ascending(mutation_queue'[u])
                         /\ \A i \in 1..Len(mutation_queue'[u]) : mutation_queue'[u][i].write[1] = u
    BY <1>5 DEF DiskInv, QueueSound, Ascending
  <2> QED
    BY <1>6, <1>7, <2>1
<1>10. PipelineSound(Tail(p), Tail(q))
  <2>1. PipelineSound(p, q)
    BY DEF StreamInv
  <2>2. Len(p) <= MaxPendingWrites /\ MaxPendingWrites \in Nat
    BY <2>1 DEF PipelineSound, WritesAssumption
  <2>3. \A i \in 1..(Len(p) - 1) : i \in 1..(Len(q) - 1) /\ i + 1 \in 1..Len(p)
    BY <1>1
  <2> HIDE DEF p, q
  <2>4. Len(Tail(p)) <= Len(Tail(q)) /\ Len(Tail(p)) <= MaxPendingWrites
    BY <1>1, <1>8, <2>2
  <2>5. \A i \in 1..Len(Tail(p)) : Tail(p)[i] = Tail(q)[i]
    BY <1>1, <1>8, <2>3
  <2> QED
    BY <1>8, <2>4, <2>5 DEF PipelineSound
<1> HIDE DEF p, q
<1>11. /\ PipelineSound(r.pipeline, Tail(q))
       /\ r.stream \in Stream
       /\ StreamSound(r.pipeline, r.stream, c)
       /\ r.pipeline # <<>> => IsStarted(r.stream)
       /\ Starts(s, r.stream)
       /\ r.stream.responses = s.responses
  BY <1>8, <1>9, <1>10, FilledFacts DEF p
<1> HIDE DEF r
<1>12. TokensSound(worker_queue', write_stream_')
  BY <1>4, <1>11, StartsTokens
<1>13. StreamInv'
  BY <1>4, <1>7, <1>11, <1>12 DEF StreamInv
<1>14. ResultsOf(write_stream_') = ResultsOf(s)
  BY <1>4, <1>11 DEF ResultsOf
<1> QED
  BY <1>4, <1>5, <1>11, <1>13, <1>14

\* WriteOrder sees a confirmation, a refusal, a write applied.
ConfirmSeen ==
    /\ current_user_' = current_user_ /\ doc' = doc
    /\ Results > 0 /\ Results' = Results - 1
    /\ \A u \in Users :
          /\ Stored(u)' = Stored(u)
          /\ Settled(u)' = IF u = current_user_ THEN Settled(u) + 1 ELSE Settled(u)

RefuseSeen ==
    /\ current_user_' = current_user_ /\ doc' = doc
    /\ Results = 0 /\ Results' = 0
    /\ Settled(current_user_) < Stored(current_user_)
    /\ <<current_user_, Settled(current_user_) + 1>> \in Refused
    /\ \A u \in Users :
          /\ Stored(u)' = Stored(u)
          /\ Settled(u)' = IF u = current_user_ THEN Settled(u) + 1 ELSE Settled(u)

ApplySeen ==
    LET position == Settled(current_user_) + Results
    IN  /\ current_user_' = current_user_
        /\ position < Stored(current_user_)
        /\ <<current_user_, position + 1>> \notin Refused
        /\ Results' = Results + 1
        /\ doc' = [doc EXCEPT ![current_user_] = position + 1]
        /\ \A u \in Users : Stored(u)' = Stored(u) /\ Settled(u)' = Settled(u)

\* The first result, and the first batch with it, are taken away.
LEMMA AnsweredTail ==
    ASSUME NEW pipeline \in Seq(Batch), NEW s \in Stream, NEW t, NEW k \in 1..Len(pipeline),
           Answered(pipeline, s, k),
           t.requests = s.requests, t.responses = Tail(s.responses)
    PROVE  k - 1 \in 0..Len(Tail(pipeline)) /\ Answered(Tail(pipeline), t, k - 1)
<1> DEFINE l == Len(pipeline)
           rest == Tail(pipeline)
           resp == s.responses
           n == Len(resp)
           reqs == s.requests
<1>1. l \in Nat \ {0} /\ k \in 1..l /\ Len(rest) = l - 1
  OBVIOUS
<1>2. \A i \in 1..(l - 1) : rest[i] = pipeline[i + 1]
  OBVIOUS
<1>3. resp \in Seq(Response) /\ n \in Nat
  BY StreamFacts
<1>4. /\ \A i \in 1..k : resp[i] = "result"
      /\ \/ /\ n = k
            /\ Len(reqs) = l - k
            /\ \A i \in 1..Len(reqs) : reqs[i] = pipeline[k + i]
         \/ /\ n = k + 1
            /\ resp[k + 1] = "permanent_error"
            /\ k < l /\ pipeline[k + 1].write \in Refused
  BY DEF Answered
<1>11. n = k \/ n = k + 1
  BY <1>4
<1>5. n > 0
  BY <1>1, <1>11
<1>6. Len(t.responses) = n - 1 /\ \A i \in 1..(n - 1) : t.responses[i] = resp[i + 1]
  BY <1>3, <1>5
<1> HIDE DEF l, rest, resp, n
<1>7. k - 1 \in 0..Len(rest)
  BY <1>1
<1>8. \A i \in 1..(k - 1) : t.responses[i] = "result"
  <2> SUFFICES ASSUME NEW i \in 1..(k - 1) PROVE t.responses[i] = "result"
    OBVIOUS
  <2>1. i + 1 \in 1..k /\ i \in 1..(n - 1)
    BY <1>1, <1>3, <1>4
  <2> QED
    BY <1>4, <1>6, <2>1
<1>9. CASE /\ n = k
           /\ Len(reqs) = l - k
           /\ \A i \in 1..Len(reqs) : reqs[i] = pipeline[k + i]
  <2>1. Len(t.responses) = k - 1 /\ Len(t.requests) = Len(rest) - (k - 1)
    BY <1>1, <1>6, <1>9
  <2>2. \A i \in 1..Len(t.requests) : t.requests[i] = rest[(k - 1) + i]
    <3> SUFFICES ASSUME NEW i \in 1..Len(reqs) PROVE reqs[i] = rest[(k - 1) + i]
      OBVIOUS
    <3>1. (k - 1) + i \in 1..(l - 1) /\ ((k - 1) + i) + 1 = k + i
      BY <1>1, <1>9
    <3> QED
      BY <1>2, <1>9, <3>1
  <2> QED
    BY <1>7, <1>8, <2>1, <2>2 DEF Answered, rest
<1>10. CASE /\ n = k + 1
            /\ resp[k + 1] = "permanent_error"
            /\ k < l /\ pipeline[k + 1].write \in Refused
  <2>1. /\ Len(t.responses) = (k - 1) + 1 /\ k \in 1..(n - 1) /\ k \in 1..(l - 1) /\ k - 1 < Len(rest)
        /\ (k - 1) + 1 = k
    BY <1>1, <1>6, <1>10
  <2>2. t.responses[k] = "permanent_error" /\ rest[k].write \in Refused
    BY <1>2, <1>6, <1>10, <2>1
  <2> QED
    BY <1>7, <1>8, <2>1, <2>2 DEF Answered, rest
<1> QED
  BY <1>4, <1>7, <1>9, <1>10 DEF rest

LEMMA MutationResultStep ==
    ASSUME WritesAssumption, WritesInv, MutationResult
    PROVE  WritesInv' /\ ConfirmSeen
<1> DEFINE s == write_stream_
           p == write_pipeline_
           c == current_user_
           read == Read(s)
<1>1. /\ Typed /\ TasksInv /\ DiskInv /\ TruthInv /\ StreamInv /\ worker_queue \in Seq(Task)
      /\ s \in Stream /\ c \in Users
  BY DEF WritesInv, Typed
<1>2. /\ s.responses # <<>> /\ Head(s.responses) = "result"
      /\ Settle("ok", read)
      /\ worker_queue' = worker_queue
      /\ auth_user' = auth_user /\ written' = written /\ trouble' = trouble
      /\ doc' = doc
  BY DEF MutationResult, Reads, appVars
<1>3. /\ StreamSound(p, s, c) /\ TokensSound(worker_queue, s)
  BY <1>1 DEF StreamInv
<1>4. /\ IsOpen(s) /\ OpenSound(p, s, c) /\ s.handshake_complete
      /\ s.responses[1] = "result" /\ Len(s.responses) \in Nat \ {0}
  BY <1>1, <1>2, <1>3, ResponseFacts
<1>5. PICK k \in 0..Len(p) : Answered(p, s, k)
  BY <1>4 DEF OpenSound
<1>6. /\ p \in Seq(Batch) /\ Len(p) \in Nat
  BY <1>1, PipelineFacts
<1>7. k \in 1..Len(p) /\ p # <<>>
  <2>1. k # 0
    BY <1>4, <1>5 DEF Answered
  <2> QED
    BY <1>6, <2>1
<1>8. /\ read \in Stream
      /\ read.state = s.state /\ read.user = s.user /\ read.asked = s.asked
      /\ read.handshake_complete = s.handshake_complete
      /\ read.idle = s.idle /\ read.requests = s.requests /\ read.responses = Tail(s.responses)
  <2>1. Tail(s.responses) \in Seq(Response)
    BY <1>1, <1>2, StreamFacts
  <2> QED
    BY <1>1, <2>1 DEF Read, Stream
<1> HIDE DEF s, p, read
<1>9. k - 1 \in 0..Len(Tail(p)) /\ Answered(Tail(p), read, k - 1)
  BY <1>1, <1>5, <1>6, <1>7, <1>8, AnsweredTail
<1>10. StreamSound(Tail(p), read, c)
  <2>1. /\ s.user = c /\ ~s.idle
        /\ \A i \in 1..Len(s.requests) : s.requests[i] \in Batch /\ s.requests[i].write[1] = c
    BY <1>4, <1>7 DEF OpenSound
  <2>2. OpenSound(Tail(p), read, c)
    BY <1>4, <1>8, <1>9, <2>1 DEF OpenSound
  <2>3. IsOpen(read) /\ read.state = "Open"
    BY <1>4, <1>8 DEF IsOpen
  <2> QED
    BY <2>2, <2>3 DEF StreamSound
<1>11. TokensSound(worker_queue', read)
  BY <1>2, <1>3, <1>8 DEF TokensSound
<1>12. current_user_' = c
  BY <1>2 DEF Settle
<1>13. /\ TasksInv' /\ worker_queue' \in Seq(Task) /\ \A u \in Users : Stored(u)' = Stored(u)
  BY <1>1, <1>2, <1>12, TasksStay
<1>14. /\ DiskInv' /\ StreamInv'
       /\ mutation_queue' \in [Users -> Seq(Batch)] /\ write_stream_' \in Stream
       /\ mutation_callbacks_' \subseteq mutation_callbacks_
       /\ next_batch_id_' = next_batch_id_
       /\ \A u \in Users : Settled(u)' = IF u = c THEN Settled(u) + 1 ELSE Settled(u)
       /\ \A a \in answers' : a \in answers \/ a = <<<<c, Settled(c) + 1>>, "ok">>
       /\ <<c, Settled(c) + 1>> \in Writes
       /\ ResultsOf(write_stream_') = ResultsOf(read)
  BY <1>1, <1>2, <1>7, <1>8, <1>10, <1>11, <1>13, SettleStep DEF p
<1>15. /\ ResultsOf(s) = k /\ ResultsOf(read) = k - 1
       /\ Results = k /\ Results' = k - 1
  <2>1. ResultsOf(s) = k
    BY <1>1, <1>5, <1>7, CountResults
  <2>2. ResultsOf(read) = k - 1
    BY <1>7, <1>8, <1>9, CountResults
  <2>3. Results = ResultsOf(s) /\ Results' = ResultsOf(write_stream_')
    BY DEF Results, ResultsOf, s
  <2> QED
    BY <1>14, <2>1, <2>2, <2>3
<1>16. Settled(c) \in Nat /\ doc[c] = Settled(c) + k
  BY <1>1, <1>7, <1>15, DiskFacts DEF TruthInv, DocsSound
<1>17. TruthInv'
  <2>1. AnswersSound'
    <3> SUFFICES ASSUME NEW a \in answers'
                 PROVE  /\ a[1][2] <= Settled(a[1][1])'
                        /\ a[2] = "ok" => a[1][2] <= doc[a[1][1]]
                        /\ a[2] = "error" => a[1] \in Refused
      BY <1>2 DEF AnswersSound
    <3>1. CASE a \in answers
      <4>1. a[1] \in Writes
        BY <1>1, <3>1 DEF Typed
      <4>2. a[1][1] \in Users /\ a[1][2] \in Nat
        BY <4>1, WritesFacts
      <4>3. /\ a[1][2] <= Settled(a[1][1])
            /\ a[2] = "ok" => a[1][2] <= doc[a[1][1]]
            /\ a[2] = "error" => a[1] \in Refused
        BY <1>1, <3>1 DEF TruthInv, AnswersSound
      <4>4. Settled(a[1][1])' \in {Settled(a[1][1]), Settled(a[1][1]) + 1}
        BY <1>14, <4>2
      <4>5. Settled(a[1][1]) \in Nat
        BY <1>1, <4>2, DiskFacts
      <4> QED
        BY <4>2, <4>3, <4>4, <4>5
    <3>2. CASE a = <<<<c, Settled(c) + 1>>, "ok">>
      <4>1. a[1][1] = c /\ a[1][2] = Settled(c) + 1 /\ a[2] = "ok"
        BY <3>2
      <4>2. \A u \in Users : u = c => Settled(u)' = Settled(u) + 1
        BY <1>14
      <4>3. Settled(a[1][1])' = Settled(c) + 1
        BY <1>1, <4>1, <4>2
      <4> QED
        BY <1>7, <1>16, <4>1, <4>3
    <3> QED
      BY <1>14, <3>1, <3>2
  <2>2. \A u \in Users : doc'[u] <= Stored(u)'
    BY <1>1, <1>2, <1>13 DEF TruthInv, DocsSound
  <2>3. doc'[current_user_'] = Settled(current_user_)' + Results'
    <3>1. Settled(current_user_)' = Settled(c) + 1
      <4>1. \A u \in Users : u = c => Settled(u)' = Settled(u) + 1
        BY <1>14
      <4>2. \A u \in Users : u = current_user_' => Settled(u)' = Settled(current_user_)'
        BY DEF Settled, Stored, Waiting
      <4> QED
        BY <1>1, <1>12, <4>1, <4>2
    <3> QED
      BY <1>2, <1>7, <1>12, <1>15, <1>16, <3>1
  <2> QED
    BY <2>1, <2>2, <2>3 DEF TruthInv, DocsSound
<1>18. Typed'
  <2>1. answers' \subseteq Writes \X {"ok", "error"}
    <3>1. answers \subseteq Writes \X {"ok", "error"}
      BY <1>1 DEF Typed
    <3>2. <<<<c, Settled(c) + 1>>, "ok">> \in Writes \X {"ok", "error"}
      BY <1>14
    <3> QED
      BY <1>14, <3>1, <3>2
  <2>2. mutation_callbacks_' \subseteq [user : Users, id : Nat, write : Writes]
    BY <1>1, <1>14 DEF Typed
  <2> QED
    BY <1>1, <1>2, <1>12, <1>13, <1>14, <2>1, <2>2 DEF Typed
<1>19. ConfirmSeen
  BY <1>2, <1>7, <1>12, <1>13, <1>14, <1>15 DEF ConfirmSeen
<1> QED
  BY <1>13, <1>14, <1>17, <1>18, <1>19 DEF WritesInv

LEMMA WriteErrorStep ==
    ASSUME WritesAssumption, WritesInv, WriteError
    PROVE  WritesInv' /\ RefuseSeen
<1> DEFINE s == write_stream_
           p == write_pipeline_
           c == current_user_
           next == InhibitBackoff(Close(s, "Error"))
<1>1. /\ Typed /\ TasksInv /\ DiskInv /\ TruthInv /\ StreamInv /\ worker_queue \in Seq(Task)
      /\ s \in Stream /\ c \in Users
  BY DEF WritesInv, Typed
<1>2. /\ s.responses # <<>> /\ Head(s.responses) = "permanent_error"
      /\ Settle("error", next)
      /\ worker_queue' = Outdated(worker_queue)
      /\ auth_user' = auth_user /\ written' = written /\ trouble' = trouble
      /\ doc' = doc
  BY DEF WriteError, Reads, appVars
<1>3. /\ StreamSound(p, s, c) /\ TokensSound(worker_queue, s)
  BY <1>1 DEF StreamInv
<1>4. /\ OpenSound(p, s, c) /\ s.handshake_complete
      /\ s.responses[1] = "permanent_error" /\ Len(s.responses) \in Nat \ {0}
  BY <1>1, <1>2, <1>3, ResponseFacts
<1>5. PICK k \in 0..Len(p) : Answered(p, s, k)
  BY <1>4 DEF OpenSound
<1>6. /\ p \in Seq(Batch) /\ Len(p) \in Nat
      /\ \A i \in 1..Len(p) : p[i].write = <<c, Settled(c) + i>>
      /\ Settled(c) \in Nat /\ Stored(c) = Settled(c) + Len(MyQueue)
      /\ Len(p) <= Len(MyQueue) /\ Len(MyQueue) \in Nat
  BY <1>1, PipelineFacts
<1>7. /\ k = 0 /\ p # <<>> /\ Len(p) > 0 /\ p[1].write \in Refused
  <2>1. ~(1 <= k)
    BY <1>4, <1>5 DEF Answered
  <2>2. k = 0
    BY <1>6, <2>1
  <2>3. Len(s.responses) # k
    BY <1>4, <2>2
  <2>4. k < Len(p) /\ p[k + 1].write \in Refused
    BY <1>5, <2>3 DEF Answered
  <2> QED
    BY <1>6, <2>2, <2>4
<1>8. Ended(next)
  BY <1>1, ErrorEnded, EndedFacts
<1> HIDE DEF s, p, next
<1>9. /\ next \in Stream /\ StreamSound(Tail(p), next, c) /\ ResultsOf(next) = 0
      /\ next.state # "Starting" /\ TRUE \notin next.asked
  BY <1>8, EndedFacts
<1>10. TokensSound(worker_queue', next)
  BY <1>1, <1>2, <1>9, OutdatedTokens
<1>11. current_user_' = c
  BY <1>2 DEF Settle
<1>12. /\ TasksInv' /\ worker_queue' \in Seq(Task) /\ \A u \in Users : Stored(u)' = Stored(u)
  BY <1>1, <1>2, <1>11, TasksStay
<1>13. /\ DiskInv' /\ StreamInv'
       /\ mutation_queue' \in [Users -> Seq(Batch)] /\ write_stream_' \in Stream
       /\ mutation_callbacks_' \subseteq mutation_callbacks_
       /\ next_batch_id_' = next_batch_id_
       /\ \A u \in Users : Settled(u)' = IF u = c THEN Settled(u) + 1 ELSE Settled(u)
       /\ \A a \in answers' : a \in answers \/ a = <<<<c, Settled(c) + 1>>, "error">>
       /\ <<c, Settled(c) + 1>> \in Writes
       /\ ResultsOf(write_stream_') = ResultsOf(next)
  BY <1>1, <1>2, <1>7, <1>9, <1>10, <1>12, SettleStep DEF p
<1>14. Results = 0 /\ Results' = 0
  <2>1. ResultsOf(s) = k
    BY <1>1, <1>5, <1>7, CountResults
  <2>2. Results = ResultsOf(s) /\ Results' = ResultsOf(write_stream_')
    BY DEF Results, ResultsOf, s
  <2> QED
    BY <1>7, <1>9, <1>13, <2>1, <2>2
<1>15. <<c, Settled(c) + 1>> \in Refused
  <2>1. p[1].write = <<c, Settled(c) + 1>>
    BY <1>6, <1>7
  <2> QED
    BY <1>7, <2>1
<1>16. TruthInv'
  <2>1. AnswersSound'
    <3> SUFFICES ASSUME NEW a \in answers'
                 PROVE  /\ a[1][2] <= Settled(a[1][1])'
                        /\ a[2] = "ok" => a[1][2] <= doc[a[1][1]]
                        /\ a[2] = "error" => a[1] \in Refused
      BY <1>2 DEF AnswersSound
    <3>1. CASE a \in answers
      <4>1. a[1] \in Writes
        BY <1>1, <3>1 DEF Typed
      <4>2. a[1][1] \in Users /\ a[1][2] \in Nat
        BY <4>1, WritesFacts
      <4>3. /\ a[1][2] <= Settled(a[1][1])
            /\ a[2] = "ok" => a[1][2] <= doc[a[1][1]]
            /\ a[2] = "error" => a[1] \in Refused
        BY <1>1, <3>1 DEF TruthInv, AnswersSound
      <4>4. Settled(a[1][1])' \in {Settled(a[1][1]), Settled(a[1][1]) + 1}
        BY <1>13, <4>2
      <4>5. Settled(a[1][1]) \in Nat
        BY <1>1, <4>2, DiskFacts
      <4> QED
        BY <4>2, <4>3, <4>4, <4>5
    <3>2. CASE a = <<<<c, Settled(c) + 1>>, "error">>
      <4>1. a[1] = <<c, Settled(c) + 1>> /\ a[2] = "error"
        BY <3>2
      <4>2. a[1][1] = c /\ a[1][2] = Settled(c) + 1
        BY <4>1
      <4>3. \A u \in Users : u = c => Settled(u)' = Settled(u) + 1
        BY <1>13
      <4>4. Settled(a[1][1])' = Settled(c) + 1
        BY <1>1, <4>2, <4>3
      <4> QED
        BY <1>6, <1>15, <4>1, <4>2, <4>4
    <3> QED
      BY <1>13, <3>1, <3>2
  <2>2. \A u \in Users : doc'[u] <= Stored(u)'
    BY <1>1, <1>2, <1>12 DEF TruthInv, DocsSound
  <2> QED
    BY <1>14, <2>1, <2>2 DEF TruthInv, DocsSound
<1>17. Typed'
  <2>1. answers' \subseteq Writes \X {"ok", "error"}
    <3>1. answers \subseteq Writes \X {"ok", "error"}
      BY <1>1 DEF Typed
    <3>2. <<<<c, Settled(c) + 1>>, "error">> \in Writes \X {"ok", "error"}
      BY <1>13
    <3> QED
      BY <1>13, <3>1, <3>2
  <2>2. mutation_callbacks_' \subseteq [user : Users, id : Nat, write : Writes]
    BY <1>1, <1>13 DEF Typed
  <2> QED
    BY <1>1, <1>2, <1>11, <1>12, <1>13, <2>1, <2>2 DEF Typed
<1>18. RefuseSeen
  <2>1. Settled(c) < Stored(c)
    BY <1>6, <1>7
  <2> QED
    BY <1>2, <1>11, <1>12, <1>13, <1>14, <1>15, <2>1 DEF RefuseSeen
<1> QED
  BY <1>12, <1>13, <1>16, <1>17, <1>18 DEF WritesInv

\* The stream once the server has answered: requests are left.
AnsweredWith(s, requests, message) ==
    [s EXCEPT !.requests = requests, !.responses = Append(@, message)]

AnsweredBy(t, s, requests, message) ==
    /\ t \in Stream
    /\ t.state = s.state /\ t.user = s.user /\ t.asked = s.asked
    /\ t.handshake_complete = s.handshake_complete /\ t.idle = s.idle
    /\ t.requests = requests /\ t.responses \in Seq(Response)
    /\ Len(t.responses) = Len(s.responses) + 1
    /\ t.responses[Len(s.responses) + 1] = message
    /\ \A i \in 1..Len(s.responses) : t.responses[i] = s.responses[i]

LEMMA AnsweredStream ==
    ASSUME NEW s \in Stream, NEW requests \in Seq(Message), NEW message \in Response,
           NEW t, t = AnsweredWith(s, requests, message)
    PROVE  AnsweredBy(t, s, requests, message)
<1> DEFINE more == Append(s.responses, message)
<1>1. s.responses \in Seq(Response)
  BY StreamFacts
<1>2. /\ more \in Seq(Response)
      /\ Len(more) = Len(s.responses) + 1 /\ more[Len(s.responses) + 1] = message
      /\ \A i \in 1..Len(s.responses) : more[i] = s.responses[i]
  BY <1>1
<1>3. t = [s EXCEPT !.requests = requests, !.responses = more]
  BY DEF AnsweredWith
<1> HIDE DEF more
<1>4. /\ t \in Stream
      /\ t.state = s.state /\ t.user = s.user /\ t.asked = s.asked
      /\ t.handshake_complete = s.handshake_complete /\ t.idle = s.idle
      /\ t.requests = requests /\ t.responses = more
  BY <1>2, <1>3 DEF Stream
<1> QED
  BY <1>2, <1>4 DEF AnsweredBy

\* What follows from the server's part: the stream has changed, and perhaps doc.
LEMMA ServerStep ==
    ASSUME WritesInv, UNCHANGED <<appVars, worker_queue, queueVars, write_pipeline_, answerVars, trouble>>,
           write_stream_' \in Stream, doc' \in [Users -> Nat],
           write_stream_'.state = write_stream_.state, write_stream_'.asked = write_stream_.asked,
           StreamSound(write_pipeline_, write_stream_', current_user_)
    PROVE  /\ Typed' /\ TasksInv' /\ DiskInv' /\ StreamInv'
           /\ \A u \in Users : Stored(u)' = Stored(u) /\ Settled(u)' = Settled(u)
<1>1. /\ Typed /\ TasksInv /\ DiskInv /\ StreamInv
      /\ auth_user' = auth_user /\ written' = written /\ trouble' = trouble
      /\ worker_queue' = worker_queue /\ mutation_queue' = mutation_queue
      /\ current_user_' = current_user_ /\ next_batch_id_' = next_batch_id_
      /\ mutation_callbacks_' = mutation_callbacks_ /\ answers' = answers
      /\ write_pipeline_' = write_pipeline_
  BY DEF WritesInv, appVars, queueVars, answerVars
<1>2. /\ TasksInv' /\ worker_queue' \in Seq(Task) /\ \A u \in Users : Stored(u)' = Stored(u)
  BY <1>1, TasksStay
<1>3. DiskInv' /\ \A u \in Users : Settled(u)' = Settled(u)
  BY <1>1, <1>2, DiskStays
<1>4. Typed'
  BY <1>1, <1>2 DEF Typed
<1>5. TokensSound(worker_queue', write_stream_')
  BY <1>1 DEF StreamInv, TokensSound
<1>6. StreamInv'
  BY <1>1, <1>5 DEF StreamInv, MyQueue, IsStarted
<1> QED
  BY <1>2, <1>3, <1>4, <1>6

LEMMA ServerAnswersStep ==
    ASSUME WritesAssumption, WritesInv, ServerAnswers
    PROVE  WritesInv' /\ (Unseen \/ ApplySeen)
<1> DEFINE s == write_stream_
           p == write_pipeline_
           c == current_user_
           request == Head(s.requests)
           answered(message, rest) == [s EXCEPT !.requests = rest, !.responses = Append(@, message)]
<1>1. /\ Typed /\ TasksInv /\ DiskInv /\ TruthInv /\ StreamInv
      /\ s \in Stream /\ c \in Users /\ doc \in [Users -> Nat]
  BY DEF WritesInv, Typed
<1>2. /\ s.requests # <<>> /\ "permanent_error" \notin ToSet(s.responses)
      /\ UNCHANGED <<appVars, worker_queue, queueVars, write_pipeline_, answerVars, trouble>>
      /\ current_user_' = c /\ answers' = answers
  BY DEF ServerAnswers, queueVars, answerVars
<1>3. /\ s.requests \in Seq(Message) /\ s.responses \in Seq(Response)
      /\ Len(s.requests) \in Nat \ {0} /\ Len(s.responses) \in Nat
      /\ request = s.requests[1] /\ Tail(s.requests) \in Seq(Message)
      /\ Len(Tail(s.requests)) = Len(s.requests) - 1
      /\ \A i \in 1..(Len(s.requests) - 1) : Tail(s.requests)[i] = s.requests[i + 1]
  <2>1. s.requests \in Seq(Message) /\ s.responses \in Seq(Response)
    BY <1>1, StreamFacts
  <2> QED
    BY <1>2, <2>1
<1>4. IsOpen(s) /\ OpenSound(p, s, c) /\ s.state = "Open"
  BY <1>1, <1>2 DEF StreamInv, StreamSound, IsOpen
<1>5. /\ p \in Seq(Batch) /\ Len(p) \in Nat
      /\ \A i \in 1..Len(p) : p[i].write = <<c, Settled(c) + i>> /\ p[i].id > 0
      /\ Settled(c) \in Nat /\ Stored(c) = Settled(c) + Len(MyQueue)
      /\ Len(p) <= Len(MyQueue) /\ Len(MyQueue) \in Nat
  BY <1>1, PipelineFacts
<1>6. Handshake.id = 0
  BY DEF Handshake
<1>7. \A i \in 1..Len(s.responses) : s.responses[i] # "permanent_error"
  BY <1>2, <1>3 DEF ToSet
<1>8. "handshake" \in Response /\ "result" \in Response /\ "permanent_error" \in Response
      /\ <<>> \in Seq(Message)
  BY DEF Response
<1>9. ASSUME ~s.handshake_complete PROVE WritesInv' /\ Unseen
  <2>1. /\ p # <<>> /\ ~s.idle /\ s.requests = <<Handshake>> /\ s.responses = <<>>
        /\ s.user = c
    BY <1>2, <1>4, <1>9 DEF OpenSound
  <2>2. request = Handshake /\ Tail(s.requests) = <<>>
    BY <2>1
  <2>3. write_stream_' = answered("handshake", <<>>) /\ doc' = doc
    BY <2>2 DEF ServerAnswers
  <2>4. /\ write_stream_' \in Stream
        /\ write_stream_'.state = s.state /\ write_stream_'.user = s.user
        /\ write_stream_'.asked = s.asked
        /\ write_stream_'.handshake_complete = s.handshake_complete /\ write_stream_'.idle = s.idle
        /\ write_stream_'.requests = <<>> /\ write_stream_'.responses \in Seq(Response)
        /\ Len(write_stream_'.responses) = Len(s.responses) + 1
        /\ write_stream_'.responses[Len(s.responses) + 1] = "handshake"
    <3> DEFINE t == write_stream_'
            rest == <<>>
    <3>1. t = AnsweredWith(s, rest, "handshake")
      BY <2>3 DEF AnsweredWith
    <3>2. s \in Stream /\ rest \in Seq(Message) /\ "handshake" \in Response
      BY <1>1, <1>3, <1>8
    <3> HIDE DEF t, s, rest
    <3>3. AnsweredBy(t, s, rest, "handshake")
      BY <3>1, <3>2, AnsweredStream
    <3> USE DEF t, s, rest
    <3> QED
      BY <3>3 DEF AnsweredBy
  <2>5. write_stream_'.responses = <<"handshake">>
    <3>1. Len(s.responses) = 0
      BY <2>1
    <3> QED
      BY <2>4, <3>1
  <2>6. StreamSound(p, write_stream_', c)
    BY <1>4, <1>9, <2>1, <2>4, <2>5 DEF StreamSound, OpenSound, IsOpen
  <2>7. /\ Typed' /\ TasksInv' /\ DiskInv' /\ StreamInv'
        /\ \A u \in Users : Stored(u)' = Stored(u) /\ Settled(u)' = Settled(u)
    BY <1>1, <1>2, <2>3, <2>4, <2>6, ServerStep
  <2>8. Results' = 0 /\ Results = 0
    <3>1. ResultsOf(write_stream_') = 0 /\ ResultsOf(s) = 0
      BY <2>1, <2>5, NoResults
    <3> QED
      BY <3>1 DEF Results, ResultsOf
  <2>9. TruthInv'
    BY <1>1, <1>2, <2>3, <2>7, <2>8, TruthStays
  <2> QED
    BY <1>2, <2>3, <2>7, <2>8, <2>9 DEF WritesInv, Unseen
<1>10. ASSUME s.handshake_complete PROVE WritesInv' /\ (Unseen \/ ApplySeen)
  <2>1. PICK k \in 0..Len(p) : Answered(p, s, k)
    BY <1>4, <1>10 DEF OpenSound
  <2>2. /\ \A i \in 1..k : s.responses[i] = "result"
        /\ Len(s.responses) = k /\ Len(s.requests) = Len(p) - k
        /\ \A i \in 1..Len(s.requests) : s.requests[i] = p[k + i]
    <3>1. ~(Len(s.responses) = k + 1 /\ s.responses[k + 1] = "permanent_error")
      BY <1>3, <1>7, <2>1
    <3> QED
      BY <2>1, <3>1 DEF Answered
  <2>3. /\ k < Len(p) /\ k + 1 \in 1..Len(p) /\ request = p[k + 1]
        /\ request.write = <<c, Settled(c) + (k + 1)>> /\ request # Handshake
    <3>1. k < Len(p) /\ k + 1 \in 1..Len(p)
      BY <1>3, <1>5, <2>2
    <3>2. request = p[k + 1]
      BY <1>3, <2>2
    <3>3. p[k + 1].write = <<c, Settled(c) + (k + 1)>> /\ p[k + 1].id > 0
      BY <1>5, <3>1
    <3> HIDE DEF request
    <3>4. request # Handshake
      BY <1>6, <3>2, <3>3
    <3> QED
      BY <3>1, <3>2, <3>3, <3>4
  <2>4. /\ s.user = c /\ (s.idle => p = <<>>)
        /\ \A i \in 1..Len(s.requests) : s.requests[i] \in Batch /\ s.requests[i].write[1] = c
    BY <1>4, <1>10 DEF OpenSound
  <2>5. ResultsOf(s) = k /\ Results = k
    <3>1. ResultsOf(s) = k
      BY <1>1, <1>5, <2>1, CountResults
    <3> QED
      BY <3>1 DEF Results, ResultsOf
  <2> HIDE DEF request
  <2>6. CASE request.write \in Refused
    <3>1. write_stream_' = answered("permanent_error", <<>>) /\ doc' = doc
      BY <2>3, <2>6 DEF ServerAnswers, request
    <3>2. /\ write_stream_' \in Stream
          /\ write_stream_'.state = s.state /\ write_stream_'.user = s.user
          /\ write_stream_'.asked = s.asked
          /\ write_stream_'.handshake_complete = s.handshake_complete /\ write_stream_'.idle = s.idle
          /\ write_stream_'.requests = <<>>
          /\ Len(write_stream_'.responses) = Len(s.responses) + 1
          /\ write_stream_'.responses[Len(s.responses) + 1] = "permanent_error"
          /\ \A i \in 1..Len(s.responses) : write_stream_'.responses[i] = s.responses[i]
      <4> DEFINE t == write_stream_'
              rest == <<>>
      <4>1. t = AnsweredWith(s, rest, "permanent_error")
        BY <3>1 DEF AnsweredWith
      <4>2. s \in Stream /\ rest \in Seq(Message) /\ "permanent_error" \in Response
        BY <1>1, <1>3, <1>8
      <4> HIDE DEF t, s, rest
      <4>3. AnsweredBy(t, s, rest, "permanent_error")
        BY <4>1, <4>2, AnsweredStream
      <4> USE DEF t, s, rest
      <4> QED
        BY <4>3 DEF AnsweredBy
    <3>3. Answered(p, write_stream_', k)
      BY <2>1, <2>2, <2>3, <2>6, <3>2 DEF Answered
    <3>4. OpenSound(p, write_stream_', c)
      <4>1. Len(write_stream_'.requests) = 0
        BY <3>2
      <4> QED
        BY <1>10, <2>1, <2>4, <3>2, <3>3, <4>1 DEF OpenSound
    <3>5. StreamSound(p, write_stream_', c)
      BY <1>4, <3>2, <3>4 DEF StreamSound, IsOpen
    <3>6. /\ Typed' /\ TasksInv' /\ DiskInv' /\ StreamInv'
          /\ \A u \in Users : Stored(u)' = Stored(u) /\ Settled(u)' = Settled(u)
      BY <1>1, <1>2, <3>1, <3>2, <3>5, ServerStep
    <3>7. Results' = Results
      <4>1. ResultsOf(write_stream_') = k
        BY <1>5, <2>1, <3>2, <3>3, CountResults
      <4> QED
        BY <2>5, <4>1 DEF Results, ResultsOf
    <3>8. TruthInv'
      BY <1>1, <1>2, <3>1, <3>6, <3>7, TruthStays
    <3> QED
      BY <1>2, <3>1, <3>6, <3>7, <3>8 DEF WritesInv, Unseen
  <2>7. CASE request.write \notin Refused
    <3> DEFINE n == Settled(c) + k + 1
    <3>0. /\ request.write = <<c, n>> /\ request.write[1] = c /\ request.write[2] = n
          /\ n \in Nat /\ n <= Stored(c) /\ n = Settled(c) + (k + 1)
      <4>1. n = Settled(c) + (k + 1) /\ n \in Nat /\ n <= Stored(c)
        BY <1>5, <2>3
      <4> QED
        BY <2>3, <4>1
    <3> HIDE DEF n
    <3>1. /\ write_stream_' = answered("result", Tail(s.requests))
          /\ doc' = [doc EXCEPT ![c] = n]
      BY <2>3, <2>7, <3>0 DEF ServerAnswers, request
    <3>2. /\ write_stream_' \in Stream
          /\ write_stream_'.state = s.state /\ write_stream_'.user = s.user
          /\ write_stream_'.asked = s.asked
          /\ write_stream_'.handshake_complete = s.handshake_complete /\ write_stream_'.idle = s.idle
          /\ write_stream_'.requests = Tail(s.requests)
          /\ Len(write_stream_'.responses) = Len(s.responses) + 1
          /\ write_stream_'.responses[Len(s.responses) + 1] = "result"
          /\ \A i \in 1..Len(s.responses) : write_stream_'.responses[i] = s.responses[i]
      <4> DEFINE t == write_stream_'
              rest == Tail(s.requests)
      <4>1. t = AnsweredWith(s, rest, "result")
        BY <3>1 DEF AnsweredWith
      <4>2. s \in Stream /\ rest \in Seq(Message) /\ "result" \in Response
        BY <1>1, <1>3, <1>8
      <4> HIDE DEF t, s, rest
      <4>3. AnsweredBy(t, s, rest, "result")
        BY <4>1, <4>2, AnsweredStream
      <4> USE DEF t, s, rest
      <4> QED
        BY <4>3 DEF AnsweredBy
    <3>3. k + 1 \in 0..Len(p) /\ Answered(p, write_stream_', k + 1)
      <4>1. /\ k + 1 \in 0..Len(p) /\ Len(write_stream_'.responses) = k + 1
            /\ Len(write_stream_'.requests) = Len(p) - (k + 1)
        BY <1>3, <1>5, <2>2, <2>3, <3>2
      <4>2. \A i \in 1..(k + 1) : write_stream_'.responses[i] = "result"
        <5> SUFFICES ASSUME NEW i \in 1..(k + 1) PROVE write_stream_'.responses[i] = "result"
          OBVIOUS
        <5>1. CASE i \in 1..k
          BY <2>2, <3>2, <5>1
        <5>2. CASE i = k + 1
          BY <2>2, <3>2, <5>2
        <5> QED
          BY <2>1, <5>1, <5>2
      <4>3. \A i \in 1..Len(write_stream_'.requests) : write_stream_'.requests[i] = p[(k + 1) + i]
        <5> SUFFICES ASSUME NEW i \in 1..Len(Tail(s.requests))
                     PROVE  Tail(s.requests)[i] = p[(k + 1) + i]
          BY <3>2
        <5>1. i \in 1..(Len(s.requests) - 1) /\ i + 1 \in 1..Len(s.requests) /\ (k + 1) + i = k + (i + 1)
          BY <1>3
        <5> QED
          BY <1>3, <2>2, <5>1
      <4> QED
        BY <4>1, <4>2, <4>3 DEF Answered
    <3>4. OpenSound(p, write_stream_', c)
      <4>1. \A i \in 1..Len(Tail(s.requests)) :
                Tail(s.requests)[i] \in Batch /\ Tail(s.requests)[i].write[1] = c
        <5> SUFFICES ASSUME NEW i \in 1..Len(Tail(s.requests))
                     PROVE  Tail(s.requests)[i] \in Batch /\ Tail(s.requests)[i].write[1] = c
          OBVIOUS
        <5>1. i \in 1..(Len(s.requests) - 1) /\ i + 1 \in 1..Len(s.requests)
          BY <1>3
        <5> QED
          BY <1>3, <2>4, <5>1
      <4> QED
        BY <1>10, <2>4, <3>2, <3>3, <4>1 DEF OpenSound
    <3>5. StreamSound(p, write_stream_', c)
      BY <1>4, <3>2, <3>4 DEF StreamSound, IsOpen
    <3>6. doc' \in [Users -> Nat] /\ \A u \in Users : doc'[u] = IF u = c THEN n ELSE doc[u]
      BY <1>1, <3>0, <3>1
    <3>7. /\ Typed' /\ TasksInv' /\ DiskInv' /\ StreamInv'
          /\ \A u \in Users : Stored(u)' = Stored(u) /\ Settled(u)' = Settled(u)
      BY <1>1, <1>2, <3>2, <3>5, <3>6, ServerStep
    <3>8. Results' = k + 1
      <4>1. ResultsOf(write_stream_') = k + 1
        BY <1>5, <2>1, <3>2, <3>3, CountResults
      <4> QED
        BY <4>1 DEF Results, ResultsOf
    <3>9. TruthInv'
      <4>1. AnswersSound'
        <5> SUFFICES ASSUME NEW a \in answers
                     PROVE  /\ a[1][2] <= Settled(a[1][1])'
                            /\ a[2] = "ok" => a[1][2] <= doc'[a[1][1]]
                            /\ a[2] = "error" => a[1] \in Refused
          BY <1>2 DEF AnswersSound
        <5>1. a[1] \in Writes
          BY <1>1 DEF Typed
        <5>2. a[1][1] \in Users /\ a[1][2] \in Nat
          BY <5>1, WritesFacts
        <5>3. /\ a[1][2] <= Settled(a[1][1])
              /\ a[2] = "ok" => a[1][2] <= doc[a[1][1]]
              /\ a[2] = "error" => a[1] \in Refused
          BY <1>1 DEF TruthInv, AnswersSound
        <5>4. a[1][1] = c => a[1][2] <= doc'[c]
          BY <1>1, <1>5, <3>0, <3>6, <5>2, <5>3
        <5> QED
          BY <3>6, <3>7, <5>2, <5>3, <5>4
      <4>2. \A u \in Users : doc'[u] <= Stored(u)'
        BY <1>1, <3>0, <3>6, <3>7 DEF TruthInv, DocsSound
      <4>3. doc'[current_user_'] = Settled(current_user_)' + Results'
        <5>1. Settled(current_user_)' = Settled(c)
          <6>1. \A u \in Users : u = current_user_' => Settled(u)' = Settled(current_user_)'
            BY DEF Settled, Stored, Waiting
          <6> QED
            BY <1>1, <1>2, <3>7, <6>1
        <5> QED
          BY <1>1, <1>2, <1>5, <3>0, <3>6, <3>8, <5>1
      <4> QED
        BY <4>1, <4>2, <4>3 DEF TruthInv, DocsSound
    <3>10. ApplySeen
      <4>1. /\ Settled(c) + Results < Stored(c) /\ (Settled(c) + Results) + 1 = n
            /\ Results' = Results + 1
        BY <1>5, <2>3, <2>5, <3>0, <3>8
      <4>2. <<c, n>> \notin Refused
        BY <2>7, <3>0
      <4> QED
        BY <1>2, <3>1, <3>7, <4>1, <4>2 DEF ApplySeen
    <3> QED
      BY <3>7, <3>9, <3>10 DEF WritesInv
  <2> QED
    BY <2>6, <2>7
<1> QED
  BY <1>9, <1>10

----------------------------------------------------------------------------
(* The invariant holds from the start and after every step.                *)

LEMMA InitFacts ==
    ASSUME Init
    PROVE  /\ \A u \in Users : Stored(u) = 0 /\ Settled(u) = 0
           /\ \A u \in Users : mutation_queue[u] = <<>> /\ Len(mutation_queue[u]) = 0
           /\ MyQueue = <<>> /\ Results = 0
<1>1. \A u \in Users : Stored(u) = 0
  <2> SUFFICES ASSUME NEW u \in Users PROVE Stored(u) = 0
    OBVIOUS
  <2>1. Waiting(u) = {}
    BY DEF Init, Waiting
  <2>2. Cardinality(Waiting(u)) = 0
    BY <2>1, FS_EmptySet
  <2> QED
    BY <2>2 DEF Init, Stored
<1>2. \A u \in Users : mutation_queue[u] = <<>> /\ Len(mutation_queue[u]) = 0
  BY DEF Init
<1>3. \A u \in Users : Settled(u) = 0
  BY <1>1, <1>2 DEF Settled
<1>4. MyQueue = <<>>
  BY <1>2 DEF Init, MyQueue
<1>5. write_stream_.responses = <<>>
  BY DEF Init, NewStream
<1>6. ResultsOf(write_stream_) = 0
  BY <1>5, NoResults
<1> QED
  BY <1>1, <1>2, <1>3, <1>4, <1>6 DEF Results, ResultsOf

LEMMA InitInv ==
    ASSUME WritesAssumption, Init
    PROVE  WritesInv
<1>1. Typed
  <2>1. write_stream_ \in Stream
    BY DEF Init, NewStream, Stream
  <2> QED
    BY <2>1 DEF Init, Typed, WritesAssumption
<1>2. TasksInv
  <2>1. worker_queue = <<>> /\ current_user_ = auth_user /\ written = [u \in Users |-> 0]
    BY DEF Init
  <2>2. TasksOwned(worker_queue, current_user_, auth_user)
    BY <2>1, NoTasks
  <2>3. \A u \in Users : TasksNumbered(worker_queue, u, written[u])
    BY <2>1, NoneNumbered
  <2> QED
    BY <2>2, <2>3 DEF TasksInv
<1>3. DiskInv
  <2>1. \A u \in Users : QueueSound(mutation_queue[u], u, Settled(u))
    BY InitFacts DEF QueueSound
  <2>2. IdsInv
    <3>1. 0 \in Nat /\ \A u \in Users : \A i \in 1..Len(mutation_queue[u]) : mutation_queue[u][i].id <= 0
      BY InitFacts
    <3> QED
      BY <3>1, InitFacts DEF IdsInv
  <2>3. CallbacksQueued
    BY DEF Init, CallbacksQueued
  <2> QED
    BY <2>1, <2>2, <2>3 DEF DiskInv
<1>4. TruthInv
  BY InitFacts DEF Init, TruthInv, AnswersSound, DocsSound
<1>5. StreamInv
  <2>1. write_pipeline_ = <<>> /\ write_stream_ = NewStream /\ worker_queue = <<>> /\ MyQueue = <<>>
    BY InitFacts DEF Init
  <2>2. PipelineSound(<<>>, <<>>)
    BY DEF PipelineSound, WritesAssumption
  <2>3. /\ NewStream.state = "Initial" /\ NewStream.asked = {}
        /\ NewStream.requests = <<>> /\ NewStream.responses = <<>>
        /\ ~NewStream.handshake_complete /\ ~NewStream.idle
    BY DEF NewStream
  <2>4. StreamSound(<<>>, NewStream, current_user_)
    BY <2>3 DEF StreamSound, IsOpen
  <2>5. TokensSound(<<>>, NewStream)
    BY <2>3 DEF TokensSound, Live
  <2> QED
    BY <2>1, <2>2, <2>4, <2>5 DEF StreamInv
<1> QED
  BY <1>1, <1>2, <1>3, <1>4, <1>5 DEF WritesInv

\* A step keeps the invariant, and WriteOrder sees one of its own or nothing.
Seen == Unseen \/ Reconnected \/ WriteSeen \/ ConfirmSeen \/ RefuseSeen \/ ApplySeen

LEMMA Stutter ==
    ASSUME WritesInv, UNCHANGED vars
    PROVE  WritesInv' /\ Unseen
<1> USE DEF vars, appVars, queueVars, remoteVars, answerVars
<1>1. \A u \in Users : Stored(u)' = Stored(u) /\ Settled(u)' = Settled(u)
  BY DEF Stored, Settled, Waiting
<1>2. Results' = Results /\ MyQueue' = MyQueue
  BY DEF Results, MyQueue
<1>3. Typed' /\ TasksInv'
  BY DEF WritesInv, Typed, TasksInv
<1>4. DiskInv'
  BY <1>1, <1>2 DEF WritesInv, DiskInv, IdsInv, CallbacksQueued
<1>5. TruthInv'
  <2>1. AnswersSound' /\ \A u \in Users : doc'[u] <= Stored(u)'
    BY <1>1 DEF WritesInv, Typed, TruthInv, AnswersSound, DocsSound, Writes
  <2>2. Settled(current_user_)' = Settled(current_user_)
    BY <1>1 DEF WritesInv, Typed, Settled, Stored, Waiting
  <2>3. DocsSound'
    BY <1>2, <2>1, <2>2 DEF WritesInv, TruthInv, DocsSound
  <2> QED
    BY <2>1, <2>3 DEF TruthInv
<1>6. StreamInv'
  BY <1>2 DEF WritesInv, StreamInv
<1> QED
  BY <1>1, <1>2, <1>3, <1>4, <1>5, <1>6 DEF WritesInv, Unseen

LEMMA NextKeepsInv ==
    ASSUME WritesAssumption, WritesInv, [Next]_vars
    PROVE  WritesInv' /\ Seen
<1>1. ASSUME NEW live \in BOOLEAN, GetToken(live) PROVE WritesInv' /\ Seen
  BY <1>1, GetTokenStep DEF Seen
<1>2. CASE WriteMutations
  BY <1>2, WriteMutationsStep DEF Seen
<1>3. CASE HandleCredentialChange
  BY <1>3, HandleCredentialChangeStep DEF Seen
<1>4. CASE ResumeStart
  BY <1>4, ResumeStartStep DEF Seen
<1>5. CASE HandshakeComplete
  BY <1>5, HandshakeCompleteStep DEF Seen
<1>6. CASE MutationResult
  BY <1>6, MutationResultStep DEF Seen
<1>7. CASE WriteError
  BY <1>7, WriteErrorStep DEF Seen
<1>8. CASE BackoffElapsed
  BY <1>8, BackoffElapsedStep DEF Seen
<1>9. CASE ServerAnswers
  BY <1>9, ServerAnswersStep DEF Seen
<1>10. CASE SetData
  BY <1>10, SetDataStep DEF Seen
<1>11. ASSUME NEW u \in Users, AuthStateDidChange(u) PROVE WritesInv' /\ Seen
  BY <1>11, AuthStateDidChangeStep DEF Seen
<1>12. CASE ResumeStartFails
  BY <1>12, ResumeStartFailsStep DEF Seen
<1>13. CASE StreamBreaks
  BY <1>13, StreamBreaksStep DEF Seen
<1>14. CASE IdleTimeout
  BY <1>14, IdleTimeoutStep DEF Seen
<1>15. CASE ConnectivityChange
  BY <1>15, ConnectivityChangeStep DEF Seen
<1>16. CASE Relaunch
  BY <1>16, RelaunchStep DEF Seen
<1>17. CASE UNCHANGED vars
  BY <1>17, Stutter DEF Seen
<1> QED
  BY <1>1, <1>2, <1>3, <1>4, <1>5, <1>6, <1>7, <1>8, <1>9, <1>10, <1>11, <1>12, <1>13,
     <1>14, <1>15, <1>16, <1>17 DEF Next, Progress

\* In every state tasks, disk, answers and stream fit together as WritesInv says:
\* whoever signs in, whichever streams break, whenever the app is killed.
THEOREM WritesTheorem == Spec => []WritesInv
<1>1. WritesAssumption
  BY WritesAssumption
<1>2. Init => WritesInv
  BY <1>1, InitInv
<1>3. WritesInv /\ [Next]_vars => WritesInv'
  BY <1>1, NextKeepsInv
<1> QED
  BY <1>2, <1>3, PTL DEF Spec

----------------------------------------------------------------------------
(* What the invariant says of the properties.                              *)

LEMMA InvTypes == WritesInv => TypeOK
<1> SUFFICES ASSUME WritesInv PROVE TypeOK
  OBVIOUS
<1>1. Typed /\ TasksInv /\ TruthInv /\ StreamInv
  BY DEF WritesInv
<1>2. write_stream_.state \in {"Initial", "Starting", "Open", "Error", "Backoff"}
  BY <1>1, StreamFacts DEF Typed
<1>3. ToSet(write_stream_.responses) \subseteq Response
  <2>1. write_stream_.responses \in Seq(Response)
    BY <1>1, StreamFacts DEF Typed
  <2> QED
    BY <2>1 DEF ToSet
<1>4. ASSUME NEW u \in Users PROVE doc[u] <= written[u] /\ written[u] <= MaxWrites[u]
  <2>1. doc[u] <= Stored(u) /\ Stored(u) \in Nat /\ Stored(u) <= written[u]
    BY <1>1, StoredFacts DEF TruthInv, DocsSound
  <2>2. doc[u] \in Nat /\ written[u] \in Nat /\ written[u] <= MaxWrites[u]
    BY <1>1 DEF Typed
  <2> QED
    BY <2>1, <2>2
<1>5. write_pipeline_ \in Seq(Batch)
  BY <1>1 DEF StreamInv, PipelineSound
<1> QED
  BY <1>1, <1>2, <1>3, <1>4, <1>5 DEF Typed, TypeOK

\* The pipeline is a prefix of the queue in the sense of SequencesExt.
LEMMA PipelinePrefix ==
    ASSUME WritesInv
    PROVE  IsPrefix(write_pipeline_, MyQueue)
<1> DEFINE n == Len(write_pipeline_)
           a == SubSeq(write_pipeline_, 1, n)
           b == SubSeq(MyQueue, 1, n)
<1>1. /\ n \in Nat /\ n <= Len(MyQueue) /\ Len(MyQueue) \in Nat
      /\ \A i \in 1..n : write_pipeline_[i] = MyQueue[i] /\ write_pipeline_[i] \in Batch
  BY PipelineFacts DEF WritesInv
<1>2. /\ a \in Seq(Batch) /\ Len(a) = n
      /\ \A i \in 1..n : a[i] = write_pipeline_[i]
  <2>1. \A i \in 1..n : write_pipeline_[i] \in Batch
    BY <1>1
  <2>2. /\ a \in Seq(Batch) /\ Len(a) = (IF 1 <= n THEN n - 1 + 1 ELSE 0)
        /\ \A i \in 1..(n - 1 + 1) : a[i] = write_pipeline_[1 + i - 1]
    BY <1>1, <2>1, SubSeqProperties
  <2> HIDE DEF a, n
  <2> QED
    BY <1>1, <2>2
<1>3. /\ b \in Seq(Batch) /\ Len(b) = n
      /\ \A i \in 1..n : b[i] = MyQueue[i]
  <2>1. \A i \in 1..n : MyQueue[i] \in Batch
    BY <1>1
  <2>2. /\ b \in Seq(Batch) /\ Len(b) = (IF 1 <= n THEN n - 1 + 1 ELSE 0)
        /\ \A i \in 1..(n - 1 + 1) : b[i] = MyQueue[1 + i - 1]
    BY <1>1, <2>1, SubSeqProperties
  <2> HIDE DEF b, n
  <2> QED
    BY <1>1, <2>2
<1> HIDE DEF a, b
<1>4. a = b
  BY <1>1, <1>2, <1>3, SeqEqual
<1> QED
  BY <1>1, <1>4 DEF IsPrefix, a, b

\* After the handshake the requests are those of the pipeline not yet answered.
LEMMA RequestsMatch ==
    ASSUME WritesInv, write_stream_.handshake_complete
    PROVE  /\ IsOpen(write_stream_)
           /\ IF "permanent_error" \in ToSet(write_stream_.responses)
              THEN Results < Len(write_pipeline_)
              ELSE write_stream_.requests
                     = SubSeq(write_pipeline_, Results + 1, Len(write_pipeline_))
<1> DEFINE s == write_stream_
           p == write_pipeline_
           n == Len(p)
<1>1. s \in Stream /\ StreamSound(p, s, current_user_)
  BY DEF WritesInv, Typed, StreamInv
<1>2. /\ n \in Nat /\ \A i \in 1..n : p[i] \in Batch
  BY PipelineFacts DEF WritesInv
<1>3. IsOpen(s) /\ OpenSound(p, s, current_user_)
  BY <1>1 DEF StreamSound
<1>4. PICK k \in 0..n : Answered(p, s, k)
  BY <1>3 DEF OpenSound
<1>5. Results = k
  <2>1. ResultsOf(s) = k
    BY <1>1, <1>2, <1>4, CountResults
  <2> QED
    BY <2>1 DEF Results, ResultsOf
<1>6. /\ s.responses \in Seq(Response) /\ s.requests \in Seq(Message)
      /\ Len(s.responses) \in Nat /\ Len(s.requests) \in Nat
      /\ DOMAIN s.responses = 1..Len(s.responses)
  <2>1. s.responses \in Seq(Response) /\ s.requests \in Seq(Message)
    BY <1>1, StreamFacts
  <2> QED
    BY <2>1
<1>7. ASSUME "permanent_error" \in ToSet(s.responses) PROVE k < n
  <2>1. PICK i \in 1..Len(s.responses) : s.responses[i] = "permanent_error"
    BY <1>6, <1>7 DEF ToSet
  <2>2. ~(i \in 1..k)
    BY <1>4, <2>1 DEF Answered
  <2>3. Len(s.responses) # k
    BY <1>6, <2>1, <2>2
  <2> QED
    BY <1>4, <2>3 DEF Answered
<1>8. ASSUME "permanent_error" \notin ToSet(s.responses)
      PROVE  s.requests = SubSeq(p, k + 1, n)
  <2>1. /\ Len(s.requests) = n - k
        /\ \A i \in 1..Len(s.requests) : s.requests[i] = p[k + i]
    <3>1. ~(Len(s.responses) = k + 1 /\ s.responses[k + 1] = "permanent_error")
      BY <1>2, <1>6, <1>8 DEF ToSet
    <3> QED
      BY <1>4, <3>1 DEF Answered
  <2> DEFINE b == SubSeq(p, k + 1, n)
  <2>2. /\ b \in Seq(Batch) /\ Len(b) = n - k
        /\ \A i \in 1..(n - k) : b[i] = p[k + i]
    <3>1. \A i \in (k + 1)..n : p[i] \in Batch
      BY <1>2
    <3>2. k + 1 \in Int /\ n \in Int
      BY <1>2
    <3>3. /\ b \in Seq(Batch) /\ Len(b) = (IF k + 1 <= n THEN n - (k + 1) + 1 ELSE 0)
          /\ \A i \in 1..(n - (k + 1) + 1) : b[i] = p[(k + 1) + i - 1]
      BY <3>1, <3>2, SubSeqProperties
    <3> HIDE DEF b, n
    <3>4. n - (k + 1) + 1 = n - k /\ \A i \in 1..(n - k) : (k + 1) + i - 1 = k + i
      BY <1>2
    <3> QED
      BY <1>2, <3>3, <3>4
  <2> HIDE DEF b, s, n, p
  <2>3. b \in Seq(Message)
    BY <2>2 DEF Message
  <2>4. \A i \in 1..Len(s.requests) : s.requests[i] = b[i]
    BY <2>1, <2>2
  <2>5. s.requests = b
    BY <1>6, <2>1, <2>2, <2>3, <2>4, SeqEqual
  <2> QED
    BY <2>5 DEF b
<1> QED
  BY <1>3, <1>5, <1>7, <1>8

LEMMA ExactlyOne ==
    ASSUME NEW a \in BOOLEAN, NEW b \in BOOLEAN
    PROVE  (~a /\ b) \/ (a /\ ~b) <=> a # b
  OBVIOUS

LEMMA InvAsserts == WritesInv => AssertsHold
<1> SUFFICES ASSUME WritesInv PROVE AssertsHold
  OBVIOUS
<1>1. Typed /\ StreamInv /\ write_stream_ \in Stream
  BY DEF WritesInv, Typed
<1>2. LiveTokens = Live(worker_queue)
  BY <1>1 DEF LiveTokens, Live, Typed
<1>3. write_stream_.idle => write_pipeline_ = <<>>
  BY <1>1, StreamFacts DEF StreamInv, StreamSound, OpenSound
<1>4. write_stream_.state = "Starting" <=> (TRUE \in write_stream_.asked) # (LiveTokens # {})
  <2> DEFINE a == TRUE \in write_stream_.asked
             l == LiveTokens # {}
  <2>1. a \in BOOLEAN /\ l \in BOOLEAN
    OBVIOUS
  <2>2. (~a /\ l) \/ (a /\ ~l) <=> a # l
    <3> HIDE DEF a, l
    <3> QED
      BY <2>1, ExactlyOne
  <2>3. write_stream_.state = "Starting" <=> (~a /\ l) \/ (a /\ ~l)
    BY <1>1, <1>2 DEF StreamInv, TokensSound
  <2> HIDE DEF a, l
  <2>4. write_stream_.state = "Starting" <=> a # l
    BY <2>2, <2>3
  <2> QED
    BY <2>4 DEF a, l
<1>5. \A i, j \in LiveTokens : i = j
  BY <1>1, <1>2 DEF StreamInv, TokensSound
<1>6. write_pipeline_ # <<>> => IsStarted(write_stream_)
  BY <1>1 DEF StreamInv
<1> QED
  BY <1>3, <1>4, <1>5, <1>6, PipelinePrefix, RequestsMatch DEF AssertsHold

LEMMA InvOwner == WritesInv => SentAsOwner
<1> SUFFICES ASSUME WritesInv, NEW m \in ToSet(write_stream_.requests), m # Handshake
             PROVE  m.write[1] = write_stream_.user
  BY DEF SentAsOwner
<1> DEFINE s == write_stream_
<1>1. s \in Stream /\ StreamSound(write_pipeline_, s, current_user_)
  BY DEF WritesInv, Typed, StreamInv
<1>2. s.requests \in Seq(Message)
  BY <1>1, StreamFacts
<1>3. PICK i \in 1..Len(s.requests) : m = s.requests[i]
  BY <1>2 DEF ToSet
<1>4. s.requests # <<>>
  BY <1>2, <1>3
<1>5. OpenSound(write_pipeline_, s, current_user_)
  BY <1>1, <1>4 DEF StreamSound
<1>6. s.requests # <<Handshake>>
  BY <1>2, <1>3
<1>7. s.handshake_complete /\ s.user = current_user_
  BY <1>4, <1>5, <1>6 DEF OpenSound
<1> QED
  BY <1>3, <1>5, <1>7 DEF OpenSound

LEMMA InvTruth == WritesInv => AnsweredTruly
<1> SUFFICES ASSUME WritesInv, NEW a \in answers
             PROVE  /\ \A i \in DOMAIN mutation_queue[a[1][1]] :
                          mutation_queue[a[1][1]][i].write # a[1]
                    /\ IF a[2] = "ok" THEN a[1][2] <= doc[a[1][1]] ELSE a[1] \in Refused
  BY DEF AnsweredTruly
<1> DEFINE u == a[1][1]
<1>1. Typed /\ DiskInv /\ TruthInv
  BY DEF WritesInv
<1>2. a[1] \in Writes /\ a[2] \in {"ok", "error"}
  BY <1>1 DEF Typed
<1>3. u \in Users /\ a[1][2] \in Nat
  BY <1>2, WritesFacts
<1>4. /\ a[1][2] <= Settled(u)
      /\ a[2] = "ok" => a[1][2] <= doc[u]
      /\ a[2] = "error" => a[1] \in Refused
  BY <1>1 DEF TruthInv, AnswersSound
<1>5. ASSUME NEW i \in DOMAIN mutation_queue[u] PROVE mutation_queue[u][i].write # a[1]
  <2>1. /\ mutation_queue[u] \in Seq(Batch) /\ Settled(u) \in Nat
        /\ \A j \in 1..Len(mutation_queue[u]) : mutation_queue[u][j].write = <<u, Settled(u) + j>>
    BY <1>1, <1>3, DiskFacts
  <2>2. i \in 1..Len(mutation_queue[u])
    BY <2>1
  <2> HIDE DEF u
  <2>3. mutation_queue[u][i].write[2] = Settled(u) + i
    BY <2>1, <2>2
  <2>4. Settled(u) + i # a[1][2]
    BY <1>3, <1>4, <2>1, <2>2
  <2> QED
    BY <2>3, <2>4
<1> QED
  BY <1>2, <1>4, <1>5

\* Every variable keeps its type, no document is ahead of what its user wrote and
\* batch ids start at 1.
THEOREM TypesTheorem == Spec => []TypeOK
  BY WritesTheorem, InvTypes, PTL

\* The HARD_ASSERTs of the write path never fail: a result is about a batch of the
\* pipeline that the queue on disk still has, the stream is not stopped with work
\* left, and a token that counts finds the stream waiting for it.
THEOREM AssertsTheorem == Spec => []AssertsHold
  BY WritesTheorem, InvAsserts, PTL

\* A write goes out with the token of the user who made it, whatever the order of
\* sign-ins, tokens, writes and broken streams.
THEOREM OwnerTheorem == Spec => []SentAsOwner
  BY WritesTheorem, InvOwner, PTL

\* The callback of setData is told the truth about its own write, and only once
\* the write has left the queue.
THEOREM TruthTheorem == Spec => []AnsweredTruly
  BY WritesTheorem, InvTruth, PTL

----------------------------------------------------------------------------
(* The client implements WriteOrder.                                       *)

LEMMA ResultsType ==
    ASSUME WritesInv
    PROVE  Results \in Nat
<1> DEFINE n == Len(write_stream_.responses)
           S == {i \in DOMAIN write_stream_.responses : write_stream_.responses[i] = "result"}
<1>1. write_stream_.responses \in Seq(Response)
  BY StreamFacts DEF WritesInv, Typed
<1>2. n \in Nat /\ S \in SUBSET (1..n)
  BY <1>1
<1>3. IsFiniteSet(1..n)
  BY <1>2, FS_Interval
<1> HIDE DEF S
<1>4. Cardinality(S) \in Nat
  BY <1>2, <1>3, FS_Subset, FS_CardinalityType
<1> QED
  BY <1>4 DEF Results, S

\* What WriteOrder takes for its variables.
StoredOf == [u \in Users |-> Stored(u)]
SettledOf == [u \in Users |-> Settled(u)]
Position == Settled(current_user_) + Results

LEMMA OrderInit ==
    ASSUME Init
    PROVE  Order!Init
<1>1. /\ \A u \in Users : Stored(u) = 0 /\ Settled(u) = 0
      /\ Results = 0 /\ current_user_ \in Users
  BY InitFacts DEF Init
<1>2. Settled(current_user_) + Results = 0
  BY <1>1
<1>3. /\ [u \in Users |-> Stored(u)] = [u \in Users |-> 0]
      /\ [u \in Users |-> Settled(u)] = [u \in Users |-> 0]
  BY <1>1
<1> QED
  BY <1>1, <1>2, <1>3 DEF Init, Order!Init

LEMMA OrderStep ==
    ASSUME WritesInv, WritesInv', Seen
    PROVE  [Order!Next]_(Order!vars)
<1> DEFINE c == current_user_
           d == current_user_'
<1>1. /\ c \in Users /\ d \in Users /\ doc \in [Users -> Nat]
      /\ Results \in Nat /\ \A u \in Users : Stored(u) \in Nat /\ Settled(u) \in Nat
  <2>1. c \in Users /\ d \in Users /\ doc \in [Users -> Nat]
    BY DEF WritesInv, Typed
  <2>2. \A u \in Users : Stored(u) \in Nat /\ Settled(u) \in Nat
    BY StoredFacts, DiskFacts DEF WritesInv
  <2> QED
    BY <2>1, <2>2, ResultsType
<1>2. /\ StoredOf \in [Users -> Nat] /\ SettledOf \in [Users -> Nat]
      /\ \A u \in Users : StoredOf[u] = Stored(u) /\ SettledOf[u] = Settled(u)
      /\ Position = SettledOf[c] + Results /\ Position \in Nat
  BY <1>1 DEF StoredOf, SettledOf, Position
<1>3. /\ StoredOf' = [u \in Users |-> Stored(u)'] /\ SettledOf' = [u \in Users |-> Settled(u)']
      /\ Position' = SettledOf'[d] + Results'
  <2>1. StoredOf' = [u \in Users |-> Stored(u)'] /\ SettledOf' = [u \in Users |-> Settled(u)']
    BY DEF StoredOf, SettledOf
  <2>2. \A u \in Users : u = d => Settled(u)' = Settled(current_user_)'
    BY DEF Settled, Stored, Waiting
  <2>3. SettledOf'[d] = Settled(current_user_)'
    BY <1>1, <2>1, <2>2
  <2> QED
    BY <2>1, <2>3 DEF Position
<1>4. (\A u \in Users : Stored(u)' = Stored(u)) => StoredOf' = StoredOf
  BY <1>3 DEF StoredOf
<1>5. (\A u \in Users : Settled(u)' = Settled(u)) => SettledOf' = SettledOf
  BY <1>3 DEF SettledOf
<1>6. (\A u \in Users : Settled(u)' = IF u = c THEN Settled(u) + 1 ELSE Settled(u))
        => SettledOf' = [SettledOf EXCEPT ![c] = @ + 1]
  BY <1>1, <1>3 DEF SettledOf
<1>7. (\A u \in Users : Stored(u)' = IF u = c THEN Stored(u) + 1 ELSE Stored(u))
        => StoredOf' = [StoredOf EXCEPT ![c] = @ + 1]
  BY <1>1, <1>3 DEF StoredOf
<1>8. CASE Unseen
  <2>1. d = c /\ StoredOf' = StoredOf /\ SettledOf' = SettledOf /\ doc' = doc /\ Results' = Results
    BY <1>4, <1>5, <1>8 DEF Unseen
  <2>2. Position' = Position
    BY <1>2, <1>3, <2>1
  <2> QED
    BY <2>1, <2>2 DEF Order!vars, StoredOf, SettledOf, Position
<1>9. CASE Reconnected
  <2>1. StoredOf' = StoredOf /\ SettledOf' = SettledOf /\ doc' = doc /\ Results' = 0
    BY <1>4, <1>5, <1>9 DEF Reconnected
  <2>2. Position' = SettledOf[d]
    BY <1>1, <1>2, <1>3, <2>1
  <2>3. Order!Reconnect(d)
    BY <2>1, <2>2 DEF Order!Reconnect, StoredOf, SettledOf, Position
  <2> QED
    BY <1>1, <2>3 DEF Order!Next
<1>10. CASE WriteSeen
  <2>1. /\ d = c /\ SettledOf' = SettledOf /\ doc' = doc /\ Results' = Results
        /\ StoredOf' = [StoredOf EXCEPT ![c] = @ + 1]
    BY <1>5, <1>7, <1>10 DEF WriteSeen
  <2>2. Position' = Position
    BY <1>2, <1>3, <2>1
  <2>3. Order!Write(c)
    BY <2>1, <2>2 DEF Order!Write, StoredOf, SettledOf, Position
  <2> QED
    BY <1>1, <2>3 DEF Order!Next
<1>11. CASE ConfirmSeen
  <2>1. /\ d = c /\ StoredOf' = StoredOf /\ doc' = doc
        /\ SettledOf' = [SettledOf EXCEPT ![c] = @ + 1]
        /\ Results > 0 /\ Results' = Results - 1
    BY <1>4, <1>6, <1>11 DEF ConfirmSeen
  <2>2. Position' = Position /\ SettledOf[c] < Position
    BY <1>1, <1>2, <1>3, <2>1
  <2>3. Order!Confirm
    BY <2>1, <2>2 DEF Order!Confirm, StoredOf, SettledOf, Position
  <2> QED
    BY <2>3 DEF Order!Next
<1>12. CASE RefuseSeen
  <2>1. /\ d = c /\ StoredOf' = StoredOf /\ doc' = doc
        /\ SettledOf' = [SettledOf EXCEPT ![c] = @ + 1]
        /\ Results = 0 /\ Results' = 0
        /\ SettledOf[c] < StoredOf[c] /\ <<c, SettledOf[c] + 1>> \in Refused
    BY <1>1, <1>2, <1>4, <1>6, <1>12 DEF RefuseSeen
  <2>2. Position' = Position + 1 /\ SettledOf[c] = Position
    BY <1>1, <1>2, <1>3, <2>1
  <2>3. Order!Refuse
    BY <2>1, <2>2 DEF Order!Refuse, StoredOf, SettledOf, Position
  <2> QED
    BY <2>3 DEF Order!Next
<1>13. CASE ApplySeen
  <2>1. /\ d = c /\ StoredOf' = StoredOf /\ SettledOf' = SettledOf
        /\ Position < StoredOf[c] /\ <<c, Position + 1>> \notin Refused
        /\ doc' = [doc EXCEPT ![c] = Position + 1] /\ Results' = Results + 1
    BY <1>1, <1>2, <1>4, <1>5, <1>13 DEF ApplySeen, Position
  <2>2. Position' = Position + 1
    BY <1>1, <1>2, <1>3, <2>1
  <2>3. Order!Apply
    BY <2>1, <2>2 DEF Order!Apply, StoredOf, SettledOf, Position
  <2> QED
    BY <2>3 DEF Order!Next
<1> QED
  BY <1>8, <1>9, <1>10, <1>11, <1>12, <1>13 DEF Seen

\* The mutation queue, the pipeline and the stream implement WriteOrder: no write
\* on disk is lost, skipped or overtaken, and none is applied once it was answered.
THEOREM OrderTheorem == Spec => KeepsOrder
<1>1. WritesAssumption
  BY WritesAssumption
<1>2. Init => WritesInv /\ Order!Init
  BY <1>1, InitInv, OrderInit
<1>3. WritesInv /\ [Next]_vars => WritesInv' /\ [Order!Next]_(Order!vars)
  BY <1>1, NextKeepsInv, OrderStep
<1> QED
  BY <1>2, <1>3, PTL DEF Spec, KeepsOrder, Order!Spec

----------------------------------------------------------------------------
(* What WriteOrder is known to promise holds of the client.                *)

OrderProofs == INSTANCE WriteOrder_proofs WITH
    user <- current_user_,
    written <- [u \in Users |-> Stored(u)],
    settled <- [u \in Users |-> Settled(u)],
    position <- Settled(current_user_) + Results

\* When everything that reached the disk is answered for, the document is as the
\* last write that was not refused left it, whatever happened in between.
THEOREM LastWriteTheorem == Spec => []OrderProofs!LastWriteWins
<1>1. Spec => OrderProofs!Spec
  <2>1. Order!Init => OrderProofs!Init
    BY DEF Order!Init, OrderProofs!Init
  <2>2. [Order!Next]_(Order!vars) => [OrderProofs!Next]_(OrderProofs!vars)
    BY DEF Order!Next, OrderProofs!Next, Order!vars, OrderProofs!vars,
       Order!Write, OrderProofs!Write, Order!Apply, OrderProofs!Apply,
       Order!Confirm, OrderProofs!Confirm, Order!Refuse, OrderProofs!Refuse,
       Order!Reconnect, OrderProofs!Reconnect
  <2> QED
    BY <2>1, <2>2, OrderTheorem, PTL DEF KeepsOrder, Order!Spec, OrderProofs!Spec
<1>2. OrderProofs!Spec => []OrderProofs!LastWriteWins
  BY OrderProofs!LastWriteTheorem
<1> QED
  BY <1>1, <1>2, PTL
=============================================================================
