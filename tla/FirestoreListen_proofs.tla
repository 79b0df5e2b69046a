------------------------ MODULE FirestoreListen_proofs ------------------------
(***************************************************************************)
(* Proofs about FirestoreListen, for any values, number of writes, of      *)
(* requests outstanding and of troubles: the assertions of the read path   *)
(* hold, the cache is the server's document as of its version and covers   *)
(* the resume points, and what an app is shown is as new as it must be.    *)
(***************************************************************************)
EXTENDS FirestoreListen, SequenceTheorems, FiniteSetTheorems, TLAPS

----------------------------------------------------------------------------
(* Types.                                                                  *)

CacheEntry == [value : MaybeDocument, version : Nat, committed : BOOLEAN]

ViewDocument == [value : MaybeDocument, state : {"local", "committed", "synced"}]

View == [on : BOOLEAN, doc : ViewDocument, synced_documents : BOOLEAN, current : BOOLEAN]

Online == [state : OnlineState, failed : BOOLEAN, timer : BOOLEAN]

Listener == [state : {"off", "new", "raised"}, heard : MaybeDocument]

Get == [state : {"off", "waiting", "answered"}, asked : Nat,
        value : MaybeDocument, local : BOOLEAN, from_cache : BOOLEAN]

TargetRequest == [kind : {"watch"}, token : Nat] \union [kind : {"unwatch"}]

Update == [value : MaybeDocument, version : Nat]

TargetResponse ==
    [kind : {"added", "removed", "current"}]
    \union [kind : {"document"}, update : Update]
    \union [kind : {"snapshot"}, version : Nat]

Stream == [state : {"Initial", "Starting", "Open", "Error", "Backoff"}, idle : BOOLEAN,
           requests : Seq(TargetRequest), responses : Seq(TargetResponse), sent : Nat]

Aggregator == [outstanding : Nat, current : BOOLEAN,
               change : {"none", "Added", "Modified", "Removed"}, update : Update]

Typed ==
    /\ hist \in Seq(MaybeDocument) /\ hist # <<>>
    /\ queue \in Seq(OwnValues) /\ written \in Nat /\ Len(queue) <= written
    /\ acks \in Seq(Nat) /\ lastAck \in Nat
    /\ disk \in [cache : CacheEntry, token : Nat, key : BOOLEAN, snapshot : Nat]
    /\ resume_token \in Nat
    /\ watch_stream_ \in Stream
    /\ aggregator \in Aggregator
    /\ online \in Online
    /\ view \in View
    /\ listener \in Listener
    /\ get \in Get
    /\ trouble \in 0..MaxTrouble

----------------------------------------------------------------------------
(* The inductive invariant: the server and the disk.                       *)

\* Answers under way are about the oldest sets of the queue.
AcksSound ==
    /\ Len(acks) <= Len(queue)
    /\ \A i \in 1..Len(acks) : acks[i] \in 1..Version /\ hist[acks[i]] = queue[i]

\* The cache is the document as of its version, which no answer is ahead of.
CacheSound ==
    /\ disk.cache.version <= Version /\ lastAck <= disk.cache.version
    /\ disk.cache.version # 0 => disk.cache.value = hist[disk.cache.version]
    /\ disk.cache.version = 0 => disk.cache.value = Missing
    /\ disk.cache.committed => disk.cache.value \in OwnValues

\* The cache covers the resume point, at which the target had the document
\* or not as key says.
Resumes(token, key) ==
    /\ token <= disk.cache.version
    /\ key <=> token # 0 /\ hist[token] # Missing

DiskInv ==
    /\ AcksSound
    /\ CacheSound
    /\ Resumes(disk.token, disk.key)
    /\ disk.snapshot <= Version

----------------------------------------------------------------------------
(* What is under way on the watch stream.                                  *)

\* An answer to a request of the client.
Answer(m) == m.kind \in {"added", "removed"}

Answers(r) == {i \in 1..Len(r) : Answer(r[i])}

\* No answer comes from place i on: it is about the client's last request.
Latest(r, i) == \A k \in i..Len(r) : ~Answer(r[k])

\* Next to come from place i on is a snapshot of the version.
Brings(r, i, version) ==
    \E j \in i..Len(r) :
        /\ r[j].kind = "snapshot" /\ r[j].version = version
        /\ \A k \in i..(j - 1) : r[k].kind = "current"

\* Responses tell the truth, in order.
MessagesTrue(r) ==
    /\ \A i \in 1..Len(r) :
          /\ r[i].kind = "document" =>
                /\ r[i].update.version \in 1..Version
                /\ r[i].update.value = hist[r[i].update.version]
                /\ Brings(r, i + 1, r[i].update.version)
          /\ r[i].kind = "snapshot" => r[i].version \in disk.snapshot..Version /\ r[i].version # 0
    /\ \A i, j \in 1..Len(r) :
          i < j /\ r[i].kind = "snapshot" /\ r[j].kind = "snapshot" => r[i].version <= r[j].version

\* So does an update that waits for its snapshot.
UpdateTrue(r, update) ==
    update # NoUpdate =>
        /\ update.version \in 1..Version
        /\ update.value = hist[update.version]
        /\ Brings(r, 1, update.version)

MessagesInv ==
    /\ MessagesTrue(watch_stream_.responses)
    /\ UpdateTrue(watch_stream_.responses, aggregator.update)

\* The stream is needed while the view is there, and asked for its target.
StreamInv ==
    LET s == watch_stream_
        r == s.responses
    IN  /\ ~IsOpen(s) => s = NewStream(s.state) /\ aggregator = NewAggregator
        /\ view.on => IsStarted(s) /\ ~s.idle
        /\ aggregator.outstanding = Len(s.requests) + Cardinality(Answers(r))
        /\ s.sent <= Version
        /\ view.on /\ s.requests # <<>> => Last(s.requests) = Watch(resume_token)
        /\ view.on /\ s.requests = <<>> =>
              \A i \in 1..Len(r) : r[i].kind = "removed" => ~Latest(r, i + 1)

OnlineInv ==
    /\ online.timer => online.state = "Unknown" /\ ~online.failed /\ IsStarted(watch_stream_)
    /\ online.failed => online.state # "Online"

----------------------------------------------------------------------------
(* The target of the view.                                                 *)

\* DocumentChange's effect on the target.
ChangeOf(update, synced) ==
    CASE Exists(update) /\ synced -> "Modified"
      [] Exists(update) /\ ~synced -> "Added"
      [] ~Exists(update) /\ synced -> "Removed"
      [] OTHER -> "none"

\* The server has nothing to say of the document at this version.
Silent(version, token) ==
    \/ version = token
    \/ token = 0 /\ hist[version] = Missing

\* The document comes before the snapshot at place i, or has come, or the
\* server has nothing to say of it.
DocumentTold(r, i, update, token) ==
    \/ \E j \in 1..(i - 1) : /\ r[j].kind = "document"
                             /\ \A k \in (j + 1)..(i - 1) : r[k].kind = "current"
    \/ /\ \A k \in 1..(i - 1) : Latest(r, k) => r[k].kind = "current"
       /\ (Latest(r, 1) /\ update # NoUpdate) \/ Silent(r[i].version, token)

\* The target is current before place i.
CurrentTold(r, i, current) ==
    \/ Latest(r, 1) /\ current
    \/ \E k \in 1..(i - 1) : Latest(r, k) /\ r[k].kind = "current"

\* What the view shows without waiting for the server, and what getDocument is
\* asked for, is not newer than the version.
ShownBy(version, g, d, cache) ==
    /\ g.state = "waiting" => g.asked <= version
    /\ (cache.committed => d.state # "local") => cache.version <= version

SyncedInv ==
    /\ view.on => view.synced_documents = disk.key /\ Resumes(resume_token, view.synced_documents)
    /\ ~view.on => resume_token = 0

\* The change is that of the update, and an update that was noted for the view's
\* last target is not shown as this one's.
ChangeInv ==
    /\ view.on /\ aggregator.outstanding = 0 =>
          aggregator.change = IF aggregator.update = NoUpdate THEN "none"
                              ELSE ChangeOf(aggregator.update, view.synced_documents)
    /\ view.current /\ aggregator.outstanding # 0 => aggregator.update = NoUpdate

ToldInv ==
    LET r == watch_stream_.responses
    IN  view.on /\ watch_stream_.requests = <<>> =>
            /\ watch_stream_.sent # 0 => CurrentTold(r, Len(r) + 1, aggregator.current)
            /\ \A i \in 1..Len(r) : Latest(r, i) /\ r[i].kind = "snapshot" =>
                  /\ DocumentTold(r, i, aggregator.update, resume_token)
                  /\ CurrentTold(r, i, aggregator.current)
                  /\ ShownBy(r[i].version, get, view.doc, disk.cache)

TargetInv == SyncedInv /\ ChangeInv /\ ToldInv

----------------------------------------------------------------------------
(* What the app is shown.                                                  *)

\* The document of the view is the newest set, or the cached one, or a set that
\* waits for the server.
DocumentSound(v, q, cache) ==
    /\ ~v.on => v = NoView
    /\ v.doc.state = "local" => v.doc.value \in OwnValues
    /\ v.on /\ q # <<>> => v.doc = [value |-> Last(q), state |-> "local"]
    /\ v.on /\ v.doc.state # "local" => v.doc.value = cache.value

\* A current view shows what the server held at the resume point.
CurrentSound(v, g, cache, token) ==
    v.current =>
        /\ token # 0
        /\ ~cache.committed => cache.version = token
        /\ v.doc.state # "local" => v.doc.value = hist[token]
        /\ g.state = "waiting" => g.asked <= token

GetInv ==
    /\ get.asked <= Version
    /\ get.state = "answered" /\ get.asked # 0 /\ ~get.from_cache /\ ~get.local =>
          \E n \in get.asked..Version : get.value = hist[n]

\* The view is there for its listeners.
ListeningInv == view.on <=> listener.state # "off" \/ get.state # "off"

ViewInv ==
    /\ ListeningInv
    /\ DocumentSound(view, queue, disk.cache)
    /\ CurrentSound(view, get, disk.cache, resume_token)
    /\ GetInv

ListenInv ==
    Typed /\ DiskInv /\ MessagesInv /\ StreamInv /\ OnlineInv /\ TargetInv /\ ViewInv

----------------------------------------------------------------------------
(* Fields.                                                                 *)

LEMMA Values ==
    ASSUME ListenAssumption
    PROVE  /\ Missing \notin OwnValues /\ OwnValues \subseteq MaybeDocument
           /\ Missing \in MaybeDocument /\ OthersValues \subseteq MaybeDocument
           /\ FirstValue \in MaybeDocument
  BY DEF ListenAssumption, MaybeDocument

LEMMA Fields ==
    ASSUME Typed
    PROVE  /\ hist \in Seq(MaybeDocument) /\ Version \in Nat \ {0}
           /\ \A n \in 1..Version : hist[n] \in MaybeDocument
           /\ queue \in Seq(OwnValues) /\ Len(queue) \in Nat
           /\ acks \in Seq(Nat) /\ Len(acks) \in Nat /\ lastAck \in Nat
           /\ disk.cache \in CacheEntry /\ disk.token \in Nat /\ disk.key \in BOOLEAN
           /\ disk.snapshot \in Nat /\ resume_token \in Nat
           /\ disk.cache.value \in MaybeDocument /\ disk.cache.version \in Nat
           /\ disk.cache.committed \in BOOLEAN
  BY DEF Typed, CacheEntry, Version

LEMMA StreamFields ==
    ASSUME NEW s \in Stream
    PROVE  /\ s.state \in {"Initial", "Starting", "Open", "Error", "Backoff"}
           /\ s.idle \in BOOLEAN /\ s.sent \in Nat
           /\ s.requests \in Seq(TargetRequest) /\ Len(s.requests) \in Nat
           /\ s.responses \in Seq(TargetResponse) /\ Len(s.responses) \in Nat
           /\ \A i \in 1..Len(s.responses) : s.responses[i] \in TargetResponse
  BY DEF Stream

LEMMA AggregatorFields ==
    ASSUME NEW g \in Aggregator
    PROVE  /\ g.outstanding \in Nat /\ g.current \in BOOLEAN
           /\ g.change \in {"none", "Added", "Modified", "Removed"}
           /\ g.update \in Update /\ g.update.value \in MaybeDocument /\ g.update.version \in Nat
  BY DEF Aggregator, Update

LEMMA ViewFields ==
    ASSUME NEW v \in View
    PROVE  /\ v.on \in BOOLEAN /\ v.synced_documents \in BOOLEAN /\ v.current \in BOOLEAN
           /\ v.doc \in ViewDocument /\ v.doc.value \in MaybeDocument
           /\ v.doc.state \in {"local", "committed", "synced"}
  BY DEF View, ViewDocument

LEMMA ResponseFields ==
    ASSUME NEW m \in TargetResponse
    PROVE  /\ m.kind \in {"added", "removed", "current", "document", "snapshot"}
           /\ m.kind = "document" => /\ m.update \in Update
                                     /\ m.update.value \in MaybeDocument /\ m.update.version \in Nat
           /\ m.kind = "snapshot" => m.version \in Nat
  BY DEF TargetResponse, Update

LEMMA NewFields ==
    ASSUME ListenAssumption
    PROVE  /\ NewAggregator \in Aggregator /\ NoUpdate \in Update /\ NoUpdate.version = 0
           /\ NewAggregator.outstanding = 0 /\ NewAggregator.change = "none"
           /\ NewAggregator.update = NoUpdate /\ ~NewAggregator.current
           /\ NoView \in View /\ ~NoView.on /\ ~NoView.current /\ NoView.doc.state # "local"
           /\ \A state \in {"Initial", "Starting", "Open", "Error", "Backoff"} :
                 /\ NewStream(state) \in Stream
                 /\ NewStream(state).state = state /\ ~NewStream(state).idle
                 /\ NewStream(state).requests = <<>> /\ NewStream(state).responses = <<>>
                 /\ NewStream(state).sent = 0
<1>1. Missing \in MaybeDocument
  BY Values
<1>2. NoUpdate \in Update /\ NoUpdate.version = 0
  BY <1>1 DEF NoUpdate, Update
<1>3. /\ NewAggregator \in Aggregator
      /\ NewAggregator.outstanding = 0 /\ NewAggregator.change = "none"
      /\ NewAggregator.update = NoUpdate /\ ~NewAggregator.current
  BY <1>2 DEF NewAggregator, Aggregator
<1>4. NoView \in View /\ ~NoView.on /\ ~NoView.current /\ NoView.doc.state # "local"
  BY <1>1 DEF NoView, View, ViewDocument
<1>5. ASSUME NEW state \in {"Initial", "Starting", "Open", "Error", "Backoff"}
      PROVE  /\ NewStream(state) \in Stream
             /\ NewStream(state).state = state /\ ~NewStream(state).idle
             /\ NewStream(state).requests = <<>> /\ NewStream(state).responses = <<>>
             /\ NewStream(state).sent = 0
  BY DEF NewStream, NotWatched, Stream
<1> QED
  BY <1>2, <1>3, <1>4, <1>5

----------------------------------------------------------------------------
(* The responses without the first.                                        *)

LEMMA CountTail ==
    ASSUME NEW n \in Nat, n > 0, NEW S \in SUBSET (1..n), NEW T,
           T = {i \in 1..(n - 1) : i + 1 \in S}
    PROVE  Cardinality(T) = IF 1 \in S THEN Cardinality(S) - 1 ELSE Cardinality(S)
<1> DEFINE f == [i \in T |-> i + 1]
<1>1. IsFiniteSet(S)
  <2>1. IsFiniteSet(1..n)
    BY FS_Interval
  <2> QED
    BY <2>1, FS_Subset
<1>2. IsFiniteSet(T)
  <2>1. n - 1 \in Int /\ T \in SUBSET (1..(n - 1))
    OBVIOUS
  <2>2. IsFiniteSet(1..(n - 1))
    BY <2>1, FS_Interval
  <2> QED
    BY <2>1, <2>2, FS_Subset
<1>3. f \in Bijection(T, S \ {1})
  <2>1. f \in [T -> S \ {1}]
    OBVIOUS
  <2>2. \A i, j \in T : f[i] = f[j] => i = j
    OBVIOUS
  <2>3. \A j \in S \ {1} : j - 1 \in T /\ f[j - 1] = j
    OBVIOUS
  <2> QED
    BY <2>1, <2>2, <2>3 DEF Bijection, Injection, IsInjective, Surjection
<1>4. Cardinality(S \ {1}) = Cardinality(T)
  BY <1>2, <1>3, FS_Bijection DEF ExistsBijection
<1> QED
  BY <1>1, <1>4, FS_RemoveElement

LEMMA AnswersFinite ==
    ASSUME NEW r \in Seq(TargetResponse)
    PROVE  /\ Answers(r) \in SUBSET (1..Len(r)) /\ IsFiniteSet(Answers(r))
           /\ Cardinality(Answers(r)) \in Nat
           /\ Cardinality(Answers(r)) = 0 <=> Latest(r, 1)
<1>1. Answers(r) \in SUBSET (1..Len(r)) /\ Len(r) \in Nat
  BY DEF Answers
<1>2. IsFiniteSet(1..Len(r))
  BY <1>1, FS_Interval
<1>3. IsFiniteSet(Answers(r))
  BY <1>1, <1>2, FS_Subset
<1>4. Cardinality(Answers(r)) \in Nat /\ (Cardinality(Answers(r)) = 0 <=> Answers(r) = {})
  BY <1>3, FS_CardinalityType, FS_EmptySet
<1>5. Answers(r) = {} <=> Latest(r, 1)
  BY DEF Answers, Latest
<1> QED
  BY <1>1, <1>3, <1>4, <1>5

LEMMA TailFacts ==
    ASSUME NEW r \in Seq(TargetResponse), r # <<>>
    PROVE  /\ Tail(r) \in Seq(TargetResponse) /\ Len(r) \in Nat \ {0}
           /\ Len(Tail(r)) = Len(r) - 1 /\ Head(r) = r[1] /\ r[1] \in TargetResponse
           /\ \A i \in 1..(Len(r) - 1) : Tail(r)[i] = r[i + 1]
  OBVIOUS

\* Places move by one.
LEMMA TailPlaces ==
    ASSUME NEW r \in Seq(TargetResponse), r # <<>>, NEW i \in 1..Len(r)
    PROVE  /\ Latest(Tail(r), i) <=> Latest(r, i + 1)
           /\ \A version : Brings(Tail(r), i, version) <=> Brings(r, i + 1, version)
           /\ Latest(r, 1) <=> ~Answer(r[1]) /\ Latest(Tail(r), 1)
<1> DEFINE t == Tail(r)
           n == Len(r)
<1>1. n \in Nat \ {0} /\ Len(t) = n - 1 /\ \A j \in 1..(n - 1) : t[j] = r[j + 1]
  BY TailFacts
<1> HIDE DEF t, n
<1>2. ASSUME NEW l \in 1..n PROVE Latest(t, l) <=> Latest(r, l + 1)
  <2>1. ASSUME Latest(t, l) PROVE Latest(r, l + 1)
    <3> SUFFICES ASSUME NEW k \in (l + 1)..n PROVE ~Answer(r[k])
      BY DEF Latest, n
    <3>1. k - 1 \in l..(n - 1) /\ t[k - 1] = r[k]
      BY <1>1
    <3> QED
      BY <1>1, <2>1, <3>1 DEF Latest
  <2>2. ASSUME Latest(r, l + 1) PROVE Latest(t, l)
    <3> SUFFICES ASSUME NEW k \in l..(n - 1) PROVE ~Answer(t[k])
      BY <1>1 DEF Latest
    <3>1. k + 1 \in (l + 1)..n /\ t[k] = r[k + 1]
      BY <1>1
    <3> QED
      BY <2>2, <3>1 DEF Latest, n
  <2> QED
    BY <2>1, <2>2
<1>3. ASSUME NEW version PROVE Brings(t, i, version) <=> Brings(r, i + 1, version)
  <2>1. ASSUME Brings(t, i, version) PROVE Brings(r, i + 1, version)
    <3>1. PICK j \in i..(n - 1) : /\ t[j].kind = "snapshot" /\ t[j].version = version
                                  /\ \A k \in i..(j - 1) : t[k].kind = "current"
      BY <1>1, <2>1 DEF Brings
    <3>2. /\ j + 1 \in (i + 1)..n /\ r[j + 1].kind = "snapshot" /\ r[j + 1].version = version
      BY <1>1, <3>1
    <3>3. \A k \in (i + 1)..j : r[k].kind = "current"
      <4> SUFFICES ASSUME NEW k \in (i + 1)..j PROVE r[k].kind = "current"
        OBVIOUS
      <4>1. k - 1 \in i..(j - 1) /\ t[k - 1] = r[k]
        BY <1>1
      <4> QED
        BY <3>1, <4>1
    <3>4. (j + 1) - 1 = j
      BY <3>1
    <3> QED
      BY <3>2, <3>3, <3>4 DEF Brings, n
  <2>2. ASSUME Brings(r, i + 1, version) PROVE Brings(t, i, version)
    <3>1. PICK j \in (i + 1)..n : /\ r[j].kind = "snapshot" /\ r[j].version = version
                                  /\ \A k \in (i + 1)..(j - 1) : r[k].kind = "current"
      BY <2>2 DEF Brings, n
    <3>2. /\ j - 1 \in i..(n - 1) /\ t[j - 1] = r[j]
      BY <1>1, <3>1
    <3>3. \A k \in i..((j - 1) - 1) : t[k].kind = "current"
      <4> SUFFICES ASSUME NEW k \in i..((j - 1) - 1) PROVE t[k].kind = "current"
        OBVIOUS
      <4>1. k + 1 \in (i + 1)..(j - 1) /\ t[k] = r[k + 1]
        BY <1>1
      <4> QED
        BY <3>1, <4>1
    <3> QED
      BY <1>1, <3>1, <3>2, <3>3 DEF Brings
  <2> QED
    BY <2>1, <2>2
<1>4. Latest(r, 1) <=> ~Answer(r[1]) /\ Latest(r, 2)
  <2>1. \A k \in 1..n : k = 1 \/ k \in 2..n
    OBVIOUS
  <2>2. 1 \in 1..n /\ \A k \in 2..n : k \in 1..n
    BY <1>1
  <2> QED
    BY <2>1, <2>2 DEF Latest, n
<1>5. Latest(t, 1) <=> Latest(r, 2)
  <2>1. 1 \in 1..n /\ 1 + 1 = 2
    BY <1>1
  <2> QED
    BY <1>2, <2>1
<1>6. i \in 1..n
  BY DEF n
<1> QED
  BY <1>2, <1>3, <1>4, <1>5, <1>6 DEF t

LEMMA TailMessages ==
    ASSUME NEW r \in Seq(TargetResponse), r # <<>>, MessagesTrue(r)
    PROVE  MessagesTrue(Tail(r))
<1> DEFINE t == Tail(r)
           n == Len(r)
<1>1. n \in Nat \ {0} /\ Len(t) = n - 1 /\ \A j \in 1..(n - 1) : t[j] = r[j + 1]
  BY TailFacts
<1>2. ASSUME NEW i \in 1..(n - 1)
      PROVE  /\ t[i].kind = "document" =>
                   /\ t[i].update.version \in 1..Version
                   /\ t[i].update.value = hist[t[i].update.version]
                   /\ Brings(t, i + 1, t[i].update.version)
             /\ t[i].kind = "snapshot" =>
                   t[i].version \in disk.snapshot..Version /\ t[i].version # 0
  <2>1. i + 1 \in 1..n /\ t[i] = r[i + 1]
    BY <1>1
  <2>2. /\ t[i].kind = "document" =>
              /\ t[i].update.version \in 1..Version
              /\ t[i].update.value = hist[t[i].update.version]
              /\ Brings(r, (i + 1) + 1, t[i].update.version)
        /\ t[i].kind = "snapshot" =>
              t[i].version \in disk.snapshot..Version /\ t[i].version # 0
    BY <2>1 DEF MessagesTrue
  <2>3. \A version : Brings(t, i + 1, version) <=> Brings(r, (i + 1) + 1, version)
    BY <2>1, TailPlaces
  <2> QED
    BY <2>2, <2>3
<1>3. ASSUME NEW i \in 1..(n - 1), NEW j \in 1..(n - 1),
             i < j, t[i].kind = "snapshot", t[j].kind = "snapshot"
      PROVE  t[i].version <= t[j].version
  <2>1. i + 1 \in 1..n /\ t[i] = r[i + 1] /\ j + 1 \in 1..n /\ t[j] = r[j + 1] /\ i + 1 < j + 1
    BY <1>1, <1>3
  <2> QED
    BY <1>3, <2>1 DEF MessagesTrue
<1> HIDE DEF t, n
<1>4. MessagesTrue(t)
  BY <1>1, <1>2, <1>3 DEF MessagesTrue
<1> QED
  BY <1>4 DEF t

\* The snapshot at place i + 1 is told as before, unless the first response
\* is the document, or the snapshot that changes the resume point.
LEMMA TailTold ==
    ASSUME NEW r \in Seq(TargetResponse), r # <<>>, NEW i \in 1..(Len(r) - 1),
           NEW update, NEW token, DocumentTold(r, i + 1, update, token), Latest(r, i + 1),
           ~(Latest(r, 1) /\ r[1].kind = "document")
    PROVE  DocumentTold(Tail(r), i, update, token)
<1> DEFINE t == Tail(r)
           n == Len(r)
<1>1. n \in Nat \ {0} /\ Len(t) = n - 1 /\ \A j \in 1..(n - 1) : t[j] = r[j + 1]
  BY TailFacts
<1>2. \A k \in 1..n : Latest(t, k) <=> Latest(r, k + 1)
  BY TailPlaces
<1>3. Latest(r, 1) => Latest(t, 1)
  BY <1>1, TailPlaces
<1>4. i \in 1..(n - 1)
  OBVIOUS
<1> HIDE DEF t, n
<1>5. ASSUME NEW j \in 1..i, r[j].kind = "document", \A k \in (j + 1)..i : r[k].kind = "current"
      PROVE  DocumentTold(t, i, update, token)
  <2>1. j # 1
    <3> SUFFICES ASSUME j = 1 PROVE FALSE
      OBVIOUS
    <3>1. \A k \in 1..n : k = 1 \/ k \in (j + 1)..i \/ k \in (i + 1)..n
      BY <1>1, <1>4
    <3>2. \A k \in (i + 1)..n : ~Answer(r[k])
      BY DEF Latest, n
    <3>3. \A k \in 1..n : ~Answer(r[k])
      BY <1>5, <3>1, <3>2 DEF Answer
    <3>4. Latest(r, 1)
      BY <3>3 DEF Latest, n
    <3> QED
      BY <1>5, <3>4
  <2>2. j - 1 \in 1..(i - 1) /\ t[j - 1] = r[j]
    BY <1>1, <1>4, <2>1
  <2>3. \A k \in ((j - 1) + 1)..(i - 1) : t[k].kind = "current"
    <3> SUFFICES ASSUME NEW k \in ((j - 1) + 1)..(i - 1) PROVE t[k].kind = "current"
      OBVIOUS
    <3>1. k + 1 \in (j + 1)..i /\ t[k] = r[k + 1]
      BY <1>1, <1>4
    <3> QED
      BY <1>5, <3>1
  <2> QED
    BY <1>5, <2>2, <2>3 DEF DocumentTold
<1>6. ASSUME /\ \A k \in 1..i : Latest(r, k) => r[k].kind = "current"
             /\ (Latest(r, 1) /\ update # NoUpdate) \/ Silent(r[i + 1].version, token)
      PROVE  DocumentTold(t, i, update, token)
  <2>1. ASSUME NEW k \in 1..(i - 1), Latest(t, k) PROVE t[k].kind = "current"
    <3>1. k + 1 \in 1..i /\ k \in 1..n /\ k \in 1..(n - 1)
      BY <1>1, <1>4
    <3>2. t[k] = r[k + 1]
      BY <1>1, <3>1
    <3> QED
      BY <1>2, <1>6, <2>1, <3>1, <3>2
  <2>2. t[i] = r[i + 1]
    BY <1>1, <1>4
  <2> QED
    BY <1>3, <1>6, <2>1, <2>2 DEF DocumentTold
<1>7. (i + 1) - 1 = i
  BY <1>4
<1>8. \/ \E j \in 1..i : r[j].kind = "document" /\ \A k \in (j + 1)..i : r[k].kind = "current"
      \/ /\ \A k \in 1..i : Latest(r, k) => r[k].kind = "current"
         /\ (Latest(r, 1) /\ update # NoUpdate) \/ Silent(r[i + 1].version, token)
  BY <1>7 DEF DocumentTold
<1>9. DocumentTold(t, i, update, token)
  BY <1>5, <1>6, <1>8
<1> QED
  BY <1>9 DEF t

\* After a document that the client has taken note of.
LEMMA TailNoted ==
    ASSUME NEW r \in Seq(TargetResponse), r # <<>>, NEW i \in 1..(Len(r) - 1),
           NEW update, NEW token, DocumentTold(r, i + 1, update, token), Latest(r, i + 1),
           Latest(r, 1), r[1].kind = "document", NEW noted, noted # NoUpdate
    PROVE  DocumentTold(Tail(r), i, noted, token)
<1> DEFINE t == Tail(r)
           n == Len(r)
<1>1. n \in Nat \ {0} /\ Len(t) = n - 1 /\ \A j \in 1..(n - 1) : t[j] = r[j + 1]
  BY TailFacts
<1>3. Latest(t, 1)
  BY <1>1, TailPlaces
<1>4. i \in 1..(n - 1) /\ (i + 1) - 1 = i
  OBVIOUS
<1> HIDE DEF t, n
<1>5. PICK j \in 1..i : r[j].kind = "document" /\ \A k \in (j + 1)..i : r[k].kind = "current"
  <2>1. ~(\A k \in 1..i : Latest(r, k) => r[k].kind = "current")
    BY <1>4
  <2> QED
    BY <1>4, <2>1 DEF DocumentTold
<1>6. CASE j = 1
  <2>1. \A k \in 1..(i - 1) : t[k].kind = "current"
    <3> SUFFICES ASSUME NEW k \in 1..(i - 1) PROVE t[k].kind = "current"
      OBVIOUS
    <3>1. k + 1 \in (j + 1)..i /\ t[k] = r[k + 1]
      BY <1>1, <1>4, <1>6
    <3> QED
      BY <1>5, <3>1
  <2>2. DocumentTold(t, i, noted, token)
    BY <1>3, <2>1 DEF DocumentTold
  <2> QED
    BY <2>2 DEF t
<1>7. CASE j # 1
  <2>2. j - 1 \in 1..(i - 1) /\ t[j - 1] = r[j]
    BY <1>1, <1>4, <1>7
  <2>3. \A k \in ((j - 1) + 1)..(i - 1) : t[k].kind = "current"
    <3> SUFFICES ASSUME NEW k \in ((j - 1) + 1)..(i - 1) PROVE t[k].kind = "current"
      OBVIOUS
    <3>1. k + 1 \in (j + 1)..i /\ t[k] = r[k + 1]
      BY <1>1, <1>4
    <3> QED
      BY <1>5, <3>1
  <2>4. DocumentTold(t, i, noted, token)
    BY <1>5, <2>2, <2>3 DEF DocumentTold
  <2> QED
    BY <2>4 DEF t
<1> QED
  BY <1>6, <1>7

\* After a snapshot, whatever it changes: the resume point only if the target
\* is active.
LEMMA TailRaised ==
    ASSUME NEW r \in Seq(TargetResponse), r # <<>>, NEW i \in 1..(Len(r) - 1),
           NEW update, NEW token, DocumentTold(r, i + 1, update, token), Latest(r, i + 1),
           r[1].kind = "snapshot", NEW raised, ~Latest(r, 1) => raised = token
    PROVE  DocumentTold(Tail(r), i, NoUpdate, raised)
<1> DEFINE t == Tail(r)
           n == Len(r)
<1>1. n \in Nat \ {0} /\ Len(t) = n - 1 /\ \A j \in 1..(n - 1) : t[j] = r[j + 1]
  BY TailFacts
<1>2. \A k \in 1..n : Latest(t, k) <=> Latest(r, k + 1)
  BY TailPlaces
<1>4. i \in 1..(n - 1) /\ (i + 1) - 1 = i
  OBVIOUS
<1> HIDE DEF t, n
<1>5. ASSUME NEW j \in 1..i, r[j].kind = "document", \A k \in (j + 1)..i : r[k].kind = "current"
      PROVE  DocumentTold(t, i, NoUpdate, raised)
  <2>1. j # 1
    BY <1>5
  <2>2. j - 1 \in 1..(i - 1) /\ t[j - 1] = r[j]
    BY <1>1, <1>4, <2>1
  <2>3. \A k \in ((j - 1) + 1)..(i - 1) : t[k].kind = "current"
    <3> SUFFICES ASSUME NEW k \in ((j - 1) + 1)..(i - 1) PROVE t[k].kind = "current"
      OBVIOUS
    <3>1. k + 1 \in (j + 1)..i /\ t[k] = r[k + 1]
      BY <1>1, <1>4
    <3> QED
      BY <1>5, <3>1
  <2> QED
    BY <1>5, <2>2, <2>3 DEF DocumentTold
<1>6. ASSUME /\ \A k \in 1..i : Latest(r, k) => r[k].kind = "current"
             /\ (Latest(r, 1) /\ update # NoUpdate) \/ Silent(r[i + 1].version, token)
      PROVE  DocumentTold(t, i, NoUpdate, raised)
  <2>0. ~Latest(r, 1)
    BY <1>4, <1>6
  <2>1. ASSUME NEW k \in 1..(i - 1), Latest(t, k) PROVE t[k].kind = "current"
    <3>1. k + 1 \in 1..i /\ k \in 1..n /\ k \in 1..(n - 1)
      BY <1>1, <1>4
    <3>2. t[k] = r[k + 1]
      BY <1>1, <3>1
    <3> QED
      BY <1>2, <1>6, <2>1, <3>1, <3>2
  <2>2. t[i] = r[i + 1]
    BY <1>1, <1>4
  <2> QED
    BY <1>6, <2>0, <2>1, <2>2 DEF DocumentTold
<1>8. \/ \E j \in 1..i : r[j].kind = "document" /\ \A k \in (j + 1)..i : r[k].kind = "current"
      \/ /\ \A k \in 1..i : Latest(r, k) => r[k].kind = "current"
         /\ (Latest(r, 1) /\ update # NoUpdate) \/ Silent(r[i + 1].version, token)
  BY <1>4 DEF DocumentTold
<1>9. DocumentTold(t, i, NoUpdate, raised)
  BY <1>5, <1>6, <1>8
<1> QED
  BY <1>9 DEF t

LEMMA TailCurrent ==
    ASSUME NEW r \in Seq(TargetResponse), r # <<>>, NEW i \in 1..Len(r),
           NEW current, CurrentTold(r, i + 1, current),
           NEW next, Latest(r, 1) /\ (current \/ r[1].kind = "current") => next
    PROVE  CurrentTold(Tail(r), i, next)
<1> DEFINE t == Tail(r)
           n == Len(r)
<1>1. n \in Nat \ {0} /\ Len(t) = n - 1 /\ \A j \in 1..(n - 1) : t[j] = r[j + 1]
  BY TailFacts
<1>2. \A k \in 1..n : Latest(t, k) <=> Latest(r, k + 1)
  BY TailPlaces
<1>3. Latest(r, 1) => Latest(t, 1)
  BY <1>1, TailPlaces
<1>4. i \in 1..n /\ (i + 1) - 1 = i
  OBVIOUS
<1> HIDE DEF t, n
<1>5. CASE Latest(r, 1) /\ current
  <2>1. CurrentTold(t, i, next)
    BY <1>3, <1>5 DEF CurrentTold
  <2> QED
    BY <2>1 DEF t
<1>6. ASSUME NEW k \in 1..i, Latest(r, k), r[k].kind = "current"
      PROVE  CurrentTold(t, i, next)
  <2>1. CASE k = 1
    <3>1. Latest(r, 1) /\ r[1].kind = "current"
      BY <1>6, <2>1
    <3>2. next /\ Latest(t, 1)
      BY <1>3, <3>1
    <3> QED
      BY <3>2 DEF CurrentTold
  <2>2. CASE k # 1
    <3>1. k - 1 \in 1..(i - 1) /\ k - 1 \in 1..n /\ t[k - 1] = r[k] /\ (k - 1) + 1 = k
      BY <1>1, <1>4, <2>2
    <3>2. Latest(t, k - 1)
      BY <1>2, <1>6, <3>1
    <3> QED
      BY <1>6, <3>1, <3>2 DEF CurrentTold
  <2> QED
    BY <2>1, <2>2
<1>7. (Latest(r, 1) /\ current) \/ \E k \in 1..i : Latest(r, k) /\ r[k].kind = "current"
  BY <1>4 DEF CurrentTold
<1> QED
  BY <1>5, <1>6, <1>7 DEF t

----------------------------------------------------------------------------
(* More responses.                                                         *)

LEMMA MoreFacts ==
    ASSUME NEW r \in Seq(TargetResponse), NEW more \in Seq(TargetResponse)
    PROVE  /\ r \o more \in Seq(TargetResponse)
           /\ Len(r) \in Nat /\ Len(more) \in Nat /\ Len(r \o more) = Len(r) + Len(more)
           /\ \A i \in 1..Len(r) : (r \o more)[i] = r[i]
           /\ \A i \in 1..Len(more) : (r \o more)[Len(r) + i] = more[i]
  OBVIOUS

LEMMA MorePlaces ==
    ASSUME NEW r \in Seq(TargetResponse), NEW more \in Seq(TargetResponse)
    PROVE  /\ \A i \in 1..(Len(r) + 1) :
                 Latest(r \o more, i) <=> Latest(r, i) /\ Latest(more, 1)
           /\ \A i \in 1..(Len(more) + 1) : Latest(r \o more, Len(r) + i) <=> Latest(more, i)
           /\ \A i \in 1..(Len(r) + 1) : \A version :
                 Brings(r, i, version) => Brings(r \o more, i, version)
           /\ \A i \in 1..Len(more) : \A version :
                 Brings(more, i, version) => Brings(r \o more, Len(r) + i, version)
<1> DEFINE all == r \o more
           n == Len(r)
           m == Len(more)
<1>1. /\ n \in Nat /\ m \in Nat /\ Len(all) = n + m
      /\ \A i \in 1..n : all[i] = r[i]
      /\ \A i \in 1..m : all[n + i] = more[i]
  BY MoreFacts
<1> HIDE DEF all, n, m
<1>2. ASSUME NEW i \in 1..(n + 1) PROVE Latest(all, i) <=> Latest(r, i) /\ Latest(more, 1)
  <2>1. ASSUME Latest(all, i) PROVE Latest(r, i) /\ Latest(more, 1)
    <3>1. ASSUME NEW k \in i..n PROVE ~Answer(r[k])
      <4>1. k \in i..(n + m) /\ k \in 1..n
        BY <1>1
      <4> QED
        BY <1>1, <2>1, <4>1 DEF Latest
    <3>2. ASSUME NEW k \in 1..m PROVE ~Answer(more[k])
      <4>1. n + k \in i..(n + m)
        BY <1>1
      <4> QED
        BY <1>1, <2>1, <4>1 DEF Latest
    <3> QED
      BY <3>1, <3>2 DEF Latest, n, m
  <2>2. ASSUME Latest(r, i), Latest(more, 1) PROVE Latest(all, i)
    <3> SUFFICES ASSUME NEW k \in i..(n + m) PROVE ~Answer(all[k])
      BY <1>1 DEF Latest
    <3>1. CASE k <= n
      <4>1. k \in i..n /\ k \in 1..n
        BY <1>1, <3>1
      <4> QED
        BY <1>1, <2>2, <4>1 DEF Latest, n
    <3>2. CASE k > n
      <4>1. k - n \in 1..m /\ n + (k - n) = k
        BY <1>1, <3>2
      <4>2. all[k] = more[k - n]
        BY <1>1, <4>1
      <4> QED
        BY <2>2, <4>1, <4>2 DEF Latest, m
    <3> QED
      BY <1>1, <3>1, <3>2
  <2> QED
    BY <2>1, <2>2
<1>3. ASSUME NEW i \in 1..(m + 1) PROVE Latest(all, n + i) <=> Latest(more, i)
  <2>1. ASSUME Latest(all, n + i) PROVE Latest(more, i)
    <3> SUFFICES ASSUME NEW k \in i..m PROVE ~Answer(more[k])
      BY DEF Latest, m
    <3>1. n + k \in (n + i)..(n + m) /\ k \in 1..m
      BY <1>1
    <3> QED
      BY <1>1, <2>1, <3>1 DEF Latest
  <2>2. ASSUME Latest(more, i) PROVE Latest(all, n + i)
    <3> SUFFICES ASSUME NEW k \in (n + i)..(n + m) PROVE ~Answer(all[k])
      BY <1>1 DEF Latest
    <3>1. k - n \in i..m /\ k - n \in 1..m /\ n + (k - n) = k
      BY <1>1
    <3>2. all[k] = more[k - n]
      BY <1>1, <3>1
    <3> QED
      BY <2>2, <3>1, <3>2 DEF Latest, m
  <2> QED
    BY <2>1, <2>2
<1>4. ASSUME NEW i \in 1..(n + 1), NEW version, Brings(r, i, version) PROVE Brings(all, i, version)
  <2>1. PICK j \in i..n : /\ r[j].kind = "snapshot" /\ r[j].version = version
                          /\ \A k \in i..(j - 1) : r[k].kind = "current"
    BY <1>4 DEF Brings, n
  <2>2. j \in i..(n + m) /\ j \in 1..n /\ \A k \in i..(j - 1) : k \in 1..n
    BY <1>1
  <2>3. all[j] = r[j] /\ \A k \in i..(j - 1) : all[k] = r[k]
    BY <1>1, <2>2
  <2> QED
    BY <1>1, <2>1, <2>2, <2>3 DEF Brings
<1>5. ASSUME NEW i \in 1..m, NEW version, Brings(more, i, version)
      PROVE  Brings(all, n + i, version)
  <2>1. PICK j \in i..m : /\ more[j].kind = "snapshot" /\ more[j].version = version
                          /\ \A k \in i..(j - 1) : more[k].kind = "current"
    BY <1>5 DEF Brings, m
  <2>2. n + j \in (n + i)..(n + m) /\ j \in 1..m
    BY <1>1
  <2>3. all[n + j] = more[j]
    BY <1>1, <2>2
  <2>4. ASSUME NEW k \in (n + i)..((n + j) - 1) PROVE all[k].kind = "current"
    <3>0. n \in Nat /\ m \in Nat /\ j \in Int
      BY <1>1
    <3>1. k - n \in i..(j - 1) /\ k - n \in 1..m /\ n + (k - n) = k
      BY <3>0
    <3>2. all[k] = more[k - n]
      BY <1>1, <3>1
    <3> QED
      BY <2>1, <3>1, <3>2
  <2> QED
    BY <1>1, <2>1, <2>2, <2>3, <2>4 DEF Brings
<1>6. /\ \A i \in 1..(n + 1) : Latest(all, i) <=> Latest(r, i) /\ Latest(more, 1)
      /\ \A i \in 1..(m + 1) : Latest(all, n + i) <=> Latest(more, i)
  BY <1>2, <1>3
<1>7. /\ \A i \in 1..(n + 1) : \A version : Brings(r, i, version) => Brings(all, i, version)
      /\ \A i \in 1..m : \A version : Brings(more, i, version) => Brings(all, n + i, version)
  BY <1>4, <1>5
<1> QED
  BY <1>6, <1>7 DEF all, n, m

\* What the server says now.
TrueNow(more) ==
    \A i \in 1..Len(more) :
        /\ more[i].kind = "document" =>
              /\ more[i].update.version = Version /\ more[i].update.value = hist[Version]
              /\ i + 1 \in 1..Len(more) /\ Brings(more, i + 1, Version)
        /\ more[i].kind = "snapshot" => more[i].version = Version

LEMMA MoreMessages ==
    ASSUME Typed, NEW r \in Seq(TargetResponse), NEW more \in Seq(TargetResponse),
           MessagesTrue(r), TrueNow(more), disk.snapshot <= Version
    PROVE  MessagesTrue(r \o more)
<1> DEFINE all == r \o more
           n == Len(r)
           m == Len(more)
<1>1. /\ n \in Nat /\ m \in Nat /\ Len(all) = n + m
      /\ \A i \in 1..n : all[i] = r[i]
      /\ \A i \in 1..m : all[n + i] = more[i]
  BY MoreFacts
<1>2. Version \in Nat \ {0} /\ disk.snapshot \in Nat
  BY Fields
<1>3. /\ \A i \in 1..(n + 1) : \A version : Brings(r, i, version) => Brings(all, i, version)
      /\ \A i \in 1..m : \A version : Brings(more, i, version) => Brings(all, n + i, version)
  BY MorePlaces
<1> HIDE DEF all, n, m
<1>4. ASSUME NEW i \in 1..(n + m) PROVE i \in 1..n \/ \E j \in 1..m : i = n + j
  <2>1. i \in 1..n \/ (i - n \in 1..m /\ i = n + (i - n))
    BY <1>1
  <2> QED
    BY <2>1
<1>5. ASSUME NEW i \in 1..(n + m)
      PROVE  /\ all[i].kind = "document" =>
                   /\ all[i].update.version \in 1..Version
                   /\ all[i].update.value = hist[all[i].update.version]
                   /\ Brings(all, i + 1, all[i].update.version)
             /\ all[i].kind = "snapshot" =>
                   all[i].version \in disk.snapshot..Version /\ all[i].version # 0
  <2>1. CASE i \in 1..n
    <3>1. all[i] = r[i] /\ i + 1 \in 1..(n + 1)
      BY <1>1, <2>1
    <3> QED
      BY <1>3, <2>1, <3>1 DEF MessagesTrue, n
  <2>2. ASSUME NEW j \in 1..m, i = n + j
        PROVE  /\ all[i].kind = "document" =>
                     /\ all[i].update.version \in 1..Version
                     /\ all[i].update.value = hist[all[i].update.version]
                     /\ Brings(all, i + 1, all[i].update.version)
               /\ all[i].kind = "snapshot" =>
                     all[i].version \in disk.snapshot..Version /\ all[i].version # 0
    <3>1. all[i] = more[j] /\ i + 1 = n + (j + 1)
      BY <1>1, <2>2
    <3>2. /\ more[j].kind = "document" =>
                /\ more[j].update.version = Version /\ more[j].update.value = hist[Version]
                /\ j + 1 \in 1..m /\ Brings(more, j + 1, Version)
          /\ more[j].kind = "snapshot" => more[j].version = Version
      BY DEF TrueNow, m
    <3>3. Version \in 1..Version /\ Version \in disk.snapshot..Version /\ Version # 0
      BY <1>2
    <3> QED
      BY <1>3, <3>1, <3>2, <3>3
  <2> QED
    BY <1>4, <2>1, <2>2
<1>6. ASSUME NEW i \in 1..(n + m), NEW j \in 1..(n + m),
             i < j, all[i].kind = "snapshot", all[j].kind = "snapshot"
      PROVE  all[i].version <= all[j].version
  <2>1. CASE j \in 1..n
    <3>1. i \in 1..n /\ all[i] = r[i] /\ all[j] = r[j]
      BY <1>1, <1>6, <2>1
    <3> QED
      BY <1>6, <2>1, <3>1 DEF MessagesTrue, n
  <2>2. ASSUME NEW k \in 1..m, j = n + k PROVE all[i].version <= all[j].version
    <3>1. all[j] = more[k]
      BY <1>1, <2>2
    <3>2. all[j].version = Version
      BY <1>6, <3>1 DEF TrueNow, m
    <3>3. all[i].version \in disk.snapshot..Version
      BY <1>5, <1>6
    <3> QED
      BY <1>2, <3>2, <3>3
  <2> QED
    BY <1>4, <2>1, <2>2
<1>7. MessagesTrue(all)
  BY <1>1, <1>5, <1>6 DEF MessagesTrue
<1> QED
  BY <1>7 DEF all

\* What was told is told, if no answer comes with it.
LEMMA MoreTold ==
    ASSUME NEW r \in Seq(TargetResponse), NEW more \in Seq(TargetResponse), Latest(more, 1)
    PROVE  /\ \A i \in 1..Len(r) : \A update, token :
                 DocumentTold(r, i, update, token) => DocumentTold(r \o more, i, update, token)
           /\ \A i \in 1..(Len(r) + 1) : \A current : \A j \in i..(Len(r) + Len(more) + 1) :
                 CurrentTold(r, i, current) => CurrentTold(r \o more, j, current)
<1> DEFINE all == r \o more
           n == Len(r)
           m == Len(more)
<1>1. n \in Nat /\ m \in Nat /\ \A i \in 1..n : all[i] = r[i]
  BY MoreFacts
<1>2. \A i \in 1..(n + 1) : Latest(all, i) <=> Latest(r, i)
  BY MorePlaces
<1>3. 1 \in 1..(n + 1)
  BY <1>1
<1> HIDE DEF all, n, m
<1>4. ASSUME NEW i \in 1..n, NEW update, NEW token, DocumentTold(r, i, update, token)
      PROVE  DocumentTold(all, i, update, token)
  <2>1. all[i] = r[i] /\ (Latest(all, 1) <=> Latest(r, 1))
    BY <1>1, <1>2, <1>3
  <2>2. \A k \in 1..(i - 1) : all[k] = r[k] /\ (Latest(all, k) <=> Latest(r, k))
    <3>1. \A k \in 1..(i - 1) : k \in 1..n /\ k \in 1..(n + 1)
      BY <1>1
    <3> QED
      BY <1>1, <1>2, <3>1
  <2>3. ASSUME NEW j \in 1..(i - 1), r[j].kind = "document",
               \A k \in (j + 1)..(i - 1) : r[k].kind = "current"
        PROVE  DocumentTold(all, i, update, token)
    <3>1. \A k \in (j + 1)..(i - 1) : k \in 1..(i - 1)
      BY <1>1
    <3>2. all[j].kind = "document" /\ \A k \in (j + 1)..(i - 1) : all[k].kind = "current"
      BY <2>2, <2>3, <3>1
    <3> QED
      BY <3>2 DEF DocumentTold
  <2>4. ASSUME /\ \A k \in 1..(i - 1) : Latest(r, k) => r[k].kind = "current"
               /\ (Latest(r, 1) /\ update # NoUpdate) \/ Silent(r[i].version, token)
        PROVE  DocumentTold(all, i, update, token)
    <3>1. \A k \in 1..(i - 1) : Latest(all, k) => all[k].kind = "current"
      BY <2>2, <2>4
    <3>2. (Latest(all, 1) /\ update # NoUpdate) \/ Silent(all[i].version, token)
      BY <2>1, <2>4
    <3> QED
      BY <3>1, <3>2 DEF DocumentTold
  <2> QED
    BY <1>4, <2>3, <2>4 DEF DocumentTold
<1>5. ASSUME NEW i \in 1..(n + 1), NEW current, NEW j \in i..(n + m + 1), CurrentTold(r, i, current)
      PROVE  CurrentTold(all, j, current)
  <2>1. CASE Latest(r, 1) /\ current
    BY <1>2, <1>3, <2>1 DEF CurrentTold
  <2>2. ASSUME NEW k \in 1..(i - 1), Latest(r, k), r[k].kind = "current"
        PROVE  CurrentTold(all, j, current)
    <3>1. k \in 1..n /\ k \in 1..(n + 1) /\ k \in 1..(j - 1)
      BY <1>1
    <3>2. all[k].kind = "current" /\ Latest(all, k)
      BY <1>1, <1>2, <2>2, <3>1
    <3> QED
      BY <3>1, <3>2 DEF CurrentTold
  <2> QED
    BY <1>5, <2>1, <2>2 DEF CurrentTold
<1> QED
  BY <1>4, <1>5 DEF all, n, m

----------------------------------------------------------------------------
(* What the app is shown.                                                  *)

LEMMA GetFields ==
    ASSUME NEW g \in Get
    PROVE  /\ g.state \in {"off", "waiting", "answered"} /\ g.asked \in Nat
           /\ g.value \in MaybeDocument /\ g.local \in BOOLEAN /\ g.from_cache \in BOOLEAN
  BY DEF Get

LEMMA AfterOnlineView ==
    ASSUME NEW v \in View, NEW o
    PROVE  LET w == AfterOnline(v, o)
           IN  /\ w \in View /\ w.on = v.on /\ w.doc = v.doc
               /\ w.synced_documents = v.synced_documents
               /\ w.current => v.current
               /\ v = NoView => w = NoView
<1> DEFINE w == AfterOnline(v, o)
<1>1. w = v \/ w = [v EXCEPT !.current = FALSE]
  BY DEF AfterOnline
<1> HIDE DEF w
<1>2. ASSUME ~v.current PROVE [v EXCEPT !.current = FALSE] = v
  BY <1>2 DEF View
<1>4. v = NoView => w = NoView
  <2>1. ~NoView.current
    BY DEF NoView
  <2> QED
    BY <1>1, <1>2, <2>1
<1>3. /\ w \in View /\ w.on = v.on /\ w.doc = v.doc
      /\ w.synced_documents = v.synced_documents
      /\ w.current => v.current
  BY <1>1 DEF View
<1> QED
  BY <1>3, <1>4 DEF w

LEMMA ListenerSeesType ==
    ASSUME NEW l \in Listener, NEW v, NEW w \in View, NEW o
    PROVE  ListenerSees(l, v, w, o) \in Listener
<1>1. w.doc.value \in MaybeDocument
  BY ViewFields
<1> QED
  BY <1>1 DEF ListenerSees, Listener

\* getDocument goes on waiting, or is answered with what the view shows.
LEMMA GetSeesType ==
    ASSUME NEW g \in Get, NEW w \in View, NEW o
    PROVE  LET h == GetSees(g, w, o)
           IN  /\ h \in Get /\ h.asked = g.asked
               /\ \/ h = g
                  \/ /\ h.state = "answered" /\ g.state = "waiting"
                     /\ h.value = w.doc.value /\ h.local = (w.doc.state = "local")
                     /\ h.from_cache = ~Synced(w)
<1>1. w.doc.value \in MaybeDocument /\ w.doc.state \in {"local", "committed", "synced"}
  BY ViewFields
<1>2. Synced(w) \in BOOLEAN
  BY ViewFields DEF Synced, InLimbo
<1> QED
  BY <1>1, <1>2 DEF GetSees, Get

\* What is sound for the view is sound after it is shown.
LEMMA GetSeesSound ==
    ASSUME Typed,
           NEW g \in Get, NEW w \in View, NEW o, NEW cache, NEW token \in Nat,
           CurrentSound(w, g, cache, token), token <= Version,
           g.asked <= Version,
           g.state # "answered"
    PROVE  LET h == GetSees(g, w, o)
           IN  /\ CurrentSound(w, h, cache, token)
               /\ h.state = "answered" /\ ~h.from_cache /\ ~h.local =>
                     \E n \in h.asked..Version : h.value = hist[n]
<1> DEFINE h == GetSees(g, w, o)
<1>1. /\ h \in Get /\ h.asked = g.asked
      /\ \/ h = g
         \/ /\ h.state = "answered" /\ g.state = "waiting"
            /\ h.value = w.doc.value /\ h.local = (w.doc.state = "local")
            /\ h.from_cache = ~Synced(w)
  BY GetSeesType
<1> HIDE DEF h
<1>2. CurrentSound(w, h, cache, token)
  BY <1>1 DEF CurrentSound
<1>3. ASSUME h.state = "answered", ~h.from_cache, ~h.local
      PROVE  \E n \in h.asked..Version : h.value = hist[n]
  <2>1. Synced(w) /\ w.doc.state # "local" /\ h.value = w.doc.value /\ g.state = "waiting"
    BY <1>1, <1>3
  <2>2. w.current
    BY <2>1 DEF Synced
  <2>3. h.value = hist[token] /\ g.asked <= token
    BY <2>1, <2>2 DEF CurrentSound
  <2>4. token \in h.asked..Version
    BY <1>1, <2>3, Fields, GetFields
  <2> QED
    BY <2>3, <2>4
<1> QED
  BY <1>2, <1>3 DEF h

\* Showing a sound view to the listeners.
LEMMA ShowKeeps ==
    ASSUME Typed, GetInv, ListeningInv, UNCHANGED hist,
           NEW v \in View, NEW o \in Online, Show(v, o), v.on = view.on,
           resume_token' \in Nat, resume_token' <= Version,
           DocumentSound(v, queue', disk'.cache), CurrentSound(v, get, disk'.cache, resume_token')
    PROVE  /\ view' \in View /\ view'.on = v.on /\ view'.doc = v.doc
           /\ view'.synced_documents = v.synced_documents
           /\ view'.current => v.current
           /\ online' = o /\ online' \in Online /\ listener' \in Listener
           /\ get' \in Get /\ get'.asked = get.asked
           /\ get'.state = "waiting" => get.state = "waiting"
           /\ ViewInv'
<1> DEFINE w == AfterOnline(v, o)
<1>1. view' = w /\ online' = o /\ listener' = ListenerSees(listener, view, w, o)
      /\ get' = GetSees(get, w, o)
  BY DEF Show
<1>2. /\ w \in View /\ w.on = v.on /\ w.doc = v.doc
      /\ w.synced_documents = v.synced_documents
      /\ w.current => v.current
      /\ v = NoView => w = NoView
  BY AfterOnlineView
<1> HIDE DEF w
<1>3. listener' \in Listener
  BY <1>1, <1>2, ListenerSeesType DEF Typed
<1>4. get \in Get
  BY DEF Typed
<1>5. get' \in Get /\ get'.asked = get.asked /\ (get'.state = "waiting" => get.state = "waiting")
  BY <1>1, <1>2, <1>4, GetSeesType
<1>6. DocumentSound(w, queue', disk'.cache)
  BY <1>2 DEF DocumentSound
<1>7. CurrentSound(w, get, disk'.cache, resume_token')
  BY <1>2 DEF CurrentSound
<1>8. Version' = Version /\ ListeningInv'
  <2>1. listener'.state = "off" <=> listener.state = "off"
    BY <1>1 DEF ListenerSees, Typed, Listener
  <2>2. get'.state = "off" <=> get.state = "off"
    BY <1>1, <1>4 DEF GetSees, Get
  <2> QED
    BY <1>1, <1>2, <2>1, <2>2 DEF Version, ListeningInv
<1>9. CASE get.state = "answered"
  <2>1. get' = get
    BY <1>1, <1>9 DEF GetSees
  <2>2. CurrentSound(view', get', disk'.cache, resume_token')
    BY <1>1, <1>7, <2>1
  <2>3. CurrentSound(view, get, disk.cache, resume_token)'
    BY <2>2 DEF CurrentSound
  <2>4. GetInv'
    BY <1>8, <2>1 DEF GetInv
  <2> QED
    BY <1>1, <1>2, <1>3, <1>5, <1>6, <1>8, <2>3, <2>4 DEF ViewInv, DocumentSound
<1>10. CASE get.state # "answered"
  <2>1. get.asked <= Version
    BY DEF GetInv
  <2>2. /\ CurrentSound(w, get', disk'.cache, resume_token')
        /\ get'.state = "answered" /\ ~get'.from_cache /\ ~get'.local =>
              \E n \in get'.asked..Version : get'.value = hist[n]
    BY <1>1, <1>2, <1>4, <1>7, <1>10, <2>1, GetSeesSound
  <2>3. CurrentSound(view, get, disk.cache, resume_token)'
    BY <1>1, <2>2 DEF CurrentSound
  <2>4. GetInv'
    BY <1>5, <1>8, <2>1, <2>2 DEF GetInv
  <2> QED
    BY <1>1, <1>2, <1>3, <1>5, <1>6, <1>8, <2>3, <2>4 DEF ViewInv, DocumentSound
<1> QED
  BY <1>9, <1>10

\* What ComputeDocumentChanges makes of a document: of an app that has sets,
\* the newest of them; otherwise what is cached, or a set that waits for it.
LEMMA NextDocumentFacts ==
    ASSUME ListenAssumption, NEW old \in ViewDocument, NEW q \in Seq(OwnValues),
           NEW cache \in CacheEntry, cache.committed => cache.value \in OwnValues,
           old.state = "local" => old.value \in OwnValues
    PROVE  LET d == NextDocument(old, LocalDocument(q, cache))
           IN  /\ d \in ViewDocument
               /\ d.state = "local" => d.value \in OwnValues
               /\ q # <<>> => d = [value |-> Last(q), state |-> "local"]
               /\ d.state # "local" => d.value = cache.value
               /\ q = <<>> /\ ~cache.committed => d.state # "local"
               /\ q = <<>> /\ cache.committed /\ old.state = "local" => d.state = "local"
<1> DEFINE new == LocalDocument(q, cache)
           d == NextDocument(old, new)
<1>1. Missing \notin OwnValues /\ OwnValues \subseteq MaybeDocument
  BY Values
<1>2. /\ cache.value \in MaybeDocument /\ cache.committed \in BOOLEAN
      /\ old.value \in MaybeDocument /\ old.state \in {"local", "committed", "synced"}
  BY DEF CacheEntry, ViewDocument
<1>3. CASE q # <<>>
  <2>1. Last(q) \in OwnValues
    BY <1>3 DEF Last
  <2>2. new = [value |-> Last(q), state |-> "local"]
    BY <1>3 DEF LocalDocument
  <2>3. new \in ViewDocument /\ new.value = Last(q) /\ new.state = "local"
    BY <1>1, <2>1, <2>2 DEF ViewDocument
  <2> HIDE DEF new
  <2>4. d = new
    <3>1. ~ShouldWaitForSyncedDocument(old, new)
      BY <2>3 DEF ShouldWaitForSyncedDocument
    <3>2. CASE old.value = new.value /\ old.state = "local"
      BY <2>3, <3>2 DEF NextDocument, ViewDocument
    <3>3. CASE ~(old.value = new.value /\ old.state = "local")
      BY <2>3, <3>1, <3>3 DEF NextDocument
    <3> QED
      BY <3>2, <3>3
  <2> HIDE DEF d
  <2>5. /\ d \in ViewDocument
        /\ d.state = "local" => d.value \in OwnValues
        /\ q # <<>> => d = [value |-> Last(q), state |-> "local"]
        /\ d.state # "local" => d.value = cache.value
        /\ q = <<>> /\ ~cache.committed => d.state # "local"
        /\ q = <<>> /\ cache.committed /\ old.state = "local" => d.state = "local"
    BY <1>3, <2>1, <2>2, <2>3, <2>4
  <2> QED
    BY <2>5 DEF d, new
<1>4. CASE q = <<>>
  <2>1. /\ new.value = cache.value /\ new \in ViewDocument
        /\ new.state = IF cache.committed THEN "committed" ELSE "synced"
    BY <1>2, <1>4 DEF LocalDocument, ViewDocument
  <2> HIDE DEF new
  <2>2. CASE ~cache.committed
    <3>1. ~ShouldWaitForSyncedDocument(old, new) /\ new.state = "synced"
      BY <2>1, <2>2 DEF ShouldWaitForSyncedDocument
    <3>2. d = new \/ (d = old /\ old.value = new.value /\ old.state # "local")
      BY <3>1 DEF NextDocument
    <3> HIDE DEF d
    <3>3. d \in ViewDocument /\ d.state # "local" /\ d.value = cache.value
      BY <2>1, <3>1, <3>2
    <3> QED
      BY <1>4, <2>2, <3>3 DEF d, new
  <2>3. CASE cache.committed
    <3>1. /\ new.state = "committed" /\ Exists(new)
          /\ ShouldWaitForSyncedDocument(old, new) <=> old.state = "local"
      BY <1>1, <2>1, <2>3 DEF ShouldWaitForSyncedDocument, Exists
    <3>2. CASE old.state = "local"
      <4>1. Exists(old)
        BY <1>1, <3>2 DEF Exists
      <4>2. d = old
        BY <3>1, <3>2, <4>1 DEF NextDocument
      <4> HIDE DEF d
      <4>3. d \in ViewDocument /\ d.state = "local" /\ d.value \in OwnValues
        BY <3>2, <4>2
      <4> QED
        BY <1>4, <2>3, <3>2, <4>3 DEF d, new
    <3>3. CASE old.state # "local"
      <4>1. d = new \/ (d = old /\ old.value = new.value)
        BY <3>1, <3>3 DEF NextDocument
      <4> HIDE DEF d
      <4>2. d \in ViewDocument /\ d.state # "local" /\ d.value = cache.value
        BY <2>1, <3>1, <3>3, <4>1
      <4> QED
        BY <1>4, <2>3, <3>3, <4>2 DEF d, new
    <3> QED
      BY <3>2, <3>3
  <2> QED
    BY <2>2, <2>3
<1> QED
  BY <1>3, <1>4

----------------------------------------------------------------------------
(* Kinds of steps.                                                         *)

\* The view can show the cached document.
Settled(d, cache) == cache.committed => d.state # "local"

\* The stream goes on as it was, while the app, its queue or its view change.
LEMMA CalmKeeps ==
    ASSUME ListenInv, Typed', ViewInv', OnlineInv', AcksSound', CacheSound',
           UNCHANGED <<hist, resume_token, watch_stream_, aggregator>>,
           disk'.token = disk.token, disk'.key = disk.key, disk'.snapshot = disk.snapshot,
           disk.cache.version <= disk'.cache.version,
           view'.on = view.on, view'.synced_documents = view.synced_documents,
           get'.state = "waiting" =>
               get'.asked = 0 \/ (get.state = "waiting" /\ get'.asked = get.asked),
           view.on /\ Settled(view'.doc, disk'.cache) =>
               Settled(view.doc, disk.cache) /\ disk'.cache.version = disk.cache.version,
           view'.current => view.current
    PROVE  ListenInv'
<1>1. Typed /\ DiskInv /\ MessagesInv /\ StreamInv /\ TargetInv /\ Version' = Version
  BY DEF ListenInv, Version
<1>2. disk.token \in Nat /\ resume_token \in Nat /\ disk.cache.version \in Nat
      /\ disk'.cache.version \in Nat
  <2>1. disk.token \in Nat /\ resume_token \in Nat /\ disk.cache.version \in Nat
    BY <1>1, Fields
  <2>2. disk'.cache.version \in Nat
    BY DEF Typed, CacheEntry
  <2> QED
    BY <2>1, <2>2
<1>3. \A token \in Nat : \A key : Resumes(token, key) => Resumes(token, key)'
  BY <1>2 DEF Resumes
<1>4. DiskInv'
  <2>1. Resumes(disk.token, disk.key)
    BY <1>1 DEF DiskInv
  <2>2. Resumes(disk.token, disk.key)'
    BY <1>2, <1>3, <2>1
  <2> QED
    BY <1>1, <2>2 DEF DiskInv
<1>5. MessagesInv'
  BY <1>1 DEF MessagesInv, MessagesTrue, UpdateTrue
<1>6. StreamInv'
  BY <1>1 DEF StreamInv
<1>7. SyncedInv'
  <2>1. SyncedInv
    BY <1>1 DEF TargetInv
  <2>2. view.on => Resumes(resume_token, view.synced_documents)'
    BY <1>2, <1>3, <2>1 DEF SyncedInv
  <2> QED
    BY <2>1, <2>2 DEF SyncedInv
<1>8. ChangeInv'
  BY <1>1 DEF TargetInv, ChangeInv
<1>9. ToldInv'
  <2> DEFINE r == watch_stream_.responses
  <2>1. SUFFICES ASSUME view.on, watch_stream_.requests = <<>>
        PROVE  /\ watch_stream_.sent # 0 => CurrentTold(r, Len(r) + 1, aggregator.current)
               /\ \A i \in 1..Len(r) : Latest(r, i) /\ r[i].kind = "snapshot" =>
                     /\ DocumentTold(r, i, aggregator.update, resume_token)'
                     /\ CurrentTold(r, i, aggregator.current)
                     /\ ShownBy(r[i].version, get', view'.doc, disk'.cache)
    BY DEF ToldInv
  <2>2. /\ watch_stream_.sent # 0 => CurrentTold(r, Len(r) + 1, aggregator.current)
        /\ \A i \in 1..Len(r) : Latest(r, i) /\ r[i].kind = "snapshot" =>
              /\ DocumentTold(r, i, aggregator.update, resume_token)
              /\ CurrentTold(r, i, aggregator.current)
              /\ ShownBy(r[i].version, get, view.doc, disk.cache)
    BY <1>1, <2>1 DEF TargetInv, ToldInv
  <2>3. \A i : DocumentTold(r, i, aggregator.update, resume_token)
                   => DocumentTold(r, i, aggregator.update, resume_token)'
    BY DEF DocumentTold, Silent
  <2>4. ASSUME NEW i \in 1..Len(r), r[i].kind = "snapshot",
               ShownBy(r[i].version, get, view.doc, disk.cache)
        PROVE  ShownBy(r[i].version, get', view'.doc, disk'.cache)
    <3>1. r[i].version \in Nat
      <4>1. watch_stream_ \in Stream
        BY <1>1 DEF Typed
      <4>2. r[i] \in TargetResponse
        BY <4>1, StreamFields
      <4> QED
        BY <2>4, <4>2, ResponseFields
    <3>2. Settled(view'.doc, disk'.cache) => disk'.cache.version <= r[i].version
      BY <2>1, <2>4 DEF ShownBy, Settled
    <3>3. get'.state = "waiting" => get'.asked <= r[i].version
      BY <2>4, <3>1 DEF ShownBy
    <3> QED
      BY <3>2, <3>3 DEF ShownBy, Settled
  <2> QED
    BY <2>2, <2>3, <2>4
<1> QED
  BY <1>4, <1>5, <1>6, <1>7, <1>8, <1>9 DEF ListenInv, TargetInv

\* The stream is a new one, or one that nothing has passed on yet.
LEMMA ResetKeeps ==
    ASSUME ListenAssumption, Typed', DiskInv', SyncedInv', OnlineInv', ViewInv',
           NEW state \in {"Initial", "Starting", "Open", "Error", "Backoff"},
           watch_stream_' = NewStream(state), aggregator' = NewAggregator,
           view'.on => state \in {"Starting", "Open", "Backoff"}
    PROVE  ListenInv'
<1> DEFINE s == NewStream(state)
           g == NewAggregator
<1>1. /\ s.state = state /\ ~s.idle /\ s.requests = <<>> /\ s.responses = <<>> /\ s.sent = 0
      /\ g.outstanding = 0 /\ g.change = "none" /\ g.update = NoUpdate /\ ~g.current
  BY NewFields
<1> HIDE DEF s, g
<1>2. watch_stream_' = s /\ aggregator' = g
  BY DEF s, g
<1>3. MessagesInv'
  BY <1>1, <1>2 DEF MessagesInv, MessagesTrue, UpdateTrue
<1>4. Version' \in Nat
  BY DEF Typed, Version
<1>5. Cardinality(Answers(s.responses)) = 0
  <2>1. Answers(s.responses) = {}
    BY <1>1 DEF Answers
  <2> QED
    BY <2>1, FS_EmptySet
<1>6. StreamInv'
  <2>1. s = NewStream(s.state) /\ g = NewAggregator
    BY <1>1 DEF s, g
  <2>2. view'.on => IsStarted(s)
    BY <1>1 DEF IsStarted
  <2>3. g.outstanding = Len(s.requests) + Cardinality(Answers(s.responses)) /\ s.sent <= Version'
    BY <1>1, <1>4, <1>5
  <2>4. /\ ~IsOpen(s) => s = NewStream(s.state) /\ g = NewAggregator
        /\ view'.on => IsStarted(s) /\ ~s.idle
        /\ g.outstanding = Len(s.requests) + Cardinality(Answers(s.responses))
        /\ s.sent <= Version'
        /\ view'.on /\ s.requests # <<>> => Last(s.requests) = Watch(resume_token')
        /\ view'.on /\ s.requests = <<>> =>
              \A i \in 1..Len(s.responses) : s.responses[i].kind = "removed" => ~Latest(s.responses, i + 1)
    BY <1>1, <2>1, <2>2, <2>3
  <2> QED
    BY <1>2, <2>4 DEF StreamInv
<1>7. ChangeInv'
  BY <1>1, <1>2 DEF ChangeInv
<1>8. ToldInv'
  BY <1>1, <1>2 DEF ToldInv
<1> QED
  BY <1>3, <1>6, <1>7, <1>8 DEF ListenInv, TargetInv

\* The client sends a request on the open stream, and waits for its answer.
LEMMA RequestKeeps ==
    ASSUME ListenInv, Typed', DiskInv', SyncedInv', OnlineInv', ViewInv',
           UNCHANGED hist, disk'.snapshot = disk.snapshot, NEW request \in TargetRequest,
           watch_stream_'.state = "Open",
           watch_stream_'.requests = Append(watch_stream_.requests, request),
           watch_stream_'.responses = watch_stream_.responses,
           watch_stream_'.sent = watch_stream_.sent,
           aggregator' = RecordPendingTargetRequest(aggregator),
           view'.current => aggregator.update = NoUpdate,
           view'.on => request = Watch(resume_token') /\ ~watch_stream_'.idle
    PROVE  ListenInv'
<1> DEFINE s == watch_stream_
           g == aggregator
           r == watch_stream_.responses
<1>1. Typed /\ MessagesInv /\ StreamInv /\ Version' = Version
  BY DEF ListenInv, Version
<1>2. /\ s.requests \in Seq(TargetRequest) /\ r \in Seq(TargetResponse)
      /\ g \in Aggregator /\ g.outstanding \in Nat
  BY <1>1, StreamFields, AggregatorFields DEF Typed
<1>3. /\ aggregator'.outstanding = g.outstanding + 1 /\ aggregator'.update = g.update
  BY <1>2 DEF RecordPendingTargetRequest, Aggregator
<1>4. MessagesInv'
  BY <1>1, <1>3 DEF MessagesInv, MessagesTrue, UpdateTrue
<1>5. /\ Len(Append(s.requests, request)) = Len(s.requests) + 1
      /\ Append(s.requests, request) # <<>> /\ Last(Append(s.requests, request)) = request
      /\ Len(s.requests) \in Nat
  <2> HIDE DEF s
  <2>1. ASSUME NEW q \in Seq(TargetRequest)
        PROVE  /\ Len(Append(q, request)) = Len(q) + 1 /\ Len(q) \in Nat
               /\ Append(q, request)[Len(q) + 1] = request /\ Append(q, request) # <<>>
    OBVIOUS
  <2> QED
    BY <1>2, <2>1 DEF Last
<1>6. Cardinality(Answers(r)) \in Nat
  BY <1>2, AnswersFinite
<1>7. StreamInv'
  <2>1. g.outstanding = Len(s.requests) + Cardinality(Answers(r)) /\ s.sent <= Version
    BY <1>1 DEF StreamInv
  <2>2. aggregator'.outstanding = Len(watch_stream_'.requests) + Cardinality(Answers(r))
    BY <1>2, <1>3, <1>5, <1>6, <2>1
  <2>3. /\ IsOpen(watch_stream_')
        /\ view'.on => IsStarted(watch_stream_') /\ ~watch_stream_'.idle
        /\ aggregator'.outstanding =
              Len(watch_stream_'.requests) + Cardinality(Answers(watch_stream_'.responses))
        /\ watch_stream_'.sent <= Version'
        /\ view'.on => Last(watch_stream_'.requests) = Watch(resume_token')
        /\ watch_stream_'.requests # <<>>
    BY <1>1, <1>5, <2>1, <2>2 DEF IsOpen, IsStarted
  <2> QED
    BY <2>3 DEF StreamInv
<1>8. ChangeInv'
  <2>1. aggregator'.outstanding # 0
    BY <1>2, <1>3
  <2> QED
    BY <1>3, <2>1 DEF ChangeInv
<1>9. ToldInv'
  BY <1>5 DEF ToldInv
<1> QED
  BY <1>4, <1>7, <1>8, <1>9 DEF ListenInv, TargetInv

\* The server's document changes.
LEMMA HistKeeps ==
    ASSUME ListenInv, Typed', AcksSound', NEW value \in MaybeDocument, hist' = Append(hist, value),
           UNCHANGED <<lastAck, queue, disk, resume_token, watchVars, online, appVars>>
    PROVE  ListenInv'
<1>1. Typed /\ DiskInv /\ MessagesInv /\ StreamInv /\ OnlineInv /\ TargetInv /\ ViewInv
  BY DEF ListenInv
<1>2. /\ UNCHANGED <<lastAck, queue, disk, resume_token>>
      /\ UNCHANGED <<watch_stream_, aggregator, online, view, listener, get>>
  BY DEF watchVars, appVars
<1>3. /\ Version \in Nat \ {0} /\ Version' = Version + 1
      /\ \A n \in 1..Version : hist'[n] = hist[n]
  BY <1>1 DEF Typed, Version
<1>4. /\ disk.cache.version \in Nat /\ disk.token \in Nat /\ resume_token \in Nat
      /\ lastAck \in Nat /\ disk.snapshot \in Nat
  BY <1>1, Fields
<1>5. /\ watch_stream_ \in Stream /\ watch_stream_.responses \in Seq(TargetResponse)
      /\ watch_stream_.sent \in Nat /\ Len(watch_stream_.responses) \in Nat
      /\ get \in Get /\ get.asked \in Nat
  BY <1>1, StreamFields, GetFields DEF Typed
<1>6. disk.cache.version <= Version
  BY <1>1 DEF DiskInv, CacheSound
<1>7. ASSUME NEW token \in Nat, NEW key, Resumes(token, key) PROVE Resumes(token, key)'
  <2>1. token <= Version
    <3>1. token <= disk.cache.version
      BY <1>7 DEF Resumes
    <3> QED
      BY <1>3, <1>4, <1>6, <3>1
  <2>2. token # 0 => token \in 1..Version
    BY <1>3, <2>1
  <2>3. token # 0 => hist'[token] = hist[token]
    BY <1>3, <2>2
  <2> QED
    BY <1>2, <1>7, <2>3 DEF Resumes
<1>8. DiskInv'
  <2>1. CacheSound'
    <3>1. CacheSound
      BY <1>1 DEF DiskInv
    <3>2. disk.cache.version <= Version'
      BY <1>3, <1>4, <1>6
    <3>3. disk.cache.version # 0 => disk.cache.version \in 1..Version
      BY <1>3, <1>4, <1>6
    <3>4. disk.cache.version # 0 => hist'[disk.cache.version] = hist[disk.cache.version]
      BY <1>3, <3>3
    <3> QED
      BY <1>2, <3>1, <3>2, <3>4 DEF CacheSound
  <2>2. Resumes(disk.token, disk.key)'
    <3>1. Resumes(disk.token, disk.key)
      BY <1>1 DEF DiskInv
    <3> QED
      BY <1>2, <1>4, <1>7, <3>1
  <2>3. disk'.snapshot <= Version'
    BY <1>1, <1>2, <1>3, <1>4 DEF DiskInv
  <2> QED
    BY <2>1, <2>2, <2>3 DEF DiskInv
<1> DEFINE r == watch_stream_.responses
<1>9. MessagesTrue(r)'
  <2>1. ASSUME NEW i \in 1..Len(r)
        PROVE  /\ r[i].kind = "document" =>
                     /\ r[i].update.version \in 1..Version'
                     /\ r[i].update.value = hist'[r[i].update.version]
                     /\ Brings(r, i + 1, r[i].update.version)
               /\ r[i].kind = "snapshot" => r[i].version \in disk.snapshot..Version' /\ r[i].version # 0
    <3>1. /\ r[i].kind = "document" =>
                /\ r[i].update.version \in 1..Version
                /\ r[i].update.value = hist[r[i].update.version]
                /\ Brings(r, i + 1, r[i].update.version)
          /\ r[i].kind = "snapshot" => r[i].version \in disk.snapshot..Version /\ r[i].version # 0
      BY <1>1 DEF MessagesInv, MessagesTrue
    <3>2. \A n \in 1..Version : n \in 1..Version'
      BY <1>3
    <3>3. \A n \in disk.snapshot..Version : n \in disk.snapshot..Version'
      BY <1>3, <1>4
    <3> QED
      BY <1>3, <3>1, <3>2, <3>3
  <2>2. \A i, j \in 1..Len(r) :
            i < j /\ r[i].kind = "snapshot" /\ r[j].kind = "snapshot" => r[i].version <= r[j].version
    BY <1>1 DEF MessagesInv, MessagesTrue
  <2> QED
    BY <1>2, <2>1, <2>2 DEF MessagesTrue
<1>10. MessagesInv'
  <2>1. UpdateTrue(r, aggregator.update)
    BY <1>1 DEF MessagesInv
  <2>2. \A n \in 1..Version : n \in 1..Version'
    BY <1>3
  <2>3. UpdateTrue(r, aggregator.update)'
    BY <1>2, <1>3, <2>1, <2>2 DEF UpdateTrue
  <2> QED
    BY <1>9, <2>3 DEF MessagesInv
<1>11. StreamInv'
  <2>1. watch_stream_.sent <= Version'
    BY <1>1, <1>3, <1>5 DEF StreamInv
  <2> QED
    BY <1>1, <1>2, <2>1 DEF StreamInv
<1>12. OnlineInv'
  BY <1>1, <1>2 DEF OnlineInv
<1>13. SyncedInv'
  <2>1. SyncedInv
    BY <1>1 DEF TargetInv
  <2>2. view.on => Resumes(resume_token, view.synced_documents)'
    BY <1>2, <1>4, <1>7, <2>1 DEF SyncedInv
  <2> QED
    BY <1>2, <2>1, <2>2 DEF SyncedInv
<1>14. ChangeInv'
  BY <1>1, <1>2 DEF TargetInv, ChangeInv
<1>15. ToldInv'
  <2>1. ASSUME NEW i \in 1..Len(r), r[i].kind = "snapshot",
               DocumentTold(r, i, aggregator.update, resume_token)
        PROVE  DocumentTold(r, i, aggregator.update, resume_token)'
    <3>1. r[i].version \in 1..Version
      <4>1. r[i].version \in disk.snapshot..Version /\ r[i].version # 0
        BY <1>1, <2>1 DEF MessagesInv, MessagesTrue
      <4>2. \A v \in disk.snapshot..Version : v # 0 => v \in 1..Version
        BY <1>3, <1>4
      <4> QED
        BY <4>1, <4>2
    <3>2. Silent(r[i].version, resume_token) <=> Silent(r[i].version, resume_token)'
      BY <1>2, <1>3, <3>1 DEF Silent
    <3> QED
      BY <1>2, <2>1, <3>2 DEF DocumentTold
  <2>2. ToldInv
    BY <1>1 DEF TargetInv
  <2>3. view.on /\ watch_stream_.requests = <<>> =>
            /\ watch_stream_.sent # 0 => CurrentTold(r, Len(r) + 1, aggregator.current)
            /\ \A i \in 1..Len(r) : Latest(r, i) /\ r[i].kind = "snapshot" =>
                  /\ DocumentTold(r, i, aggregator.update, resume_token)'
                  /\ CurrentTold(r, i, aggregator.current)
                  /\ ShownBy(r[i].version, get, view.doc, disk.cache)
    BY <2>1, <2>2 DEF ToldInv
  <2> QED
    BY <1>2, <2>3 DEF ToldInv
<1>16. ViewInv'
  <2>1. CurrentSound(view, get, disk.cache, resume_token)
    BY <1>1 DEF ViewInv
  <2>2. view.current => resume_token \in 1..Version
    <3>1. view.current => view.on
      BY <1>1 DEF ViewInv, DocumentSound, NoView
    <3>2. view.on => resume_token <= disk.cache.version
      BY <1>1 DEF TargetInv, SyncedInv, Resumes
    <3>3. view.current => resume_token # 0
      BY <2>1 DEF CurrentSound
    <3> QED
      BY <1>3, <1>4, <1>6, <3>1, <3>2, <3>3
  <2>3. CurrentSound(view, get, disk.cache, resume_token)'
    BY <1>2, <1>3, <2>1, <2>2 DEF CurrentSound
  <2>4. GetInv'
    <3>1. get.asked <= Version'
      BY <1>1, <1>3, <1>5 DEF ViewInv, GetInv
    <3>2. ASSUME NEW n \in get.asked..Version, get.asked # 0
          PROVE  n \in get.asked..Version' /\ hist'[n] = hist[n]
      <4>1. n \in get.asked..Version' /\ n \in 1..Version
        BY <1>3, <1>5, <3>2
      <4> QED
        BY <1>3, <4>1
    <3>3. get.state = "answered" /\ get.asked # 0 /\ ~get.from_cache /\ ~get.local =>
              \E n \in get.asked..Version' : get.value = hist'[n]
      BY <1>1, <3>2 DEF ViewInv, GetInv
    <3> QED
      BY <1>2, <3>1, <3>3 DEF GetInv
  <2>5. DocumentSound(view, queue, disk.cache)' /\ ListeningInv'
    BY <1>1, <1>2 DEF ViewInv, DocumentSound, ListeningInv
  <2> QED
    BY <2>3, <2>4, <2>5 DEF ViewInv
<1> QED
  BY <1>8, <1>10, <1>11, <1>12, <1>13, <1>14, <1>15, <1>16 DEF ListenInv, TargetInv

----------------------------------------------------------------------------
(* The app's sets and their answers.                                       *)

LEMMA SeqFacts ==
    ASSUME NEW S, NEW q \in Seq(S)
    PROVE  /\ Len(q) \in Nat
           /\ \A x \in S : /\ Append(q, x) \in Seq(S) /\ Len(Append(q, x)) = Len(q) + 1
                           /\ \A i \in 1..Len(q) : Append(q, x)[i] = q[i]
                           /\ Append(q, x)[Len(q) + 1] = x /\ Append(q, x) # <<>>
           /\ q # <<>> => /\ Tail(q) \in Seq(S) /\ Len(q) \in Nat \ {0} /\ Len(Tail(q)) = Len(q) - 1
                          /\ Head(q) = q[1] /\ q[1] \in S
                          /\ \A i \in 1..(Len(q) - 1) : Tail(q)[i] = q[i + 1]
<1>1. ASSUME NEW x \in S
      PROVE  /\ Append(q, x) \in Seq(S) /\ Len(Append(q, x)) = Len(q) + 1
             /\ \A i \in 1..Len(q) : Append(q, x)[i] = q[i]
             /\ Append(q, x)[Len(q) + 1] = x /\ Append(q, x) # <<>>
  OBVIOUS
<1>2. ASSUME q # <<>>
      PROVE  /\ Tail(q) \in Seq(S) /\ Len(q) \in Nat \ {0} /\ Len(Tail(q)) = Len(q) - 1
             /\ Head(q) = q[1] /\ q[1] \in S
             /\ \A i \in 1..(Len(q) - 1) : Tail(q)[i] = q[i + 1]
  BY <1>2
<1>3. Len(q) \in Nat
  OBVIOUS
<1> QED
  BY <1>1, <1>2, <1>3

\* Either the queue had a set, which the view shows, or it has one now.
LEMMA ChangedKeeps ==
    ASSUME ListenAssumption, ListenInv, NEW q \in Seq(OwnValues), NEW cached \in CacheEntry,
           Changed(q, cached), UNCHANGED <<hist, trouble>>,
           q # <<>> \/ queue # <<>>,
           cached = disk.cache \/ (cached.committed /\ cached.version >= disk.cache.version),
           CacheSound', AcksSound',
           acks' \in Seq(Nat), lastAck' \in Nat, written' \in Nat, Len(q) <= written'
    PROVE  ListenInv'
<1> DEFINE d == NextDocument(view.doc, LocalDocument(q, cached))
           v == [view EXCEPT !.doc = IF view.on THEN d ELSE @]
<1>1. Typed /\ DiskInv /\ OnlineInv /\ TargetInv /\ ViewInv
  BY DEF ListenInv
<1>2. /\ queue' = q /\ disk' = [disk EXCEPT !.cache = cached] /\ Show(v, online)
      /\ UNCHANGED <<resume_token, watch_stream_, aggregator>>
  BY DEF Changed, watchVars
<1>3. /\ view \in View /\ online \in Online /\ get \in Get
      /\ disk \in [cache : CacheEntry, token : Nat, key : BOOLEAN, snapshot : Nat]
      /\ disk.cache \in CacheEntry /\ disk.cache.version \in Nat /\ resume_token \in Nat
      /\ Version \in Nat /\ disk.token \in Nat
  BY <1>1, Fields DEF Typed
<1>4. /\ view.doc \in ViewDocument /\ view.on \in BOOLEAN /\ view.current \in BOOLEAN
      /\ view.doc.state = "local" => view.doc.value \in OwnValues
      /\ view.on /\ queue # <<>> => view.doc.state = "local"
      /\ ~view.on => view = NoView
      /\ view.current => view.on
  BY <1>1, <1>3, ViewFields DEF ViewInv, DocumentSound, NoView
<1>5. /\ disk'.cache = cached /\ disk'.token = disk.token /\ disk'.key = disk.key
      /\ disk'.snapshot = disk.snapshot
      /\ disk' \in [cache : CacheEntry, token : Nat, key : BOOLEAN, snapshot : Nat]
  BY <1>2, <1>3
<1>6. cached.committed => cached.value \in OwnValues
  BY <1>5 DEF CacheSound
<1>7. /\ d \in ViewDocument
      /\ d.state = "local" => d.value \in OwnValues
      /\ q # <<>> => d = [value |-> Last(q), state |-> "local"]
      /\ d.state # "local" => d.value = cached.value
      /\ q = <<>> /\ ~cached.committed => d.state # "local"
      /\ q = <<>> /\ cached.committed /\ view.doc.state = "local" => d.state = "local"
  BY <1>4, <1>6, NextDocumentFacts
<1> HIDE DEF d
<1>8. /\ v \in View /\ v.on = view.on /\ v.synced_documents = view.synced_documents
      /\ v.current = view.current
      /\ view.on => v.doc = d
      /\ ~view.on => v = view
  BY <1>3, <1>4, <1>7 DEF View
<1> HIDE DEF v
<1>9. view.on => (cached.committed \/ d.state = "local" \/ cached = disk.cache)
                 /\ (d.state # "local" => q = <<>> /\ ~cached.committed /\ cached = disk.cache)
  BY <1>4, <1>7
<1>10. DocumentSound(v, q, cached)
  <2>1. CASE view.on
    BY <1>7, <1>8, <2>1 DEF DocumentSound
  <2>2. CASE ~view.on
    <3>1. v = NoView
      BY <1>4, <1>8, <2>2
    <3>2. ~NoView.on /\ NoView.doc.state # "local"
      BY DEF NoView
    <3> QED
      BY <3>1, <3>2 DEF DocumentSound
  <2> QED
    BY <2>1, <2>2
<1>11. CurrentSound(v, get, cached, resume_token)
  <2> SUFFICES ASSUME v.current PROVE CurrentSound(v, get, cached, resume_token)
    BY DEF CurrentSound
  <2>1. view.current /\ view.on /\ v.doc = d
    BY <1>4, <1>8
  <2>2. /\ resume_token # 0
        /\ ~disk.cache.committed => disk.cache.version = resume_token
        /\ get.state = "waiting" => get.asked <= resume_token
    BY <1>1, <2>1 DEF ViewInv, CurrentSound
  <2>3. ~cached.committed => cached = disk.cache
    OBVIOUS
  <2>4. d.state # "local" => d.value = hist[resume_token]
    <3> SUFFICES ASSUME d.state # "local" PROVE d.value = hist[resume_token]
      OBVIOUS
    <3>1. ~disk.cache.committed /\ d.value = disk.cache.value
      BY <1>7, <1>9, <2>1
    <3> QED
      BY <1>1, <2>2, <3>1 DEF DiskInv, CacheSound
  <2> QED
    BY <2>1, <2>2, <2>3, <2>4 DEF CurrentSound
<1>12. resume_token <= Version
  <2>1. resume_token <= disk.cache.version
    <3>1. 0 <= disk.cache.version
      BY <1>3
    <3> QED
      BY <1>1, <3>1 DEF TargetInv, SyncedInv, Resumes
  <2>2. disk.cache.version <= Version
    BY <1>1 DEF DiskInv, CacheSound
  <2> QED
    BY <1>3, <2>1, <2>2
<1>13. CurrentSound(v, get, disk'.cache, resume_token')
  BY <1>2, <1>5, <1>11
<1>14. /\ view' \in View /\ view'.on = v.on /\ view'.doc = v.doc
       /\ view'.synced_documents = v.synced_documents /\ (view'.current => v.current)
       /\ online' = online /\ listener' \in Listener
       /\ get' \in Get /\ get'.asked = get.asked
       /\ get'.state = "waiting" => get.state = "waiting"
       /\ ViewInv'
  <2>1. GetInv /\ ListeningInv
    BY <1>1 DEF ViewInv
  <2> QED
    BY <1>1, <1>2, <1>3, <1>5, <1>8, <1>10, <1>12, <1>13, <2>1, ShowKeeps
<1>15. Typed'
  BY <1>1, <1>2, <1>5, <1>14 DEF Typed
<1>16. OnlineInv'
  BY <1>1, <1>2, <1>14 DEF OnlineInv
<1>17. view.on /\ Settled(view'.doc, disk'.cache) =>
           Settled(view.doc, disk.cache) /\ disk'.cache.version = disk.cache.version
  <2> SUFFICES ASSUME view.on, Settled(d, cached)
      PROVE  Settled(view.doc, disk.cache) /\ cached.version = disk.cache.version
    BY <1>5, <1>8, <1>14
  <2>1. ~cached.committed
    BY <1>9 DEF Settled
  <2> QED
    BY <2>1 DEF Settled
<1>18. disk.cache.version <= disk'.cache.version
  BY <1>3, <1>5 DEF CacheEntry
<1> QED
  BY <1>1, <1>2, <1>5, <1>8, <1>14, <1>15, <1>16, <1>17, <1>18, CalmKeeps

LEMMA SetDataKeeps ==
    ASSUME ListenAssumption, ListenInv, NEW value \in OwnValues, SetData(value)
    PROVE  ListenInv'
<1>1. Typed /\ DiskInv
  BY DEF ListenInv
<1>2. /\ written' = written + 1 /\ Changed(Append(queue, value), disk.cache)
      /\ UNCHANGED <<hist, lastAck, acks, trouble>>
  BY DEF SetData, serverVars
<1>3. /\ disk \in [cache : CacheEntry, token : Nat, key : BOOLEAN, snapshot : Nat]
      /\ disk.cache \in CacheEntry /\ queue \in Seq(OwnValues) /\ acks \in Seq(Nat)
      /\ lastAck \in Nat /\ written \in Nat /\ Len(queue) <= written
      /\ Len(acks) \in Nat /\ Len(queue) \in Nat
  BY <1>1, Fields DEF Typed
<1>4. /\ Append(queue, value) \in Seq(OwnValues) /\ Append(queue, value) # <<>>
      /\ Len(Append(queue, value)) = Len(queue) + 1
      /\ \A i \in 1..Len(queue) : Append(queue, value)[i] = queue[i]
  BY <1>3, SeqFacts
<1>5. queue' = Append(queue, value) /\ disk' = [disk EXCEPT !.cache = disk.cache]
  BY <1>2 DEF Changed
<1>6. disk'.cache = disk.cache
  BY <1>3, <1>5
<1>7. CacheSound'
  BY <1>1, <1>2, <1>6 DEF DiskInv, CacheSound, Version
<1>8. AcksSound'
  <2>1. Len(acks) <= Len(Append(queue, value))
    BY <1>1, <1>3, <1>4 DEF DiskInv, AcksSound
  <2>2. ASSUME NEW i \in 1..Len(acks)
        PROVE  acks[i] \in 1..Version /\ hist[acks[i]] = Append(queue, value)[i]
    <3>1. i \in 1..Len(queue)
      BY <1>1, <1>3 DEF DiskInv, AcksSound
    <3> QED
      BY <1>1, <1>4, <3>1 DEF DiskInv, AcksSound
  <2> QED
    BY <1>2, <1>5, <2>1, <2>2 DEF AcksSound, Version
<1>9. written' \in Nat /\ Len(Append(queue, value)) <= written'
  BY <1>2, <1>3, <1>4
<1> QED
  BY <1>2, <1>3, <1>4, <1>7, <1>8, <1>9, ChangedKeeps

LEMMA WriteAckedKeeps ==
    ASSUME ListenAssumption, ListenInv, WriteAcked
    PROVE  ListenInv'
<1> DEFINE cached == CacheAcked(disk.cache, Head(queue), Head(acks))
<1>1. Typed /\ DiskInv
  BY DEF ListenInv
<1>2. /\ acks # <<>> /\ lastAck' = Head(acks) /\ acks' = Tail(acks)
      /\ Changed(Tail(queue), cached)
      /\ UNCHANGED <<hist, written, trouble>>
  BY DEF WriteAcked
<1>3. /\ disk \in [cache : CacheEntry, token : Nat, key : BOOLEAN, snapshot : Nat]
      /\ disk.cache \in CacheEntry /\ queue \in Seq(OwnValues) /\ acks \in Seq(Nat)
      /\ lastAck \in Nat /\ written \in Nat /\ Len(queue) <= written
      /\ Len(acks) \in Nat /\ Len(queue) \in Nat /\ Version \in Nat
  BY <1>1, Fields DEF Typed
<1>4. /\ Tail(acks) \in Seq(Nat) /\ Len(acks) \in Nat \ {0} /\ Len(Tail(acks)) = Len(acks) - 1
      /\ Head(acks) = acks[1] /\ acks[1] \in Nat
      /\ \A i \in 1..(Len(acks) - 1) : Tail(acks)[i] = acks[i + 1]
  BY <1>2, <1>3, SeqFacts
<1>5. /\ Len(acks) <= Len(queue)
      /\ \A i \in 1..Len(acks) : acks[i] \in 1..Version /\ hist[acks[i]] = queue[i]
  BY <1>1 DEF DiskInv, AcksSound
<1>6. queue # <<>>
  BY <1>4, <1>5
<1>7. /\ Tail(queue) \in Seq(OwnValues) /\ Len(Tail(queue)) = Len(queue) - 1
      /\ Head(queue) = queue[1] /\ queue[1] \in OwnValues
      /\ \A i \in 1..(Len(queue) - 1) : Tail(queue)[i] = queue[i + 1]
  BY <1>3, <1>6, SeqFacts
<1>8. acks[1] \in 1..Version /\ hist[acks[1]] = queue[1]
  BY <1>4, <1>5
<1>9. /\ cached \in CacheEntry
      /\ cached = disk.cache \/ (cached.committed /\ cached.version >= disk.cache.version)
      /\ cached.version <= Version /\ acks[1] <= cached.version
      /\ cached.version # 0 => cached.value = hist[cached.version]
      /\ cached.version = 0 => cached.value = Missing
      /\ cached.committed => cached.value \in OwnValues
  <2>1. OwnValues \subseteq MaybeDocument
    BY Values
  <2>2. CASE disk.cache.version < acks[1]
    <3>1. cached = [value |-> queue[1], version |-> acks[1], committed |-> TRUE]
      BY <1>4, <1>7, <2>2 DEF CacheAcked
    <3> HIDE DEF cached
    <3>2. cached \in CacheEntry
      BY <1>4, <1>7, <2>1, <3>1 DEF CacheEntry
    <3> QED
      BY <1>3, <1>4, <1>7, <1>8, <2>2, <3>1, <3>2 DEF CacheEntry
  <2>3. CASE ~(disk.cache.version < acks[1])
    <3>1. cached = disk.cache
      BY <1>4, <2>3 DEF CacheAcked
    <3> HIDE DEF cached
    <3>2. CacheSound
      BY <1>1 DEF DiskInv
    <3> QED
      BY <1>3, <1>4, <2>3, <3>1, <3>2 DEF CacheSound, CacheEntry
  <2> QED
    BY <2>2, <2>3
<1> HIDE DEF cached
<1>10. disk' = [disk EXCEPT !.cache = cached] /\ queue' = Tail(queue)
  BY <1>2 DEF Changed
<1>11. disk'.cache = cached
  BY <1>3, <1>10
<1>12. CacheSound'
  BY <1>2, <1>4, <1>9, <1>11 DEF CacheSound, Version
<1>13. AcksSound'
  <2>1. Len(Tail(acks)) <= Len(Tail(queue))
    BY <1>3, <1>4, <1>5, <1>7
  <2>2. ASSUME NEW i \in 1..Len(Tail(acks))
        PROVE  Tail(acks)[i] \in 1..Version /\ hist[Tail(acks)[i]] = Tail(queue)[i]
    <3>1. i + 1 \in 1..Len(acks) /\ i \in 1..(Len(acks) - 1) /\ i \in 1..(Len(queue) - 1)
      BY <1>3, <1>4, <1>5
    <3> QED
      BY <1>4, <1>5, <1>7, <3>1
  <2> QED
    BY <1>2, <1>10, <2>1, <2>2 DEF AcksSound, Version
<1>14. lastAck' \in Nat /\ Len(Tail(queue)) <= written' /\ written' \in Nat /\ acks' \in Seq(Nat)
  BY <1>2, <1>3, <1>4, <1>7
<1> QED
  BY <1>2, <1>6, <1>7, <1>9, <1>12, <1>13, <1>14, ChangedKeeps

LEMMA WriteRejectedKeeps ==
    ASSUME ListenAssumption, ListenInv, WriteRejected
    PROVE  ListenInv'
<1>1. Typed /\ DiskInv
  BY DEF ListenInv
<1>2. /\ queue # <<>> /\ acks = <<>> /\ Changed(Tail(queue), disk.cache)
      /\ UNCHANGED <<hist, lastAck, written, acks, trouble>>
  BY DEF WriteRejected, serverVars
<1>3. /\ disk \in [cache : CacheEntry, token : Nat, key : BOOLEAN, snapshot : Nat]
      /\ disk.cache \in CacheEntry /\ queue \in Seq(OwnValues) /\ acks \in Seq(Nat)
      /\ lastAck \in Nat /\ written \in Nat /\ Len(queue) <= written
      /\ Len(queue) \in Nat
  BY <1>1, Fields DEF Typed
<1>4. /\ Tail(queue) \in Seq(OwnValues) /\ Len(Tail(queue)) = Len(queue) - 1
      /\ Len(queue) \in Nat \ {0}
  BY <1>2, <1>3, SeqFacts
<1>5. queue' = Tail(queue) /\ disk' = [disk EXCEPT !.cache = disk.cache]
  BY <1>2 DEF Changed
<1>6. disk'.cache = disk.cache
  BY <1>3, <1>5
<1>7. CacheSound'
  BY <1>1, <1>2, <1>6 DEF DiskInv, CacheSound, Version
<1>8. AcksSound'
  <2>1. Len(acks) = 0
    BY <1>2
  <2> QED
    BY <1>2, <1>4, <1>5, <2>1 DEF AcksSound
<1>9. Len(Tail(queue)) <= written'
  BY <1>2, <1>3, <1>4
<1> QED
  BY <1>2, <1>3, <1>4, <1>7, <1>8, <1>9, ChangedKeeps

\* The write stream breaks, or nothing happens at all.
LEMMA WriteStreamBreaksKeeps ==
    ASSUME ListenAssumption, ListenInv, WriteStreamBreaks
    PROVE  ListenInv'
<1>1. Typed /\ DiskInv /\ OnlineInv /\ ViewInv
  BY DEF ListenInv
<1>2. /\ acks' = <<>> /\ trouble < MaxTrouble /\ trouble' = trouble + 1
      /\ UNCHANGED <<hist, lastAck, queue, written, disk, resume_token>>
      /\ UNCHANGED <<watch_stream_, aggregator, online, view, listener, get>>
  BY DEF WriteStreamBreaks, serverVars, watchVars, appVars
<1>3. trouble \in 0..MaxTrouble /\ MaxTrouble \in Nat
  BY <1>1 DEF Typed, ListenAssumption
<1>4. trouble' \in 0..MaxTrouble
  BY <1>2, <1>3
<1>5. acks' \in Seq(Nat)
  BY <1>2
<1>6. Typed'
  BY <1>1, <1>2, <1>4, <1>5 DEF Typed
<1>7. AcksSound' /\ CacheSound'
  <2>1. Len(queue) \in Nat /\ Len(acks') = 0
    BY <1>1, <1>2, Fields
  <2>2. AcksSound'
    BY <1>2, <2>1 DEF AcksSound
  <2>3. CacheSound'
    BY <1>1, <1>2 DEF DiskInv, CacheSound, Version
  <2> QED
    BY <2>2, <2>3
<1>8. OnlineInv'
  BY <1>1, <1>2 DEF OnlineInv
<1>9. ViewInv'
  <2>1. DocumentSound(view, queue, disk.cache)' /\ ListeningInv'
    BY <1>1, <1>2 DEF ViewInv, DocumentSound, ListeningInv
  <2>2. CurrentSound(view, get, disk.cache, resume_token)'
    BY <1>1, <1>2 DEF ViewInv, CurrentSound
  <2>3. GetInv'
    BY <1>1, <1>2 DEF ViewInv, GetInv, Version
  <2> QED
    BY <2>1, <2>2, <2>3 DEF ViewInv
<1>10. disk.cache.version <= disk'.cache.version
  BY <1>1, <1>2, Fields
<1> QED
  BY <1>2, <1>6, <1>7, <1>8, <1>9, <1>10, CalmKeeps

LEMMA StutterKeeps ==
    ASSUME ListenInv, UNCHANGED vars
    PROVE  ListenInv'
<1>1. /\ UNCHANGED <<hist, lastAck, queue, written, acks, disk, resume_token>>
      /\ UNCHANGED <<watch_stream_, aggregator, online, view, listener, get, trouble>>
  BY DEF vars, serverVars, writeVars, watchVars, appVars
<1>2. Typed /\ DiskInv /\ OnlineInv /\ ViewInv
  BY DEF ListenInv
<1>3. Typed' /\ OnlineInv'
  BY <1>1, <1>2 DEF Typed, OnlineInv
<1>4. AcksSound' /\ CacheSound'
  BY <1>1, <1>2 DEF DiskInv, AcksSound, CacheSound, Version
<1>5. ViewInv'
  BY <1>1, <1>2 DEF ViewInv, ListeningInv, DocumentSound, CurrentSound, GetInv, Version
<1>6. disk.cache.version <= disk'.cache.version
  BY <1>1, <1>2, Fields
<1> QED
  BY <1>1, <1>3, <1>4, <1>5, <1>6, CalmKeeps

----------------------------------------------------------------------------
(* The online state.                                                       *)

OnlineSound(o) ==
    /\ o.timer => o.state = "Unknown" /\ ~o.failed
    /\ o.failed => o.state # "Online"

LEMMA OnlineFacts ==
    ASSUME NEW o \in Online, OnlineSound(o)
    PROVE  /\ StreamStart(o) \in Online /\ OnlineSound(StreamStart(o))
           /\ StreamFailure(o) \in Online /\ OnlineSound(StreamFailure(o))
<1>1. StreamStart(o) \in Online /\ OnlineSound(StreamStart(o))
  BY DEF StreamStart, Online, OnlineState, OnlineSound
<1>2. StreamFailure(o) \in Online /\ OnlineSound(StreamFailure(o))
  BY DEF StreamFailure, Online, OnlineState, OnlineSound
<1> QED
  BY <1>1, <1>2

LEMMA UpdateStateFacts ==
    ASSUME NEW state \in OnlineState
    PROVE  /\ UpdateState(state) \in Online /\ OnlineSound(UpdateState(state))
           /\ ~UpdateState(state).timer
  BY DEF UpdateState, Online, OnlineSound

LEMMA OnlineStateTimeoutKeeps ==
    ASSUME ListenAssumption, ListenInv, OnlineStateTimeout
    PROVE  ListenInv'
<1> DEFINE o == [online EXCEPT !.state = "Offline", !.timer = FALSE]
<1>1. Typed /\ DiskInv /\ OnlineInv /\ TargetInv /\ ViewInv
  BY DEF ListenInv
<1>2. /\ Show(view, o) /\ UNCHANGED <<hist, lastAck, queue, written, acks, disk, resume_token>>
      /\ UNCHANGED <<watch_stream_, aggregator, trouble>>
  BY DEF OnlineStateTimeout, serverVars, writeVars, watchVars
<1>3. /\ online \in Online /\ view \in View /\ resume_token \in Nat
      /\ disk.cache.version \in Nat /\ Version \in Nat
  BY <1>1, Fields DEF Typed
<1>4. o \in Online /\ ~o.timer /\ o.state = "Offline"
  BY <1>3 DEF Online, OnlineState
<1> HIDE DEF o
<1>5. resume_token <= Version
  <2>1. resume_token <= disk.cache.version
    BY <1>1, <1>3 DEF TargetInv, SyncedInv, Resumes
  <2>2. disk.cache.version <= Version
    BY <1>1 DEF DiskInv, CacheSound
  <2> QED
    BY <1>3, <2>1, <2>2
<1>6. GetInv /\ ListeningInv /\ DocumentSound(view, queue', disk'.cache)
      /\ CurrentSound(view, get, disk'.cache, resume_token')
  BY <1>1, <1>2 DEF ViewInv
<1>7. /\ view' \in View /\ view'.on = view.on /\ view'.doc = view.doc
      /\ view'.synced_documents = view.synced_documents /\ (view'.current => view.current)
      /\ online' = o /\ listener' \in Listener
      /\ get' \in Get /\ get'.asked = get.asked
      /\ get'.state = "waiting" => get.state = "waiting"
      /\ ViewInv'
  BY <1>1, <1>2, <1>3, <1>4, <1>5, <1>6, ShowKeeps
<1>8. Typed'
  BY <1>1, <1>2, <1>4, <1>7 DEF Typed
<1>9. OnlineInv'
  BY <1>4, <1>7 DEF OnlineInv
<1>10. AcksSound' /\ CacheSound'
  BY <1>1, <1>2 DEF DiskInv, AcksSound, CacheSound, Version
<1>11. disk.cache.version <= disk'.cache.version
  BY <1>2, <1>3
<1> QED
  BY <1>2, <1>7, <1>8, <1>9, <1>10, <1>11, CalmKeeps

----------------------------------------------------------------------------
(* The stream ends.                                                        *)

LEMMA NewState ==
    ASSUME ListenAssumption, NEW state \in {"Initial", "Starting", "Open", "Error", "Backoff"},
           NEW next \in {"Initial", "Starting", "Open", "Error", "Backoff"}
    PROVE  [NewStream(state) EXCEPT !.state = next] = NewStream(next)
<1> DEFINE s == NewStream(state)
           t == NewStream(next)
<1>1. /\ s \in Stream /\ s.state = state /\ ~s.idle /\ s.requests = <<>> /\ s.responses = <<>>
      /\ s.sent = 0
      /\ t \in Stream /\ t.state = next /\ ~t.idle /\ t.requests = <<>> /\ t.responses = <<>>
      /\ t.sent = 0
  BY NewFields
<1> HIDE DEF s, t
<1>2. [s EXCEPT !.state = next] = t
  BY <1>1 DEF Stream
<1> QED
  BY <1>2 DEF s, t

LEMMA StartNew ==
    ASSUME ListenAssumption, NEW state \in {"Initial", "Starting", "Open", "Error", "Backoff"}
    PROVE  Start(NewStream(state)) = NewStream(IF state = "Error" THEN "Backoff" ELSE "Starting")
<1> DEFINE next == IF state = "Error" THEN "Backoff" ELSE "Starting"
<1>1. next \in {"Initial", "Starting", "Open", "Error", "Backoff"}
  OBVIOUS
<1>2. Start(NewStream(state)) = [NewStream(state) EXCEPT !.state = next]
  BY NewFields DEF Start
<1> HIDE DEF next
<1>3. Start(NewStream(state)) = NewStream(next)
  BY <1>1, <1>2, NewState
<1> QED
  BY <1>3 DEF next

LEMMA DiskKept ==
    ASSUME Typed, DiskInv, UNCHANGED <<hist, lastAck, queue>>,
           acks' = acks \/ acks' = <<>>, disk'.cache = disk.cache, disk'.snapshot = disk.snapshot,
           Resumes(disk'.token, disk'.key)
    PROVE  DiskInv'
<1>1. AcksSound'
  <2>1. CASE acks' = acks
    BY <2>1 DEF DiskInv, AcksSound, Version
  <2>2. CASE acks' = <<>>
    <3>1. Len(queue) \in Nat /\ Len(acks') = 0
      BY <2>2, Fields
    <3> QED
      BY <3>1 DEF AcksSound
  <2> QED
    BY <2>1, <2>2
<1>2. CacheSound'
  BY DEF DiskInv, CacheSound, Version
<1>3. Resumes(disk.token, disk.key)'
  BY DEF Resumes
<1>4. disk'.snapshot <= Version'
  BY DEF DiskInv, Version
<1> QED
  BY <1>1, <1>2, <1>3, <1>4 DEF DiskInv

LEMMA ResetShown ==
    ASSUME ListenAssumption, ListenInv, NEW o \in Online, OnlineSound(o), Show(view, o),
           UNCHANGED <<hist, lastAck, queue, written, disk, resume_token>>,
           acks' = acks \/ acks' = <<>>, trouble' \in 0..MaxTrouble,
           NEW state \in {"Initial", "Starting", "Open", "Error", "Backoff"},
           watch_stream_' = NewStream(state), aggregator' = NewAggregator,
           view.on \/ o.timer => state \in {"Starting", "Backoff"}
    PROVE  ListenInv'
<1>1. Typed /\ DiskInv /\ TargetInv /\ ViewInv
  BY DEF ListenInv
<1>3. /\ view \in View /\ resume_token \in Nat
      /\ disk.cache.version \in Nat /\ Version \in Nat
  BY <1>1, Fields DEF Typed
<1>5. resume_token <= Version
  <2>1. resume_token <= disk.cache.version
    BY <1>1, <1>3 DEF TargetInv, SyncedInv, Resumes
  <2>2. disk.cache.version <= Version
    BY <1>1 DEF DiskInv, CacheSound
  <2> QED
    BY <1>3, <2>1, <2>2
<1>6. GetInv /\ ListeningInv /\ DocumentSound(view, queue', disk'.cache)
      /\ CurrentSound(view, get, disk'.cache, resume_token')
  BY <1>1 DEF ViewInv
<1>7. /\ view' \in View /\ view'.on = view.on
      /\ view'.synced_documents = view.synced_documents
      /\ online' = o /\ listener' \in Listener /\ get' \in Get
      /\ ViewInv'
  BY <1>1, <1>3, <1>5, <1>6, ShowKeeps
<1>8. acks' \in Seq(Nat) /\ watch_stream_' \in Stream /\ aggregator' \in Aggregator
  <2>1. acks \in Seq(Nat) /\ <<>> \in Seq(Nat)
    BY <1>1 DEF Typed
  <2> QED
    BY <2>1, NewFields
<1>9. Typed'
  BY <1>1, <1>7, <1>8 DEF Typed
<1>10. DiskInv'
  BY <1>1, DiskKept DEF DiskInv
<1>11. SyncedInv'
  BY <1>1, <1>7 DEF TargetInv, SyncedInv, Resumes
<1>12. OnlineInv'
  <2>1. watch_stream_'.state = state
    BY NewFields
  <2> QED
    BY <1>7, <2>1 DEF OnlineInv, OnlineSound, IsStarted
<1> QED
  BY <1>7, <1>9, <1>10, <1>11, <1>12, ResetKeeps

LEMMA WatchStreamFailsKeeps ==
    ASSUME ListenAssumption, ListenInv, WatchStreamFails
    PROVE  ListenInv'
<1>1. Typed /\ OnlineInv
  BY DEF ListenInv
<1>2. online \in Online /\ OnlineSound(online)
  BY <1>1 DEF Typed, OnlineInv, OnlineSound
<1>3. trouble' \in 0..MaxTrouble
  BY <1>1 DEF WatchStreamFails, Typed, ListenAssumption
<1>4. UNCHANGED <<hist, lastAck, queue, written, acks, disk, resume_token>>
      /\ aggregator' = NewAggregator
  BY DEF WatchStreamFails, serverVars, writeVars
<1>5. CASE view.on
  <2>1. /\ watch_stream_' = NewStream("Backoff")
        /\ Show(view, StreamStart(StreamFailure(online)))
    BY <1>5, StartNew DEF WatchStreamFails
  <2>2. LET o == StreamStart(StreamFailure(online)) IN o \in Online /\ OnlineSound(o)
    BY <1>2, OnlineFacts
  <2> QED
    BY <1>3, <1>4, <1>5, <2>1, <2>2, ResetShown
<1>6. CASE ~view.on
  <2>1. watch_stream_' = NewStream("Error") /\ Show(view, UpdateState("Unknown"))
    BY <1>6 DEF WatchStreamFails
  <2>2. LET o == UpdateState("Unknown") IN o \in Online /\ OnlineSound(o) /\ ~o.timer
    BY UpdateStateFacts DEF OnlineState
  <2> QED
    BY <1>3, <1>4, <1>6, <2>1, <2>2, ResetShown
<1> QED
  BY <1>5, <1>6

LEMMA IdleTimeoutKeeps ==
    ASSUME ListenAssumption, ListenInv, IdleTimeout
    PROVE  ListenInv'
<1>1. Typed /\ StreamInv
  BY DEF ListenInv
<1>2. /\ watch_stream_.idle /\ watch_stream_' = NewStream("Initial")
      /\ Show(view, UpdateState("Unknown")) /\ aggregator' = NewAggregator
      /\ UNCHANGED <<hist, lastAck, queue, written, acks, disk, resume_token, trouble>>
  BY DEF IdleTimeout, serverVars, writeVars
<1>3. ~view.on
  BY <1>1, <1>2 DEF StreamInv
<1>4. trouble' \in 0..MaxTrouble
  BY <1>1, <1>2 DEF Typed
<1>5. LET o == UpdateState("Unknown") IN o \in Online /\ OnlineSound(o) /\ ~o.timer
  BY UpdateStateFacts DEF OnlineState
<1> QED
  BY <1>2, <1>3, <1>4, <1>5, ResetShown

LEMMA ConnectivityChangeKeeps ==
    ASSUME ListenAssumption, ListenInv, ConnectivityChange
    PROVE  ListenInv'
<1>1. Typed
  BY DEF ListenInv
<1>2. /\ acks' = <<>> /\ aggregator' = NewAggregator
      /\ watch_stream_' = IF view.on THEN Start(NewStream("Initial")) ELSE NewStream("Initial")
      /\ Show(view, IF view.on THEN StreamStart(UpdateState("Unknown")) ELSE UpdateState("Unknown"))
      /\ UNCHANGED <<hist, lastAck, queue, written, disk, resume_token>>
  BY DEF ConnectivityChange, serverVars
<1>3. trouble' \in 0..MaxTrouble
  BY <1>1 DEF ConnectivityChange, Typed, ListenAssumption
<1>4. LET o == UpdateState("Unknown") IN o \in Online /\ OnlineSound(o) /\ ~o.timer
  BY UpdateStateFacts DEF OnlineState
<1>5. CASE view.on
  <2>1. watch_stream_' = NewStream("Starting") /\ Show(view, StreamStart(UpdateState("Unknown")))
    BY <1>2, <1>5, StartNew
  <2>2. LET o == StreamStart(UpdateState("Unknown")) IN o \in Online /\ OnlineSound(o)
    BY <1>4, OnlineFacts
  <2> QED
    BY <1>2, <1>3, <1>5, <2>1, <2>2, ResetShown
<1>6. CASE ~view.on
  BY <1>2, <1>3, <1>4, <1>6, ResetShown
<1> QED
  BY <1>5, <1>6

LEMMA RelaunchKeeps ==
    ASSUME ListenAssumption, ListenInv, Relaunch
    PROVE  ListenInv'
<1>1. Typed /\ DiskInv
  BY DEF ListenInv
<1>2. /\ acks' = <<>> /\ resume_token' = 0
      /\ watch_stream_' = NewStream("Initial") /\ aggregator' = NewAggregator
      /\ online' = UpdateState("Unknown") /\ view' = NoView /\ listener' = NoListener
      /\ get' = NoGet
      /\ UNCHANGED <<hist, lastAck, queue, written, disk>>
  BY DEF Relaunch, serverVars
<1>3. trouble' \in 0..MaxTrouble
  BY <1>1 DEF Relaunch, Typed, ListenAssumption
<1>4. online' \in Online /\ ~online'.timer /\ OnlineSound(online')
  BY <1>2, UpdateStateFacts DEF OnlineState
<1>5. /\ watch_stream_' \in Stream /\ aggregator' \in Aggregator /\ view' \in View
      /\ ~view'.on /\ ~view'.current /\ view'.doc.state # "local"
  BY <1>2, NewFields
<1>6. /\ listener' \in Listener /\ listener'.state = "off"
      /\ get' \in Get /\ get'.state = "off" /\ get'.asked = 0
  BY <1>2, Values DEF NoListener, Listener, NoGet, Get
<1>7. acks' \in Seq(Nat) /\ resume_token' \in Nat
  BY <1>2
<1>8. Typed'
  BY <1>1, <1>2, <1>3, <1>4, <1>5, <1>6, <1>7 DEF Typed
<1>9. DiskInv'
  BY <1>1, <1>2, DiskKept DEF DiskInv
<1>10. SyncedInv' /\ OnlineInv'
  BY <1>2, <1>4, <1>5 DEF SyncedInv, OnlineInv, OnlineSound
<1>11. ViewInv'
  <2>1. Version' \in Nat
    BY <1>8 DEF Typed, Version
  <2> QED
    BY <1>2, <1>5, <1>6, <2>1 DEF ViewInv, ListeningInv, DocumentSound, CurrentSound, GetInv
<1> QED
  BY <1>2, <1>5, <1>8, <1>9, <1>10, <1>11, ResetKeeps

----------------------------------------------------------------------------
(* The server's document.                                                  *)

LEMMA OthersWriteKeeps ==
    ASSUME ListenAssumption, ListenInv, NEW value \in OthersValues, OthersWrite(value)
    PROVE  ListenInv'
<1>1. Typed /\ DiskInv
  BY DEF ListenInv
<1>2. /\ hist' = Append(hist, value)
      /\ UNCHANGED <<lastAck, queue, written, acks, disk, resume_token, trouble>>
      /\ UNCHANGED <<watch_stream_, aggregator, online, view, listener, get>>
  BY DEF OthersWrite, writeVars, watchVars, appVars
<1>3. value \in MaybeDocument
  BY Values
<1>4. /\ hist' \in Seq(MaybeDocument) /\ hist' # <<>> /\ Version' = Version + 1 /\ Version \in Nat
      /\ \A i \in 1..Version : hist'[i] = hist[i]
  <2>1. hist \in Seq(MaybeDocument)
    BY <1>1 DEF Typed
  <2> QED
    BY <1>2, <1>3, <2>1, SeqFacts DEF Version
<1>5. Typed'
  BY <1>1, <1>2, <1>4 DEF Typed
<1>6. AcksSound'
  <2>1. \A i \in 1..Version : i \in 1..Version'
    BY <1>4
  <2>2. \A i \in 1..Len(acks) : acks[i] \in 1..Version' /\ hist'[acks[i]] = queue[i]
    BY <1>1, <1>4, <2>1 DEF DiskInv, AcksSound
  <2> QED
    BY <1>1, <1>2, <2>2 DEF DiskInv, AcksSound
<1> QED
  BY <1>2, <1>3, <1>5, <1>6, HistKeeps DEF watchVars, appVars

LEMMA ServerCommitsKeeps ==
    ASSUME ListenAssumption, ListenInv, ServerCommits
    PROVE  ListenInv'
<1> DEFINE value == queue[Len(acks) + 1]
<1>1. Typed /\ DiskInv
  BY DEF ListenInv
<1>2. /\ Len(acks) < Len(queue) /\ hist' = Append(hist, value)
      /\ acks' = Append(acks, Version + 1)
      /\ UNCHANGED <<lastAck, queue, written, disk, resume_token, trouble>>
      /\ UNCHANGED <<watch_stream_, aggregator, online, view, listener, get>>
  BY DEF ServerCommits, watchVars, appVars
<1>3. /\ acks \in Seq(Nat) /\ Len(acks) \in Nat /\ queue \in Seq(OwnValues) /\ Len(queue) \in Nat
      /\ hist \in Seq(MaybeDocument) /\ Version \in Nat
  BY <1>1, Fields
<1>4. value \in OwnValues
  <2>1. Len(acks) + 1 \in 1..Len(queue)
    BY <1>2, <1>3
  <2> QED
    BY <1>3, <2>1
<1> HIDE DEF value
<1>5. value \in MaybeDocument
  BY <1>4, Values
<1>6. /\ hist' \in Seq(MaybeDocument) /\ hist' # <<>> /\ Version' = Version + 1
      /\ \A i \in 1..Version : hist'[i] = hist[i]
      /\ hist'[Version + 1] = value
  BY <1>2, <1>3, <1>5, SeqFacts DEF Version
<1>7. /\ acks' \in Seq(Nat) /\ Len(acks') = Len(acks) + 1
      /\ \A i \in 1..Len(acks) : acks'[i] = acks[i]
      /\ acks'[Len(acks) + 1] = Version + 1
  <2>1. Version + 1 \in Nat
    BY <1>3
  <2> QED
    BY <1>2, <1>3, <2>1, SeqFacts
<1>8. Typed'
  BY <1>1, <1>2, <1>6, <1>7 DEF Typed
<1>9. AcksSound'
  <2>1. Len(acks') <= Len(queue)
    BY <1>2, <1>3, <1>7
  <2>2. ASSUME NEW i \in 1..Len(acks')
        PROVE  acks'[i] \in 1..Version' /\ hist'[acks'[i]] = queue[i]
    <3>1. CASE i = Len(acks) + 1
      BY <1>3, <1>6, <1>7, <3>1 DEF value
    <3>2. CASE i # Len(acks) + 1
      <4>1. i \in 1..Len(acks)
        BY <1>3, <1>7, <3>2
      <4>2. acks[i] \in 1..Version /\ hist[acks[i]] = queue[i]
        BY <1>1, <4>1 DEF DiskInv, AcksSound
      <4>3. \A n \in 1..Version : n \in 1..Version'
        BY <1>3, <1>6
      <4> QED
        BY <1>6, <1>7, <4>1, <4>2, <4>3
    <3> QED
      BY <3>1, <3>2
  <2> QED
    BY <1>2, <2>1, <2>2 DEF AcksSound
<1> QED
  BY <1>2, <1>5, <1>8, <1>9, HistKeeps DEF watchVars, appVars

----------------------------------------------------------------------------
(* The stream opens.                                                       *)

LEMMA SameView ==
    ASSUME Typed, DiskInv, SyncedInv, ViewInv,
           UNCHANGED <<hist, lastAck, queue, acks, disk, resume_token, view, listener, get>>
    PROVE  DiskInv' /\ SyncedInv' /\ ViewInv'
<1>1. DiskInv'
  BY DiskKept DEF DiskInv
<1>2. SyncedInv'
  BY DEF SyncedInv, Resumes
<1>3. ListeningInv' /\ DocumentSound(view, queue, disk.cache)'
  BY DEF ViewInv, ListeningInv, DocumentSound
<1>4. CurrentSound(view, get, disk.cache, resume_token)'
  BY DEF ViewInv, CurrentSound
<1>5. GetInv'
  BY DEF ViewInv, GetInv, Version
<1> QED
  BY <1>1, <1>2, <1>3, <1>4, <1>5 DEF ViewInv

LEMMA WatchStreamOpensKeeps ==
    ASSUME ListenAssumption, ListenInv, WatchStreamOpens
    PROVE  ListenInv'
<1>1. /\ Typed /\ DiskInv /\ StreamInv /\ OnlineInv /\ SyncedInv /\ ViewInv
  BY DEF ListenInv, TargetInv
<1>2. /\ watch_stream_.state = "Starting"
      /\ UNCHANGED <<hist, lastAck, queue, written, acks, disk, resume_token, online>>
      /\ UNCHANGED <<view, listener, get, trouble>>
  BY DEF WatchStreamOpens, serverVars, writeVars, appVars
<1>3. watch_stream_ = NewStream("Starting") /\ aggregator = NewAggregator
  BY <1>1, <1>2 DEF StreamInv, IsOpen
<1>4. watch_stream_ \in Stream /\ aggregator \in Aggregator /\ resume_token \in Nat
  BY <1>1 DEF Typed
<1>5. DiskInv' /\ SyncedInv' /\ ViewInv'
  BY <1>1, <1>2, SameView
<1> DEFINE s == [watch_stream_ EXCEPT !.state = "Open"]
<1>6. CASE view.on
  <2>1. Watch(resume_token) \in TargetRequest
    BY <1>4 DEF Watch, TargetRequest
  <2>2. watch_stream_' = Request(s, Watch(resume_token))
        /\ aggregator' = RecordPendingTargetRequest(aggregator)
    BY <1>6 DEF WatchStreamOpens
  <2>3. /\ watch_stream_' \in Stream /\ watch_stream_'.state = "Open" /\ ~watch_stream_'.idle
        /\ watch_stream_'.requests = Append(watch_stream_.requests, Watch(resume_token))
        /\ watch_stream_'.responses = watch_stream_.responses
        /\ watch_stream_'.sent = watch_stream_.sent
        /\ aggregator' \in Aggregator
    <3>1. Append(watch_stream_.requests, Watch(resume_token)) \in Seq(TargetRequest)
      BY <1>4, <2>1, StreamFields, SeqFacts
    <3>2. aggregator' \in Aggregator
      BY <1>4, <2>2 DEF RecordPendingTargetRequest, Aggregator
    <3> QED
      BY <1>4, <2>2, <3>1, <3>2 DEF Request, Stream
  <2>4. Typed'
    BY <1>1, <1>2, <2>3 DEF Typed
  <2>5. OnlineInv'
    BY <1>1, <1>2, <2>3 DEF OnlineInv, IsStarted
  <2>6. aggregator.update = NoUpdate
    BY <1>3 DEF NewAggregator
  <2> QED
    BY <1>2, <1>5, <2>1, <2>2, <2>3, <2>4, <2>5, <2>6, RequestKeeps
<1>7. CASE ~view.on
  <2>1. watch_stream_' = s /\ aggregator' = NewAggregator
    BY <1>3, <1>7 DEF WatchStreamOpens
  <2>2. watch_stream_' = NewStream("Open")
    BY <1>3, <2>1, NewState
  <2>3. watch_stream_' \in Stream /\ watch_stream_'.state = "Open" /\ aggregator' \in Aggregator
    BY <2>1, <2>2, NewFields
  <2>4. Typed'
    BY <1>1, <1>2, <2>3 DEF Typed
  <2>5. OnlineInv'
    BY <1>1, <1>2, <2>3 DEF OnlineInv, IsStarted
  <2> QED
    BY <1>2, <1>5, <1>7, <2>1, <2>2, <2>4, <2>5, ResetKeeps
<1> QED
  BY <1>6, <1>7

LEMMA BackoffElapsedKeeps ==
    ASSUME ListenAssumption, ListenInv, BackoffElapsed
    PROVE  ListenInv'
<1>1. /\ Typed /\ DiskInv /\ StreamInv /\ OnlineInv /\ SyncedInv /\ ViewInv
  BY DEF ListenInv, TargetInv
<1>2. /\ watch_stream_.state = "Backoff" /\ watch_stream_' = Start(watch_stream_)
      /\ UNCHANGED <<hist, lastAck, queue, written, acks, disk, resume_token, online>>
      /\ UNCHANGED <<aggregator, view, listener, get, trouble>>
  BY DEF BackoffElapsed, serverVars, writeVars, appVars
<1>3. watch_stream_ = NewStream("Backoff") /\ aggregator = NewAggregator
  BY <1>1, <1>2 DEF StreamInv, IsOpen
<1>4. watch_stream_' = NewStream("Starting")
  BY <1>2, <1>3, StartNew
<1>5. DiskInv' /\ SyncedInv' /\ ViewInv'
  BY <1>1, <1>2, SameView
<1>6. watch_stream_' \in Stream /\ watch_stream_'.state = "Starting" /\ aggregator' \in Aggregator
  BY <1>2, <1>3, <1>4, NewFields
<1>7. Typed'
  BY <1>1, <1>2, <1>6 DEF Typed
<1>8. OnlineInv'
  BY <1>1, <1>2, <1>6 DEF OnlineInv, IsStarted
<1> QED
  BY <1>2, <1>3, <1>4, <1>5, <1>7, <1>8, ResetKeeps

----------------------------------------------------------------------------
(* Listeners come and go.                                                  *)

LEMMA SeesSound ==
    ASSUME Typed, GetInv, NEW g \in Get, g = get \/ (g.state = "waiting" /\ g.asked <= Version),
           NEW w \in View, NEW o, NEW cache, NEW token \in Nat, token <= Version,
           CurrentSound(w, g, cache, token)
    PROVE  LET h == GetSees(g, w, o)
           IN  /\ h \in Get /\ h.asked = g.asked
               /\ h.state = "off" <=> g.state = "off"
               /\ h.state = "waiting" => g.state = "waiting"
               /\ CurrentSound(w, h, cache, token)
               /\ h.asked <= Version
               /\ h.state = "answered" /\ h.asked # 0 /\ ~h.from_cache /\ ~h.local =>
                     \E n \in h.asked..Version : h.value = hist[n]
<1> DEFINE h == GetSees(g, w, o)
<1>1. /\ h \in Get /\ h.asked = g.asked
      /\ \/ h = g
         \/ /\ h.state = "answered" /\ g.state = "waiting"
            /\ h.value = w.doc.value /\ h.local = (w.doc.state = "local")
            /\ h.from_cache = ~Synced(w)
  BY GetSeesType
<1>2. g.asked <= Version
  BY DEF GetInv
<1>3. CASE g.state = "answered"
  <2>1. h = g /\ g = get
    BY <1>3 DEF GetSees
  <2> QED
    BY <1>1, <1>2, <2>1 DEF GetInv
<1>4. CASE g.state # "answered"
  <2>1. /\ CurrentSound(w, h, cache, token)
        /\ h.state = "answered" /\ ~h.from_cache /\ ~h.local =>
              \E n \in h.asked..Version : h.value = hist[n]
    BY <1>2, <1>4, GetSeesSound
  <2> HIDE DEF h
  <2> QED
    BY <1>1, <1>2, <2>1 DEF h
<1> QED
  BY <1>3, <1>4

LEMMA LocalDocumentFacts ==
    ASSUME ListenAssumption, NEW q \in Seq(OwnValues), NEW cache \in CacheEntry
    PROVE  LET d == LocalDocument(q, cache)
           IN  /\ d \in ViewDocument
               /\ d.state = "local" => d.value \in OwnValues
               /\ q # <<>> => d = [value |-> Last(q), state |-> "local"]
               /\ d.state # "local" => d.value = cache.value
<1>1. CASE q # <<>>
  <2>1. Last(q) \in OwnValues
    BY <1>1 DEF Last
  <2>2. LocalDocument(q, cache) = [value |-> Last(q), state |-> "local"]
    BY <1>1 DEF LocalDocument
  <2> QED
    BY <1>1, <2>1, <2>2, Values DEF ViewDocument
<1>2. CASE q = <<>>
  BY <1>2 DEF LocalDocument, CacheEntry, ViewDocument
<1> QED
  BY <1>1, <1>2

LEMMA AddQueryListenerKeeps ==
    ASSUME ListenAssumption, ListenInv, NEW l \in Listener, NEW g \in Get, AddQueryListener(l, g),
           g = get \/ (g.state = "waiting" /\ g.asked <= Version /\ (view.on => g.asked = 0)),
           l.state # "off" \/ g.state # "off"
    PROVE  ListenInv'
<1>1. /\ Typed /\ DiskInv /\ StreamInv /\ OnlineInv /\ SyncedInv /\ ViewInv
  BY DEF ListenInv, TargetInv
<1>2. UNCHANGED <<hist, lastAck, queue, written, acks, disk, trouble>>
  BY DEF AddQueryListener, serverVars, writeVars
<1>3. /\ view \in View /\ online \in Online /\ watch_stream_ \in Stream /\ aggregator \in Aggregator
      /\ queue \in Seq(OwnValues) /\ disk.cache \in CacheEntry /\ disk.cache.version \in Nat
      /\ disk.token \in Nat /\ disk.key \in BOOLEAN /\ resume_token \in Nat /\ Version \in Nat
      /\ g.asked \in Nat
  BY <1>1, Fields, GetFields DEF Typed
<1>4. disk.cache.version <= Version /\ disk.token <= disk.cache.version
      /\ resume_token <= disk.cache.version
  BY <1>1, <1>3 DEF DiskInv, CacheSound, SyncedInv, Resumes
<1>5. disk.token <= Version /\ resume_token <= Version
  BY <1>3, <1>4
<1>6. GetInv /\ ListeningInv /\ DocumentSound(view, queue, disk.cache)
      /\ CurrentSound(view, get, disk.cache, resume_token)
  BY <1>1 DEF ViewInv
<1>7. \A v, w : LET m == ListenerSees(l, v, w, online) IN m.state = "off" <=> l.state = "off"
  BY DEF ListenerSees
<1>8. CASE view.on
  <2>1. /\ listener' = ListenerSees(l, view, view, online)
        /\ get' = GetSees(g, view, online)
        /\ UNCHANGED <<view, online, resume_token, watch_stream_, aggregator>>
    BY <1>8 DEF AddQueryListener, watchVars
  <2>2. CurrentSound(view, g, disk.cache, resume_token)
    BY <1>3, <1>6, <1>8 DEF CurrentSound
  <2>3. /\ get' \in Get /\ get'.asked = g.asked
        /\ get'.state = "off" <=> g.state = "off"
        /\ get'.state = "waiting" => g.state = "waiting"
        /\ CurrentSound(view, get', disk.cache, resume_token)
        /\ get'.asked <= Version
        /\ get'.state = "answered" /\ get'.asked # 0 /\ ~get'.from_cache /\ ~get'.local =>
              \E n \in get'.asked..Version : get'.value = hist[n]
    BY <1>1, <1>3, <1>5, <1>6, <2>1, <2>2, SeesSound
  <2>4. listener' \in Listener
    BY <1>3, <2>1, ListenerSeesType
  <2>5. Typed'
    BY <1>1, <1>2, <2>1, <2>3, <2>4 DEF Typed
  <2>6. ViewInv'
    <3>1. GetInv'
      BY <1>2, <2>3 DEF GetInv, Version
    <3>2. CurrentSound(view, get, disk.cache, resume_token)'
      BY <1>2, <2>1, <2>3 DEF CurrentSound
    <3>3. DocumentSound(view, queue, disk.cache)'
      BY <1>2, <1>6, <2>1 DEF DocumentSound
    <3>4. ListeningInv'
      BY <1>7, <1>8, <2>1, <2>3 DEF ListeningInv
    <3> QED
      BY <3>1, <3>2, <3>3, <3>4 DEF ViewInv
  <2>7. OnlineInv' /\ AcksSound' /\ CacheSound'
    BY <1>1, <1>2, <2>1 DEF OnlineInv, DiskInv, AcksSound, CacheSound, Version
  <2>8. disk.cache.version <= disk'.cache.version
    BY <1>2, <1>3
  <2> QED
    BY <1>2, <1>8, <2>1, <2>3, <2>5, <2>6, <2>7, <2>8, CalmKeeps
<1>9. CASE ~view.on
  <2> DEFINE v == [on |-> TRUE, doc |-> LocalDocument(queue, disk.cache),
                   synced_documents |-> disk.key, current |-> FALSE]
  <2>1. /\ view' = v /\ listener' = ListenerSees(l, NoView, v, online)
        /\ get' = GetSees(g, v, online) /\ resume_token' = disk.token
    BY <1>9 DEF AddQueryListener, Listen
  <2>2. LET d == LocalDocument(queue, disk.cache)
        IN  /\ d \in ViewDocument
            /\ d.state = "local" => d.value \in OwnValues
            /\ queue # <<>> => d = [value |-> Last(queue), state |-> "local"]
            /\ d.state # "local" => d.value = disk.cache.value
    BY <1>3, LocalDocumentFacts
  <2>3. /\ v \in View /\ v.on /\ ~v.current /\ v.synced_documents = disk.key
        /\ v.doc = LocalDocument(queue, disk.cache)
    BY <1>3, <2>2 DEF View
  <2> HIDE DEF v
  <2>4. CurrentSound(v, g, disk.cache, disk.token) /\ DocumentSound(v, queue, disk.cache)
    BY <2>2, <2>3 DEF CurrentSound, DocumentSound
  <2>5. /\ get' \in Get /\ get'.asked = g.asked
        /\ get'.state = "off" <=> g.state = "off"
        /\ CurrentSound(v, get', disk.cache, disk.token)
        /\ get'.asked <= Version
        /\ get'.state = "answered" /\ get'.asked # 0 /\ ~get'.from_cache /\ ~get'.local =>
              \E n \in get'.asked..Version : get'.value = hist[n]
    <3>1. v \in View /\ disk.token \in Nat /\ disk.token <= Version /\ Typed /\ GetInv
      BY <1>1, <1>3, <1>5, <1>6, <2>3
    <3>2. g = get \/ (g.state = "waiting" /\ g.asked <= Version)
      OBVIOUS
    <3>3. get' = GetSees(g, v, online) /\ CurrentSound(v, g, disk.cache, disk.token)
      BY <2>1, <2>4
    <3> QED
      BY <3>1, <3>2, <3>3, SeesSound
  <2>6. listener' \in Listener
    BY <2>1, <2>3, ListenerSeesType
  <2>7. ViewInv'
    <3>1. GetInv'
      BY <1>2, <2>5 DEF GetInv, Version
    <3>2. CurrentSound(view, get, disk.cache, resume_token)'
      BY <1>2, <2>1, <2>5 DEF CurrentSound
    <3>3. DocumentSound(view, queue, disk.cache)'
      BY <1>2, <2>1, <2>4 DEF DocumentSound
    <3>4. ListeningInv'
      BY <1>7, <2>1, <2>3, <2>5 DEF ListeningInv
    <3> QED
      BY <3>1, <3>2, <3>3, <3>4 DEF ViewInv
  <2>8. DiskInv'
    BY <1>1, <1>2, DiskKept DEF DiskInv
  <2>9. SyncedInv'
    <3>1. Resumes(disk.token, disk.key)
      BY <1>1 DEF DiskInv
    <3> QED
      BY <1>2, <2>1, <2>3, <3>1 DEF SyncedInv, Resumes
  <2>10. CASE IsOpen(watch_stream_)
    <3>1. /\ watch_stream_' = Request(watch_stream_, Watch(disk.token))
          /\ aggregator' = RecordPendingTargetRequest(aggregator) /\ online' = online
      BY <1>9, <2>10 DEF AddQueryListener, Listen, IsOpen, IsStarted
    <3>2. Watch(disk.token) \in TargetRequest
      BY <1>3 DEF Watch, TargetRequest
    <3>3. /\ watch_stream_' \in Stream /\ watch_stream_'.state = "Open" /\ ~watch_stream_'.idle
          /\ watch_stream_'.requests = Append(watch_stream_.requests, Watch(disk.token))
          /\ watch_stream_'.responses = watch_stream_.responses
          /\ watch_stream_'.sent = watch_stream_.sent
          /\ aggregator' \in Aggregator
      <4>1. Append(watch_stream_.requests, Watch(disk.token)) \in Seq(TargetRequest)
        BY <1>3, <3>2, StreamFields, SeqFacts
      <4>2. aggregator' \in Aggregator
        BY <1>3, <3>1 DEF RecordPendingTargetRequest, Aggregator
      <4> QED
        BY <1>3, <2>10, <3>1, <4>1, <4>2 DEF Request, Stream, IsOpen
    <3>4. Typed'
      BY <1>1, <1>2, <1>3, <2>1, <2>3, <2>5, <2>6, <3>1, <3>3 DEF Typed
    <3>5. OnlineInv'
      BY <1>1, <3>1, <3>3 DEF OnlineInv, IsStarted
    <3>6. ~view'.current
      BY <2>1, <2>3
    <3> QED
      BY <1>2, <2>1, <2>7, <2>8, <2>9, <3>1, <3>2, <3>3, <3>4, <3>5, <3>6, RequestKeeps
  <2>11. CASE ~IsOpen(watch_stream_)
    <3> DEFINE state == watch_stream_.state
    <3>1. watch_stream_ = NewStream(state) /\ aggregator = NewAggregator
      BY <1>1, <2>11 DEF StreamInv
    <3>2. state \in {"Initial", "Starting", "Error", "Backoff"}
      BY <1>3, <2>11, StreamFields DEF IsOpen
    <3>3. PICK next \in {"Starting", "Backoff"} :
              watch_stream_' = NewStream(next) /\ aggregator' = NewAggregator
      <4>1. CASE IsStarted(watch_stream_)
        <5>1. watch_stream_' = watch_stream_ /\ aggregator' = aggregator
          BY <1>9, <2>11, <4>1 DEF AddQueryListener, Listen
        <5>2. state \in {"Starting", "Backoff"}
          BY <3>2, <4>1 DEF IsStarted
        <5> QED
          BY <3>1, <5>1, <5>2
      <4>2. CASE ~IsStarted(watch_stream_)
        <5>1. watch_stream_' = Start(watch_stream_) /\ aggregator' = NewAggregator
          BY <1>9, <4>2 DEF AddQueryListener, Listen
        <5>2. watch_stream_' = NewStream(IF state = "Error" THEN "Backoff" ELSE "Starting")
          BY <3>1, <3>2, <5>1, StartNew
        <5> QED
          BY <5>1, <5>2
      <4> QED
        BY <4>1, <4>2
    <3>4. online' \in Online /\ OnlineSound(online')
      <4>1. OnlineSound(online)
        BY <1>1 DEF OnlineInv, OnlineSound
      <4>2. online' = online \/ online' = StreamStart(online)
        BY <1>9 DEF AddQueryListener, Listen
      <4> QED
        BY <1>3, <4>1, <4>2, OnlineFacts
    <3>5. /\ watch_stream_' \in Stream /\ watch_stream_'.state = next /\ aggregator' \in Aggregator
      BY <3>3, NewFields
    <3>6. Typed'
      BY <1>1, <1>2, <1>3, <2>1, <2>3, <2>5, <2>6, <3>4, <3>5 DEF Typed
    <3>7. OnlineInv'
      BY <3>4, <3>5 DEF OnlineInv, OnlineSound, IsStarted
    <3> QED
      BY <2>7, <2>8, <2>9, <3>3, <3>6, <3>7, ResetKeeps
  <2> QED
    BY <2>10, <2>11
<1> QED
  BY <1>8, <1>9

LEMMA AddSnapshotListenerKeeps ==
    ASSUME ListenAssumption, ListenInv, AddSnapshotListener
    PROVE  ListenInv'
<1> DEFINE l == [NoListener EXCEPT !.state = "new"]
<1>1. get \in Get
  BY DEF ListenInv, Typed
<1>2. l \in Listener /\ l.state # "off"
  BY Values DEF NoListener, Listener
<1>3. AddQueryListener(l, get)
  BY DEF AddSnapshotListener
<1> HIDE DEF l
<1> QED
  BY <1>1, <1>2, <1>3, AddQueryListenerKeeps

LEMMA GetDocumentKeeps ==
    ASSUME ListenAssumption, ListenInv, GetDocument
    PROVE  ListenInv'
<1> DEFINE g == [NoGet EXCEPT !.state = "waiting", !.asked = IF view.on THEN 0 ELSE Version]
<1>1. Typed /\ listener \in Listener /\ Version \in Nat
  BY Fields DEF ListenInv, Typed
<1>2. g \in Get /\ g.state = "waiting" /\ g.asked <= Version /\ (view.on => g.asked = 0)
  <2>1. NoGet \in Get
    BY Values DEF NoGet, Get
  <2> DEFINE n == IF view.on THEN 0 ELSE Version
  <2>2. n \in Nat /\ n <= Version /\ (view.on => n = 0)
    BY <1>1
  <2> HIDE DEF n
  <2>3. LET h == [NoGet EXCEPT !.state = "waiting", !.asked = n]
        IN  h \in Get /\ h.state = "waiting" /\ h.asked = n
    BY <2>1, <2>2 DEF Get
  <2> QED
    BY <2>2, <2>3 DEF n
<1>3. AddQueryListener(listener, g)
  BY DEF GetDocument
<1> HIDE DEF g
<1> QED
  BY <1>1, <1>2, <1>3, AddQueryListenerKeeps

\* The token goes back to the disk with the last listener.
LEMMA RemoveQueryListenerKeeps ==
    ASSUME ListenAssumption, ListenInv, NEW l \in Listener, NEW g, RemoveQueryListener(l, g),
           g = get \/ g = NoGet, view.on
    PROVE  ListenInv'
<1>1. /\ Typed /\ DiskInv /\ StreamInv /\ OnlineInv /\ SyncedInv /\ ViewInv
  BY DEF ListenInv, TargetInv
<1>2. /\ listener' = l /\ get' = g
      /\ UNCHANGED <<hist, lastAck, queue, written, acks, trouble>>
  BY DEF RemoveQueryListener, serverVars, writeVars
<1>3. /\ view \in View /\ online \in Online /\ watch_stream_ \in Stream /\ aggregator \in Aggregator
      /\ disk.cache.version \in Nat /\ resume_token \in Nat /\ Version \in Nat
      /\ disk \in [cache : CacheEntry, token : Nat, key : BOOLEAN, snapshot : Nat]
  BY <1>1, Fields DEF Typed
<1>4. NoGet \in Get /\ NoGet.state = "off" /\ NoGet.asked = 0
  BY Values DEF NoGet, Get
<1>5. get' \in Get /\ (get'.state = "waiting" => g = get) /\ GetInv'
  <2>1. g \in Get
    BY <1>1, <1>4 DEF Typed
  <2>2. CASE g = get
    BY <1>1, <1>2, <2>1, <2>2 DEF ViewInv, GetInv, Version
  <2>3. CASE g = NoGet
    BY <1>2, <1>3, <1>4, <2>1, <2>3 DEF GetInv, Version
  <2> QED
    BY <2>2, <2>3
<1>6. CASE l.state # "off" \/ g.state # "off"
  <2>1. UNCHANGED <<view, disk, resume_token, watch_stream_, aggregator, online>>
    BY <1>6 DEF RemoveQueryListener, watchVars
  <2>2. Typed'
    BY <1>1, <1>2, <1>5, <2>1 DEF Typed
  <2>3. ViewInv'
    <3>1. CurrentSound(view, get, disk.cache, resume_token)'
      BY <1>1, <1>2, <1>5, <2>1 DEF ViewInv, CurrentSound
    <3>2. DocumentSound(view, queue, disk.cache)'
      BY <1>1, <1>2, <2>1 DEF ViewInv, DocumentSound
    <3>3. ListeningInv'
      BY <1>2, <1>6, <2>1 DEF ListeningInv
    <3> QED
      BY <1>5, <3>1, <3>2, <3>3 DEF ViewInv
  <2>4. OnlineInv' /\ AcksSound' /\ CacheSound'
    BY <1>1, <1>2, <2>1 DEF OnlineInv, DiskInv, AcksSound, CacheSound, Version
  <2>5. disk.cache.version <= disk'.cache.version
    BY <1>3, <2>1
  <2> QED
    BY <1>2, <1>5, <2>1, <2>2, <2>3, <2>4, <2>5, CalmKeeps
<1>7. CASE l.state = "off" /\ g.state = "off"
  <2>1. view' = NoView /\ disk' = [disk EXCEPT !.token = resume_token] /\ resume_token' = 0
    BY <1>7 DEF RemoveQueryListener
  <2>2. /\ disk' \in [cache : CacheEntry, token : Nat, key : BOOLEAN, snapshot : Nat]
        /\ disk'.cache = disk.cache /\ disk'.snapshot = disk.snapshot
        /\ disk'.token = resume_token /\ disk'.key = disk.key
    BY <1>3, <2>1
  <2>3. view' \in View /\ ~view'.on /\ ~view'.current /\ view'.doc.state # "local"
    BY <2>1, NewFields
  <2>4. DiskInv'
    <3>1. Resumes(resume_token, disk.key)
      BY <1>1 DEF SyncedInv
    <3> QED
      BY <1>1, <1>2, <2>2, <3>1, DiskKept
  <2>5. SyncedInv'
    BY <2>1, <2>3 DEF SyncedInv
  <2>6. ViewInv'
    <3>1. CurrentSound(view, get, disk.cache, resume_token)'
      BY <2>3 DEF CurrentSound
    <3>2. DocumentSound(view, queue, disk.cache)'
      BY <2>1, <2>3 DEF DocumentSound
    <3>3. ListeningInv'
      BY <1>2, <1>7, <2>3 DEF ListeningInv
    <3> QED
      BY <1>5, <3>1, <3>2, <3>3 DEF ViewInv
  <2>7. CASE IsOpen(watch_stream_)
    <3>1. /\ watch_stream_' = [Request(watch_stream_, Unwatch) EXCEPT !.idle = TRUE]
          /\ aggregator' = RecordPendingTargetRequest(aggregator) /\ online' = online
      BY <1>7, <2>7 DEF RemoveQueryListener
    <3>2. Unwatch \in TargetRequest
      BY DEF Unwatch, TargetRequest
    <3>3. /\ watch_stream_' \in Stream /\ watch_stream_'.state = "Open"
          /\ watch_stream_'.requests = Append(watch_stream_.requests, Unwatch)
          /\ watch_stream_'.responses = watch_stream_.responses
          /\ watch_stream_'.sent = watch_stream_.sent
          /\ aggregator' \in Aggregator
      <4>1. Append(watch_stream_.requests, Unwatch) \in Seq(TargetRequest)
        BY <1>3, <3>2, StreamFields, SeqFacts
      <4>2. aggregator' \in Aggregator
        BY <1>3, <3>1 DEF RecordPendingTargetRequest, Aggregator
      <4> QED
        BY <1>3, <2>7, <3>1, <4>1, <4>2 DEF Request, Stream, IsOpen
    <3>4. Typed'
      BY <1>1, <1>2, <1>5, <2>1, <2>2, <2>3, <3>1, <3>3 DEF Typed
    <3>5. OnlineInv'
      BY <1>1, <3>1, <3>3 DEF OnlineInv, IsStarted
    <3> QED
      BY <1>2, <2>2, <2>3, <2>4, <2>5, <2>6, <3>1, <3>2, <3>3, <3>4, <3>5, RequestKeeps
  <2>8. CASE ~IsOpen(watch_stream_)
    <3> DEFINE state == watch_stream_.state
    <3>1. watch_stream_ = NewStream(state) /\ aggregator = NewAggregator
      BY <1>1, <2>8 DEF StreamInv
    <3>2. state \in {"Initial", "Starting", "Open", "Error", "Backoff"}
      BY <1>3, StreamFields
    <3>3. /\ watch_stream_' = watch_stream_ /\ aggregator' = aggregator
          /\ online' = UpdateState("Unknown")
      BY <1>7, <2>8 DEF RemoveQueryListener, watchVars
    <3>4. online' \in Online /\ OnlineSound(online') /\ ~online'.timer
      BY <3>3, UpdateStateFacts DEF OnlineState
    <3>5. Typed'
      BY <1>1, <1>2, <1>5, <2>1, <2>2, <2>3, <3>3, <3>4 DEF Typed
    <3>6. OnlineInv'
      BY <3>4 DEF OnlineInv, OnlineSound
    <3>7. watch_stream_' = NewStream(state) /\ aggregator' = NewAggregator
      BY <3>1, <3>3
    <3> HIDE DEF state
    <3> QED
      BY <2>3, <2>4, <2>5, <2>6, <3>2, <3>5, <3>6, <3>7, ResetKeeps
  <2> QED
    BY <2>7, <2>8
<1> QED
  BY <1>6, <1>7

LEMMA RemoveSnapshotListenerKeeps ==
    ASSUME ListenAssumption, ListenInv, RemoveSnapshotListener
    PROVE  ListenInv'
<1>1. view.on /\ NoListener \in Listener
  BY Values DEF RemoveSnapshotListener, ListenInv, ViewInv, ListeningInv, NoListener, Listener
<1> QED
  BY <1>1, RemoveQueryListenerKeeps DEF RemoveSnapshotListener

LEMMA GetDocumentEndsKeeps ==
    ASSUME ListenAssumption, ListenInv, GetDocumentEnds
    PROVE  ListenInv'
<1>1. view.on /\ listener \in Listener
  BY DEF GetDocumentEnds, ListenInv, ViewInv, ListeningInv, Typed
<1> QED
  BY <1>1, RemoveQueryListenerKeeps DEF GetDocumentEnds

LEMMA InitInv ==
    ASSUME ListenAssumption, Init
    PROVE  ListenInv
<1>1. /\ hist \in Seq(MaybeDocument) /\ hist # <<>> /\ Version = 1
  BY Values DEF Init, Version
<1>2. /\ disk.cache = NoEntry /\ disk.token = 0 /\ disk.key = FALSE /\ disk.snapshot = 0
  BY DEF Init
<1>3. /\ NoEntry \in CacheEntry /\ NoEntry.version = 0 /\ NoEntry.value = Missing
      /\ ~NoEntry.committed
  BY Values DEF NoEntry, CacheEntry
<1>4. Typed
  <2>1. watch_stream_ \in Stream /\ aggregator \in Aggregator /\ view \in View
    BY NewFields DEF Init
  <2>2. online \in Online
    BY UpdateStateFacts DEF Init, OnlineState
  <2>3. listener \in Listener /\ get \in Get
    BY Values DEF Init, NoListener, Listener, NoGet, Get
  <2>4. disk \in [cache : CacheEntry, token : Nat, key : BOOLEAN, snapshot : Nat]
    BY <1>3 DEF Init
  <2>5. trouble \in 0..MaxTrouble
    BY DEF Init, ListenAssumption
  <2>6. queue \in Seq(OwnValues) /\ acks \in Seq(Nat) /\ Len(queue) = 0 /\ written = 0
        /\ lastAck \in Nat /\ resume_token \in Nat
    BY DEF Init
  <2> QED
    BY <1>1, <2>1, <2>2, <2>3, <2>4, <2>5, <2>6 DEF Typed
<1>5. AcksSound /\ CacheSound /\ Resumes(disk.token, disk.key) /\ disk.snapshot <= Version
  BY <1>1, <1>2, <1>3 DEF Init, AcksSound, CacheSound, Resumes
<1>6. watch_stream_ = NewStream("Initial") /\ aggregator = NewAggregator
      /\ ~view.on /\ ~view.current /\ view = NoView /\ view.doc.state # "local"
  BY NewFields DEF Init
<1> DEFINE s == watch_stream_
           g == aggregator
<1>7. /\ s.state = "Initial" /\ ~s.idle /\ s.requests = <<>> /\ s.responses = <<>> /\ s.sent = 0
      /\ g.outstanding = 0 /\ g.change = "none" /\ g.update = NoUpdate
  BY <1>6, NewFields
<1>8. MessagesInv
  BY <1>7 DEF MessagesInv, MessagesTrue, UpdateTrue
<1>9. StreamInv
  <2>1. Cardinality(Answers(s.responses)) = 0
    <3>1. Answers(s.responses) = {}
      BY <1>7 DEF Answers
    <3> QED
      BY <3>1, FS_EmptySet
  <2>2. g.outstanding = Len(s.requests) + Cardinality(Answers(s.responses))
    BY <1>7, <2>1
  <2> QED
    BY <1>1, <1>6, <1>7, <2>2 DEF StreamInv
<1>10. OnlineInv
  BY DEF Init, OnlineInv, UpdateState
<1>11. TargetInv
  BY <1>6 DEF Init, TargetInv, SyncedInv, ChangeInv, ToldInv
<1>12. ViewInv
  <2>1. listener.state = "off" /\ get.state = "off" /\ get.asked = 0
    BY DEF Init, NoListener, NoGet
  <2> QED
    BY <1>1, <1>6, <2>1 DEF ViewInv, ListeningInv, DocumentSound, CurrentSound, GetInv
<1> QED
  BY <1>4, <1>5, <1>8, <1>9, <1>10, <1>11, <1>12 DEF ListenInv, DiskInv

----------------------------------------------------------------------------
(* The server's steps.                                                     *)

LEMMA MoreCount ==
    ASSUME NEW r \in Seq(TargetResponse), NEW more \in Seq(TargetResponse), more # <<>>,
           Latest(more, 2)
    PROVE  Cardinality(Answers(r \o more)) =
               Cardinality(Answers(r)) + IF Answer(more[1]) THEN 1 ELSE 0
<1> DEFINE all == r \o more
           n == Len(r)
           m == Len(more)
<1>1. /\ n \in Nat /\ m \in Nat /\ Len(all) = n + m
      /\ \A i \in 1..n : all[i] = r[i]
      /\ \A i \in 1..m : all[n + i] = more[i]
  BY MoreFacts
<1>2. m # 0
  OBVIOUS
<1>3. Answers(r) \in SUBSET (1..n) /\ IsFiniteSet(Answers(r)) /\ Cardinality(Answers(r)) \in Nat
  BY AnswersFinite
<1> HIDE DEF all, n, m
<1>4. \A i \in 1..(n + m) : i \in 1..n \/ i = n + 1 \/ i - n \in 2..m
  BY <1>1
<1>5. ASSUME NEW i \in 1..(n + m), i - n \in 2..m PROVE ~Answer(all[i])
  <2>1. n + (i - n) = i /\ i - n \in 1..m
    BY <1>1, <1>5
  <2>2. all[i] = more[i - n]
    BY <1>1, <2>1
  <2> QED
    BY <1>5, <2>2 DEF Latest, m
<1>6. n + 1 \in 1..(n + m) /\ 1 \in 1..m /\ \A i \in 1..n : i \in 1..(n + m)
  BY <1>1, <1>2
<1>7. all[n + 1] = more[1] /\ n + 1 \notin 1..n
  BY <1>1, <1>6
<1>8. Answers(all) = {i \in 1..(n + m) : Answer(all[i])} /\ Answers(r) = {i \in 1..n : Answer(r[i])}
  BY <1>1 DEF Answers, n
<1>9. CASE Answer(more[1])
  <2>1. Answers(all) = Answers(r) \union {n + 1}
    BY <1>1, <1>4, <1>5, <1>6, <1>7, <1>8, <1>9
  <2>2. n + 1 \notin Answers(r)
    BY <1>3, <1>7
  <2>3. Cardinality(Answers(all)) = Cardinality(Answers(r)) + 1
    BY <1>3, <2>1, <2>2, FS_AddElement
  <2> QED
    BY <1>9, <2>3 DEF all
<1>10. CASE ~Answer(more[1])
  <2>1. Answers(all) = Answers(r)
    BY <1>1, <1>4, <1>5, <1>6, <1>7, <1>8, <1>10
  <2> QED
    BY <1>3, <1>10, <2>1 DEF all
<1> QED
  BY <1>9, <1>10

LEMMA OneMore ==
    ASSUME NEW S, NEW q \in Seq(S), NEW x \in S
    PROVE  /\ <<x>> \in Seq(S) /\ Len(<<x>>) = 1 /\ <<x>>[1] = x
           /\ q \o <<x>> \in Seq(S) /\ Len(q \o <<x>>) = Len(q) + 1 /\ Len(q) \in Nat
           /\ (q \o <<x>>)[Len(q) + 1] = x /\ \A i \in 1..Len(q) : (q \o <<x>>)[i] = q[i]
<1>1. <<x>> \in Seq(S) /\ Len(<<x>>) = 1 /\ <<x>>[1] = x
  OBVIOUS
<1> QED
  BY <1>1

\* t is the sequence of a, b, c, ...
Two(t, a, b) == Len(t) = 2 /\ t[1] = a /\ t[2] = b
Three(t, a, b, c) == Len(t) = 3 /\ t[1] = a /\ t[2] = b /\ t[3] = c
Four(t, a, b, c, d) == Len(t) = 4 /\ t[1] = a /\ t[2] = b /\ t[3] = c /\ t[4] = d

LEMMA SomeMore ==
    ASSUME NEW S, NEW a \in S, NEW b \in S, NEW c \in S, NEW d \in S
    PROVE  /\ <<a>> \o <<b>> \in Seq(S) /\ Two(<<a>> \o <<b>>, a, b)
           /\ <<a>> \o <<b>> \o <<c>> \in Seq(S) /\ Three(<<a>> \o <<b>> \o <<c>>, a, b, c)
           /\ <<a>> \o <<b>> \o <<c>> \o <<d>> \in Seq(S)
           /\ Four(<<a>> \o <<b>> \o <<c>> \o <<d>>, a, b, c, d)
<1>1. \A q \in Seq(S), x \in S : q \o <<x>> = Append(q, x) /\ Append(q, x) \in Seq(S)
  OBVIOUS
<1>2. LET t == Append(<<a>>, b)
      IN  t \in Seq(S) /\ Two(t, a, b)
  BY DEF Two
<1>3. LET t == Append(Append(<<a>>, b), c)
      IN  t \in Seq(S) /\ Three(t, a, b, c)
  BY DEF Three
<1>4. LET t == Append(Append(Append(<<a>>, b), c), d)
      IN  t \in Seq(S) /\ Four(t, a, b, c, d)
  BY DEF Four
<1>5. <<a>> \in Seq(S)
  OBVIOUS
<1>6. <<a>> \o <<b>> = Append(<<a>>, b)
  BY <1>1, <1>5
<1>7. <<a>> \o <<b>> \o <<c>> = Append(Append(<<a>>, b), c)
  BY <1>1, <1>5, <1>6
<1>8. <<a>> \o <<b>> \o <<c>> \o <<d>> = Append(Append(Append(<<a>>, b), c), d)
  BY <1>1, <1>5, <1>7
<1> QED
  BY <1>2, <1>3, <1>4, <1>6, <1>7, <1>8, Zenon

\* What the server says of a target that it adds.
LEMMA Said ==
    ASSUME Typed, NEW token \in Nat
    PROVE  LET more == <<[kind |-> "added"]>> \o News(token) \o Current \o Consistent
               m == Len(more)
           IN  /\ more \in Seq(TargetResponse) /\ m \in {3, 4}
               /\ more[1].kind = "added" /\ more[m - 1].kind = "current"
               /\ more[m].kind = "snapshot" /\ more[m].version = Version
               /\ m = 4 => /\ more[2].kind = "document"
                           /\ more[2].update.version = Version /\ more[2].update.value = hist[Version]
               /\ m = 3 => Silent(Version, token)
<1> DEFINE a == [kind |-> "added"]
           c == [kind |-> "current"]
           s == [kind |-> "snapshot", version |-> Version]
           u == [value |-> Last(hist), version |-> Version]
           d == [kind |-> "document", update |-> u]
           more == <<[kind |-> "added"]>> \o News(token) \o Current \o Consistent
<1>1. Version \in Nat \ {0} /\ Last(hist) = hist[Version] /\ hist[Version] \in MaybeDocument
  <2>1. Version \in Nat \ {0} /\ \A n \in 1..Version : hist[n] \in MaybeDocument
    BY Fields
  <2> QED
    BY <2>1 DEF Last, Version
<1>2. u \in Update /\ u.version = Version /\ u.value = hist[Version]
  BY <1>1 DEF Update
<1> HIDE DEF u
<1>3. /\ a \in TargetResponse /\ c \in TargetResponse /\ s \in TargetResponse /\ d \in TargetResponse
      /\ a.kind = "added" /\ c.kind = "current" /\ s.kind = "snapshot" /\ s.version = Version
      /\ d.kind = "document" /\ d.update = u
  BY <1>1, <1>2 DEF TargetResponse
<1>4. /\ News(token) = <<>> \/ News(token) = <<d>>
      /\ News(token) = <<>> => Silent(Version, token)
  BY <1>1 DEF News, Silent, u
<1>5. more = <<a>> \o News(token) \o <<c>> \o <<s>>
  BY DEF Current, Consistent
<1> HIDE DEF a, c, s, d, more
<1> DEFINE m == Len(more)
<1>6. CASE News(token) = <<>>
  <2>1. <<a>> \o News(token) = <<a>>
    BY <1>3, <1>6, OneMore
  <2>2. more = <<a>> \o <<c>> \o <<s>>
    BY <1>5, <2>1
  <2>3. more \in Seq(TargetResponse) /\ Three(more, a, c, s)
    BY <1>3, <2>2, SomeMore
  <2>4. Silent(Version, token)
    BY <1>4, <1>6
  <2>5. m = 3 /\ more[1] = a /\ more[2] = c /\ more[3] = s
    BY <2>3, Zenon DEF Three
  <2> HIDE DEF m
  <2>6. /\ more \in Seq(TargetResponse) /\ m \in {3, 4}
        /\ more[1].kind = "added" /\ more[m - 1].kind = "current"
        /\ more[m].kind = "snapshot" /\ more[m].version = Version
        /\ m = 4 => /\ more[2].kind = "document"
                    /\ more[2].update.version = Version /\ more[2].update.value = hist[Version]
        /\ m = 3 => Silent(Version, token)
    BY <1>3, <2>3, <2>4, <2>5
  <2> QED
    BY <2>6 DEF m, more
<1>7. CASE News(token) = <<d>>
  <2>1. more = <<a>> \o <<d>> \o <<c>> \o <<s>>
    BY <1>5, <1>7
  <2>2. more \in Seq(TargetResponse) /\ Four(more, a, d, c, s)
    BY <1>3, <2>1, SomeMore
  <2>3. m = 4 /\ more[1] = a /\ more[2] = d /\ more[3] = c /\ more[4] = s
    BY <2>2, Zenon DEF Four
  <2> HIDE DEF m
  <2>4. /\ more \in Seq(TargetResponse) /\ m \in {3, 4}
        /\ more[1].kind = "added" /\ more[m - 1].kind = "current"
        /\ more[m].kind = "snapshot" /\ more[m].version = Version
        /\ m = 4 => /\ more[2].kind = "document"
                    /\ more[2].update.version = Version /\ more[2].update.value = hist[Version]
        /\ m = 3 => Silent(Version, token)
    BY <1>2, <1>3, <2>2, <2>3
  <2> QED
    BY <2>4 DEF m, more
<1> QED
  BY <1>4, <1>6, <1>7

\* What the server says of a document that has changed.
LEMMA SaidSince ==
    ASSUME Typed, NEW sent \in 1..(Version - 1)
    PROVE  LET more == News(sent) \o Consistent
           IN  /\ more \in Seq(TargetResponse) /\ Len(more) = 2
               /\ News(sent) \in Seq(TargetResponse) /\ Consistent \in Seq(TargetResponse)
               /\ more[1].kind = "document"
               /\ more[1].update.version = Version /\ more[1].update.value = hist[Version]
               /\ more[2].kind = "snapshot" /\ more[2].version = Version
<1> DEFINE s == [kind |-> "snapshot", version |-> Version]
           u == [value |-> Last(hist), version |-> Version]
           d == [kind |-> "document", update |-> u]
           more == News(sent) \o Consistent
<1>1. Version \in Nat \ {0} /\ Last(hist) = hist[Version] /\ hist[Version] \in MaybeDocument
  <2>1. Version \in Nat \ {0} /\ \A n \in 1..Version : hist[n] \in MaybeDocument
    BY Fields
  <2> QED
    BY <2>1 DEF Last, Version
<1>2. u \in Update /\ u.version = Version /\ u.value = hist[Version]
  BY <1>1 DEF Update
<1> HIDE DEF u
<1>3. /\ s \in TargetResponse /\ d \in TargetResponse
      /\ s.kind = "snapshot" /\ s.version = Version
      /\ d.kind = "document" /\ d.update = u
  BY <1>1, <1>2 DEF TargetResponse
<1>4. sent # Version /\ sent # 0
  BY <1>1
<1>5. News(sent) = <<d>> /\ Consistent = <<s>>
  BY <1>4 DEF Consistent, News, u
<1> HIDE DEF s, d
<1>7. News(sent) \in Seq(TargetResponse) /\ Consistent \in Seq(TargetResponse)
  BY <1>3, <1>5
<1> HIDE DEF more
<1>6. more \in Seq(TargetResponse) /\ Len(more) = 2 /\ more[1] = d /\ more[2] = s
  <2>1. more \in Seq(TargetResponse) /\ Two(more, d, s)
    BY <1>3, <1>5, SomeMore DEF more
  <2> QED
    BY <2>1, Zenon DEF Two
<1> QED
  BY <1>2, <1>3, <1>6, <1>7 DEF more

LEMMA LastTail ==
    ASSUME NEW S, NEW q \in Seq(S), q # <<>>
    PROVE  /\ Tail(q) # <<>> => Last(Tail(q)) = Last(q)
           /\ Tail(q) = <<>> => Last(q) = Head(q)
<1>1. /\ Tail(q) \in Seq(S) /\ Len(q) \in Nat \ {0} /\ Len(Tail(q)) = Len(q) - 1
      /\ Head(q) = q[1]
      /\ \A i \in 1..(Len(q) - 1) : Tail(q)[i] = q[i + 1]
  BY SeqFacts
<1>2. ASSUME Tail(q) # <<>> PROVE Last(Tail(q)) = Last(q)
  <2>1. Len(Tail(q)) # 0
    <3>1. \A t \in Seq(S) : Len(t) = 0 => t = <<>>
      OBVIOUS
    <3> QED
      BY <1>1, <1>2, <3>1
  <2>2. Len(q) - 1 \in 1..(Len(q) - 1) /\ (Len(q) - 1) + 1 = Len(q)
    BY <1>1, <2>1
  <2> QED
    BY <1>1, <2>2 DEF Last
<1>3. ASSUME Tail(q) = <<>> PROVE Last(q) = Head(q)
  <2>1. \A t \in Seq(S) : t = <<>> => Len(t) = 0
    OBVIOUS
  <2>2. Len(q) = 1
    <3>0. Tail(q) \in Seq(S)
      BY <1>1
    <3>1. Len(Tail(q)) = 0
      BY <1>3, <2>1, <3>0
    <3> DEFINE n == Len(q)
               m == Len(Tail(q))
    <3>2. n \in Nat /\ m = n - 1 /\ m = 0
      BY <1>1, <3>1, Zenon
    <3> HIDE DEF n, m
    <3>3. n = 1
      BY <3>2
    <3> QED
      BY <3>3 DEF n
  <2> QED
    BY <1>1, <2>2 DEF Last
<1> QED
  BY <1>2, <1>3

\* The server says more, once it has taken up a request or on its own.
LEMMA RespondKeeps ==
    ASSUME ListenInv, Typed', ToldInv',
           UNCHANGED <<hist, lastAck, queue, acks, disk, resume_token>>,
           UNCHANGED <<aggregator, online, view, listener, get>>,
           NEW more \in Seq(TargetResponse), more # <<>>, TrueNow(more), Latest(more, 2),
           IsOpen(watch_stream_), watch_stream_'.state = watch_stream_.state,
           watch_stream_'.idle = watch_stream_.idle,
           watch_stream_'.responses = watch_stream_.responses \o more,
           watch_stream_'.sent <= Version,
           Len(watch_stream_.requests) =
               Len(watch_stream_'.requests) + IF Answer(more[1]) THEN 1 ELSE 0,
           view.on /\ watch_stream_'.requests # <<>> =>
               Last(watch_stream_'.requests) = Watch(resume_token),
           view.on /\ watch_stream_'.requests = <<>> =>
               LET all == watch_stream_.responses \o more
               IN  \A i \in 1..Len(all) : all[i].kind = "removed" => ~Latest(all, i + 1)
    PROVE  ListenInv'
<1> DEFINE r == watch_stream_.responses
           all == r \o more
<1>1. /\ Typed /\ DiskInv /\ MessagesInv /\ StreamInv /\ OnlineInv /\ SyncedInv /\ ChangeInv /\ ViewInv
      /\ Version' = Version
  BY DEF ListenInv, TargetInv, Version
<1>2. /\ r \in Seq(TargetResponse) /\ aggregator.outstanding \in Nat
      /\ Len(watch_stream_.requests) \in Nat /\ Len(watch_stream_'.requests) \in Nat
      /\ Len(r) \in Nat
  BY <1>1, StreamFields, AggregatorFields DEF Typed
<1>3. DiskInv' /\ SyncedInv' /\ ViewInv'
  BY <1>1, SameView
<1>4. MessagesInv'
  <2>1. MessagesTrue(all)
    <3>1. MessagesTrue(r) /\ disk.snapshot <= Version
      BY <1>1 DEF MessagesInv, DiskInv
    <3> QED
      BY <1>1, <1>2, <3>1, MoreMessages
  <2>2. UpdateTrue(all, aggregator.update)
    <3>1. UpdateTrue(r, aggregator.update)
      BY <1>1 DEF MessagesInv
    <3>2. 1 \in 1..(Len(r) + 1)
      BY <1>2
    <3>3. \A version : Brings(r, 1, version) => Brings(all, 1, version)
      BY <1>2, <3>2, MorePlaces
    <3> QED
      BY <3>1, <3>3 DEF UpdateTrue
  <2> HIDE DEF all
  <2>3. watch_stream_'.responses = all
    BY DEF all
  <2> QED
    BY <1>1, <2>1, <2>2, <2>3 DEF MessagesInv, MessagesTrue, UpdateTrue
<1>5. StreamInv'
  <2>1. Cardinality(Answers(all)) = Cardinality(Answers(r)) + IF Answer(more[1]) THEN 1 ELSE 0
    BY <1>2, MoreCount
  <2>2. Cardinality(Answers(r)) \in Nat
    BY <1>2, AnswersFinite
  <2>3. aggregator.outstanding = Len(watch_stream_.requests) + Cardinality(Answers(r))
    BY <1>1 DEF StreamInv
  <2>4. aggregator.outstanding = Len(watch_stream_'.requests) + Cardinality(Answers(all))
    <3> DEFINE a == Cardinality(Answers(r))
               b == Cardinality(Answers(all))
               old == Len(watch_stream_.requests)
               new == Len(watch_stream_'.requests)
               n == IF Answer(more[1]) THEN 1 ELSE 0
    <3>1. a \in Nat /\ old \in Nat /\ new \in Nat /\ n \in Nat /\ old = new + n /\ b = a + n
      BY <1>2, <2>1, <2>2
    <3> HIDE DEF a, b, old, new, n
    <3>2. aggregator.outstanding = old + a
      BY <2>3 DEF a, old
    <3>3. aggregator.outstanding = new + b
      BY <3>1, <3>2
    <3> QED
      BY <3>3 DEF b, new
  <2>5. /\ IsOpen(watch_stream_')
        /\ view.on => IsStarted(watch_stream_') /\ ~watch_stream_'.idle
        /\ aggregator'.outstanding =
              Len(watch_stream_'.requests) + Cardinality(Answers(watch_stream_'.responses))
        /\ watch_stream_'.sent <= Version'
    BY <1>1, <2>4 DEF StreamInv, IsOpen, IsStarted
  <2> QED
    BY <2>5 DEF StreamInv
<1>6. OnlineInv'
  BY <1>1 DEF OnlineInv, IsStarted
<1>7. ChangeInv'
  BY <1>1 DEF ChangeInv
<1> QED
  BY <1>3, <1>4, <1>5, <1>6, <1>7 DEF ListenInv, TargetInv

\* What is told in the next state, of a document with the same history.
LEMMA ToldThen ==
    ASSUME UNCHANGED hist,
           view'.on /\ watch_stream_'.requests = <<>> =>
               LET r == watch_stream_'.responses
               IN  /\ watch_stream_'.sent # 0 => CurrentTold(r, Len(r) + 1, aggregator'.current)
                   /\ \A i \in 1..Len(r) : Latest(r, i) /\ r[i].kind = "snapshot" =>
                         /\ DocumentTold(r, i, aggregator'.update, resume_token')
                         /\ CurrentTold(r, i, aggregator'.current)
                         /\ ShownBy(r[i].version, get', view'.doc, disk'.cache)
    PROVE  ToldInv'
<1>1. \A r, i, update, token :
         DocumentTold(r, i, update, token) <=>
             \/ \E j \in 1..(i - 1) : /\ r[j].kind = "document"
                                      /\ \A k \in (j + 1)..(i - 1) : r[k].kind = "current"
             \/ /\ \A k \in 1..(i - 1) : Latest(r, k) => r[k].kind = "current"
                /\ \/ Latest(r, 1) /\ update # NoUpdate
                   \/ r[i].version = token \/ (token = 0 /\ hist'[r[i].version] = Missing)
  BY DEF DocumentTold, Silent
<1> QED
  BY <1>1 DEF ToldInv, DocumentTold, Silent

LEMMA ThreeFour ==
    ASSUME NEW m \in {3, 4}
    PROVE  \A i \in 1..m : i = 1 \/ i = m - 1 \/ i = m \/ (i = 2 /\ m = 4)
  OBVIOUS

LEMMA SaidTrue ==
    ASSUME Typed, NEW more \in Seq(TargetResponse), NEW m, m = Len(more), m \in {3, 4},
           more[1].kind = "added", more[m - 1].kind = "current",
           more[m].kind = "snapshot", more[m].version = Version,
           m = 4 => /\ more[2].kind = "document"
                    /\ more[2].update.version = Version /\ more[2].update.value = hist[Version]
    PROVE  TrueNow(more) /\ Latest(more, 2) /\ ~Latest(more, 1) /\ Answer(more[1])
           /\ (\A k \in (m - 1)..m : Latest(more, k)) /\ more # <<>>
<1>1. \A i \in 1..m : i = 1 \/ i = m - 1 \/ i = m \/ (i = 2 /\ m = 4)
  BY ThreeFour
<1>2. \A i \in 2..m : ~Answer(more[i])
  <2>1. \A i \in 2..m : i \in 1..m /\ i # 1
    OBVIOUS
  <2> QED
    BY <1>1, <2>1 DEF Answer
<1>3. Answer(more[1]) /\ 1 \in 1..m
  BY DEF Answer
<1>4. m = 4 => Brings(more, 3, Version)
  <2>1. m = 4 => 4 \in 3..m /\ \A k \in 3..(4 - 1) : k = m - 1
    OBVIOUS
  <2> QED
    BY <2>1 DEF Brings
<1>5. TrueNow(more)
  <2> SUFFICES ASSUME NEW i \in 1..m
        PROVE  /\ more[i].kind = "document" =>
                     /\ more[i].update.version = Version /\ more[i].update.value = hist[Version]
                     /\ i + 1 \in 1..m /\ Brings(more, i + 1, Version)
               /\ more[i].kind = "snapshot" => more[i].version = Version
    BY DEF TrueNow
  <2>1. CASE i = 2 /\ m = 4
    BY <1>4, <2>1
  <2>2. CASE ~(i = 2 /\ m = 4)
    BY <1>1, <2>2
  <2> QED
    BY <2>1, <2>2
<1>6. \A k \in (m - 1)..m : \A i \in k..m : i \in 2..m
  OBVIOUS
<1>7. \A k \in (m - 1)..m : Latest(more, k)
  BY <1>2, <1>6 DEF Latest
<1>8. more # <<>>
  <2>1. \A q \in Seq(TargetResponse) : q = <<>> => Len(q) = 0
    OBVIOUS
  <2> QED
    BY <2>1
<1> QED
  BY <1>2, <1>3, <1>5, <1>7, <1>8 DEF Latest

LEMMA ServerReceivesKeeps ==
    ASSUME ListenAssumption, ListenInv, ServerReceives
    PROVE  ListenInv'
<1> DEFINE request == Head(watch_stream_.requests)
           r == watch_stream_.responses
           n == Len(r)
           next == watch_stream_'
<1>1. /\ Typed /\ DiskInv /\ StreamInv /\ ViewInv
  BY DEF ListenInv
<1>2. /\ watch_stream_.requests # <<>>
      /\ UNCHANGED <<hist, lastAck, queue, written, acks, disk, resume_token>>
      /\ UNCHANGED <<aggregator, online, view, listener, get, trouble>>
  BY DEF ServerReceives, serverVars, writeVars, appVars
<1>3. /\ watch_stream_ \in Stream /\ watch_stream_.requests \in Seq(TargetRequest)
      /\ r \in Seq(TargetResponse) /\ n \in Nat /\ Version \in Nat /\ resume_token \in Nat
      /\ disk.cache.version \in Nat /\ get \in Get
  BY <1>1, StreamFields, Fields DEF Typed
<1>4. /\ Tail(watch_stream_.requests) \in Seq(TargetRequest) /\ request \in TargetRequest
      /\ Len(watch_stream_.requests) \in Nat \ {0}
      /\ Len(Tail(watch_stream_.requests)) = Len(watch_stream_.requests) - 1
  BY <1>2, <1>3, SeqFacts
<1>5. /\ Tail(watch_stream_.requests) # <<>> =>
             Last(Tail(watch_stream_.requests)) = Last(watch_stream_.requests)
      /\ Tail(watch_stream_.requests) = <<>> => Last(watch_stream_.requests) = request
  BY <1>2, <1>3, LastTail
<1>6. view.on => Last(watch_stream_.requests) = Watch(resume_token)
  BY <1>1, <1>2 DEF StreamInv
<1>7. IsOpen(watch_stream_)
  <2>1. \A state : NewStream(state).requests = <<>>
    BY DEF NewStream
  <2> QED
    BY <1>1, <1>2, <2>1 DEF StreamInv
<1> HIDE DEF request
<1>8. CASE request = Unwatch
  <2> DEFINE more == <<[kind |-> "removed"]>>
  <2>1. more \in Seq(TargetResponse) /\ Len(more) = 1 /\ more[1].kind = "removed"
    <3>1. [kind |-> "removed"] \in TargetResponse
      BY DEF TargetResponse
    <3> QED
      BY <3>1, OneMore
  <2> HIDE DEF more
  <2>2. /\ next = [watch_stream_ EXCEPT !.requests = Tail(@), !.sent = NotWatched,
                                        !.responses = @ \o more]
    BY <1>8 DEF ServerReceives, request, more
  <2>3. r \o more \in Seq(TargetResponse)
    BY <1>3, <2>1, MoreFacts
  <2>4. /\ next \in Stream /\ next.state = watch_stream_.state /\ next.idle = watch_stream_.idle
        /\ next.requests = Tail(watch_stream_.requests) /\ next.responses = r \o more
        /\ next.sent = 0
    BY <1>3, <1>4, <2>2, <2>3 DEF Stream, NotWatched
  <2>5. TrueNow(more) /\ Latest(more, 2) /\ Answer(more[1]) /\ more # <<>>
    <3>1. \A i \in 1..1 : i = 1
      OBVIOUS
    <3>2. 2..1 = {}
      OBVIOUS
    <3> QED
      BY <2>1, <3>1, <3>2 DEF TrueNow, Latest, Answer
  <2>6. view.on => next.requests # <<>>
    <3>1. Watch(resume_token) # Unwatch
      BY DEF Watch, Unwatch
    <3> QED
      BY <1>5, <1>6, <1>8, <2>4, <3>1
  <2>7. Typed'
    BY <1>1, <1>2, <2>4 DEF Typed
  <2>8. ToldInv'
    BY <1>2, <2>6 DEF ToldInv
  <2>9. Len(watch_stream_.requests) = Len(next.requests) + 1
    BY <1>4, <2>4
  <2>10. next.sent <= Version
    BY <1>3, <2>4
  <2> QED
    BY <1>2, <1>5, <1>6, <1>7, <2>1, <2>4, <2>5, <2>6, <2>7, <2>8, <2>9, <2>10, RespondKeeps
<1>9. CASE request # Unwatch
  <2>1. request = Watch(request.token) /\ request.token \in Nat
    BY <1>4, <1>9 DEF TargetRequest, Unwatch, Watch
  <2> DEFINE token == request.token
             more == <<[kind |-> "added"]>> \o News(token) \o Current \o Consistent
             m == Len(more)
  <2>2. /\ more \in Seq(TargetResponse) /\ m \in {3, 4}
        /\ more[1].kind = "added" /\ more[m - 1].kind = "current"
        /\ more[m].kind = "snapshot" /\ more[m].version = Version
        /\ m = 4 => /\ more[2].kind = "document"
                    /\ more[2].update.version = Version /\ more[2].update.value = hist[Version]
        /\ m = 3 => Silent(Version, token)
    BY <1>1, <2>1, Said
  <2>3. next = [watch_stream_ EXCEPT !.requests = Tail(@), !.sent = Version,
                                     !.responses = @ \o more]
    BY <1>9 DEF ServerReceives, request
  <2> HIDE DEF more
  <2>4. r \o more \in Seq(TargetResponse)
    BY <1>3, <2>2, MoreFacts
  <2>5. /\ next \in Stream /\ next.state = watch_stream_.state /\ next.idle = watch_stream_.idle
        /\ next.requests = Tail(watch_stream_.requests) /\ next.responses = r \o more
        /\ next.sent = Version
    BY <1>3, <1>4, <2>3, <2>4 DEF Stream
  <2> HIDE DEF m
  <2>6. m = Len(more)
    BY DEF m
  <2>7. /\ TrueNow(more) /\ Latest(more, 2) /\ ~Latest(more, 1) /\ Answer(more[1])
        /\ \A k \in (m - 1)..m : Latest(more, k)
        /\ more # <<>>
    BY <1>1, <2>2, <2>6, SaidTrue
  <2> DEFINE all == r \o more
  <2>8. /\ Len(all) = n + m /\ \A i \in 1..n : all[i] = r[i]
        /\ \A i \in 1..m : all[n + i] = more[i]
        /\ m \in Nat
    BY <1>3, <2>2, <2>6, MoreFacts
  <2>9. /\ \A i \in 1..(n + 1) : ~Latest(all, i)
        /\ \A i \in 1..(m + 1) : Latest(all, n + i) <=> Latest(more, i)
    BY <1>3, <2>2, <2>6, <2>7, MorePlaces
  <2> HIDE DEF all, n
  <2>10. \A i \in 1..(n + m) : i \in 1..n \/ \E j \in 1..m : i = n + j
    <3> SUFFICES ASSUME NEW i \in 1..(n + m) PROVE i \in 1..n \/ \E j \in 1..m : i = n + j
      OBVIOUS
    <3>1. i \in 1..n \/ (i - n \in 1..m /\ i = n + (i - n))
      BY <1>3, <2>8
    <3> QED
      BY <3>1
  <2>11. \A i \in 1..(n + m) : all[i].kind = "removed" => ~Latest(all, i + 1)
    <3> SUFFICES ASSUME NEW i \in 1..(n + m), all[i].kind = "removed" PROVE ~Latest(all, i + 1)
      OBVIOUS
    <3>1. CASE i \in 1..n
      <4>1. i + 1 \in 1..(n + 1)
        BY <1>3, <3>1
      <4> QED
        BY <2>9, <4>1
    <3>2. ASSUME NEW j \in 1..m, i = n + j PROVE FALSE
      <4>1. more[j].kind = "removed"
        BY <2>8, <3>2
      <4>2. j = 1 \/ j = m - 1 \/ j = m \/ (j = 2 /\ m = 4)
        BY <2>2, ThreeFour
      <4> QED
        BY <2>2, <4>1, <4>2
    <3> QED
      BY <2>10, <3>1, <3>2
  <2>12. ToldInv'
    <3> SUFFICES ASSUME view.on, next.requests = <<>>
        PROVE  /\ CurrentTold(all, Len(all) + 1, aggregator.current)
               /\ \A i \in 1..Len(all) : Latest(all, i) /\ all[i].kind = "snapshot" =>
                     /\ DocumentTold(all, i, aggregator.update, resume_token)
                     /\ CurrentTold(all, i, aggregator.current)
                     /\ ShownBy(all[i].version, get, view.doc, disk.cache)
      <4>1. next.responses = all
        BY <2>5 DEF all
      <4> QED
        BY <1>2, <4>1, ToldThen
    <3>1. token = resume_token
      <4>1. Watch(token) = Watch(resume_token)
        BY <1>5, <1>6, <2>1, <2>5
      <4>2. Watch(token).token = token /\ Watch(resume_token).token = resume_token
        BY DEF Watch
      <4> QED
        BY <4>1, <4>2
    <3> HIDE DEF token
    <3>2. /\ n + (m - 1) \in 1..(n + m) /\ n + m \in 1..(n + m) /\ m - 1 \in 1..m /\ m \in 1..m
          /\ m - 1 \in (m - 1)..m /\ m \in (m - 1)..m /\ m - 1 \in 1..(m + 1) /\ m \in 1..(m + 1)
          /\ n + (m - 1) \in 1..((n + m) - 1) /\ n + (m - 1) \in 1..((n + m + 1) - 1)
      BY <1>3, <2>2
    <3>3. /\ all[n + (m - 1)].kind = "current" /\ Latest(all, n + (m - 1))
          /\ all[n + m].kind = "snapshot" /\ all[n + m].version = Version
      BY <2>2, <2>7, <2>8, <2>9, <3>2
    <3>4. \A current : /\ CurrentTold(all, n + m, current)
                       /\ CurrentTold(all, n + m + 1, current)
      BY <3>2, <3>3 DEF CurrentTold
    <3>5. ShownBy(Version, get, view.doc, disk.cache)
      <4>1. get.asked <= Version
        BY <1>1 DEF ViewInv, GetInv
      <4>2. disk.cache.version <= Version
        BY <1>1 DEF DiskInv, CacheSound
      <4> QED
        BY <4>1, <4>2 DEF ShownBy
    <3>6. DocumentTold(all, n + m, aggregator.update, resume_token)
      <4>1. CASE m = 4
        <5>1. n + 2 \in 1..((n + m) - 1) /\ 2 \in 1..m
              /\ \A k \in ((n + 2) + 1)..((n + m) - 1) : k = n + (m - 1)
          BY <1>3, <4>1
        <5>2. all[n + 2].kind = "document"
          BY <2>2, <2>8, <4>1, <5>1
        <5> QED
          BY <3>3, <5>1, <5>2 DEF DocumentTold
      <4>2. CASE m = 3
        <5>1. \A k \in 1..((n + m) - 1) : k \in 1..(n + 1) \/ k = n + (m - 1)
          BY <1>3, <4>2
        <5>2. \A k \in 1..((n + m) - 1) : Latest(all, k) => all[k].kind = "current"
          BY <2>9, <3>3, <5>1
        <5>3. Silent(all[n + m].version, resume_token)
          BY <2>2, <3>1, <3>3, <4>2
        <5> QED
          BY <5>2, <5>3 DEF DocumentTold
      <4> QED
        BY <2>2, <4>1, <4>2
    <3>7. ASSUME NEW i \in 1..(n + m), Latest(all, i), all[i].kind = "snapshot" PROVE i = n + m
      <4>1. CASE i \in 1..n
        <5>1. i \in 1..(n + 1)
          BY <1>3, <4>1
        <5> QED
          BY <2>9, <3>7, <5>1
      <4>2. ASSUME NEW j \in 1..m, i = n + j PROVE i = n + m
        <5>1. more[j].kind = "snapshot"
          BY <2>8, <3>7, <4>2
        <5>2. j = 1 \/ j = m - 1 \/ j = m \/ (j = 2 /\ m = 4)
          BY <2>2, ThreeFour
        <5> QED
          BY <2>2, <4>2, <5>1, <5>2
      <4> QED
        BY <2>10, <4>1, <4>2
    <3>8. Len(all) = n + m /\ Len(all) + 1 = n + m + 1
      BY <2>8
    <3>9. CurrentTold(all, Len(all) + 1, aggregator.current)
      BY <3>4, <3>8
    <3>10. ASSUME NEW i \in 1..Len(all), Latest(all, i), all[i].kind = "snapshot"
           PROVE  /\ DocumentTold(all, i, aggregator.update, resume_token)
                  /\ CurrentTold(all, i, aggregator.current)
                  /\ ShownBy(all[i].version, get, view.doc, disk.cache)
      <4>1. i = n + m
        BY <3>7, <3>8, <3>10
      <4> QED
        BY <3>3, <3>4, <3>5, <3>6, <4>1
    <3> QED
      BY <3>9, <3>10
  <2>13. Typed'
    BY <1>1, <1>2, <2>5 DEF Typed
  <2>14. Len(watch_stream_.requests) = Len(next.requests) + 1
    BY <1>4, <2>5
  <2>15. next.sent <= Version
    BY <1>3, <2>5
  <2>16. \A i \in 1..Len(r \o more) : (r \o more)[i].kind = "removed" => ~Latest(r \o more, i + 1)
    BY <2>8, <2>11 DEF all
  <2> QED
    BY <1>2, <1>5, <1>6, <1>7, <2>2, <2>5, <2>7, <2>12, <2>13, <2>14, <2>15, <2>16, RespondKeeps
<1> QED
  BY <1>8, <1>9

LEMMA ServerSendsKeeps ==
    ASSUME ListenAssumption, ListenInv, ServerSends
    PROVE  ListenInv'
<1> DEFINE r == watch_stream_.responses
           n == Len(r)
           next == watch_stream_'
           sent == watch_stream_.sent
           more == News(sent) \o Consistent
           all == r \o more
<1>1. /\ Typed /\ DiskInv /\ StreamInv /\ ToldInv /\ ViewInv
  BY DEF ListenInv, TargetInv
<1>2. /\ sent \in 1..(Version - 1)
      /\ UNCHANGED <<hist, lastAck, queue, written, acks, disk, resume_token>>
      /\ UNCHANGED <<aggregator, online, view, listener, get, trouble>>
      /\ next = [watch_stream_ EXCEPT !.responses = @ \o News(sent) \o Consistent, !.sent = Version]
  BY DEF ServerSends, serverVars, writeVars, appVars
<1>3. /\ watch_stream_ \in Stream /\ watch_stream_.requests \in Seq(TargetRequest)
      /\ r \in Seq(TargetResponse) /\ n \in Nat /\ Version \in Nat /\ resume_token \in Nat
      /\ Len(watch_stream_.requests) \in Nat
  BY <1>1, StreamFields, Fields DEF Typed
<1>4. /\ more \in Seq(TargetResponse) /\ Len(more) = 2
      /\ more[1].kind = "document"
      /\ more[1].update.version = Version /\ more[1].update.value = hist[Version]
      /\ more[2].kind = "snapshot" /\ more[2].version = Version
  BY <1>1, <1>2, SaidSince
<1>5. r \o News(sent) \o Consistent = all
  <2>1. News(sent) \in Seq(TargetResponse) /\ Consistent \in Seq(TargetResponse)
    BY <1>1, <1>2, SaidSince
  <2>2. \A a, b, c \in Seq(TargetResponse) : (a \o b) \o c = a \o (b \o c)
    BY ConcatAssociative
  <2> HIDE DEF r
  <2>3. (r \o News(sent)) \o Consistent = r \o (News(sent) \o Consistent)
    BY <1>3, <2>1, <2>2
  <2> QED
    BY <2>3, Zenon DEF r
<1> HIDE DEF more
<1>6. /\ all \in Seq(TargetResponse) /\ Len(all) = n + Len(more)
      /\ \A i \in 1..n : all[i] = r[i]
      /\ \A i \in 1..Len(more) : all[n + i] = more[i]
  BY <1>3, <1>4, MoreFacts
<1>7. IsOpen(watch_stream_)
  <2>1. \A state : NewStream(state).sent = 0
    BY DEF NewStream, NotWatched
  <2> QED
    BY <1>1, <1>2, <2>1 DEF StreamInv
<1>8. /\ next \in Stream /\ next.state = watch_stream_.state /\ next.idle = watch_stream_.idle
      /\ next.requests = watch_stream_.requests /\ next.responses = all
      /\ next.sent = Version
  BY <1>2, <1>3, <1>5, <1>6 DEF Stream
<1> DEFINE m == Len(more)
<1>9. m = 2
  BY <1>4
<1> HIDE DEF m
<1>10. \A i \in 1..m : i = 1 \/ i = 2
  BY <1>9
<1>11. more[1].kind = "document" /\ more[2].kind = "snapshot" /\ more[2].version = Version
  BY <1>4
<1>12. TrueNow(more) /\ Latest(more, 1) /\ Latest(more, 2) /\ ~Answer(more[1])
  <2>1. \A i \in 1..m : ~Answer(more[i])
    BY <1>10, <1>11 DEF Answer
  <2>2. 2..m \subseteq 1..m /\ 1 \in 1..m
    BY <1>9
  <2>3. Latest(more, 1) /\ Latest(more, 2)
    BY <2>1, <2>2 DEF Latest, m
  <2>4. Brings(more, 2, Version)
    <3>1. 2 \in 2..m /\ 2..(2 - 1) = {}
      BY <1>9
    <3> QED
      BY <1>11, <3>1 DEF Brings, m
  <2>5. 1 + 1 = 2 /\ 2 \in 1..m
    BY <1>9
  <2>6. TrueNow(more)
    <3> SUFFICES ASSUME NEW i \in 1..m
        PROVE  /\ more[i].kind = "document" =>
                     /\ more[i].update.version = Version /\ more[i].update.value = hist[Version]
                     /\ i + 1 \in 1..m /\ Brings(more, i + 1, Version)
               /\ more[i].kind = "snapshot" => more[i].version = Version
      BY DEF TrueNow, m
    <3>1. CASE i = 1
      BY <1>4, <2>4, <2>5, <3>1, Zenon
    <3>2. CASE i = 2
      BY <1>11, <3>2
    <3> QED
      BY <1>10, <3>1, <3>2
  <2> QED
    BY <2>1, <2>2, <2>3, <2>6
<1>13. more # <<>>
  <2>1. \A q \in Seq(TargetResponse) : q = <<>> => Len(q) = 0
    OBVIOUS
  <2>2. m # 0
    BY <1>9
  <2> QED
    BY <1>4, <2>1, <2>2 DEF m
<1>14. /\ \A i \in 1..(n + 1) : Latest(all, i) <=> Latest(r, i)
       /\ \A i \in 1..n : \A update, token :
             DocumentTold(r, i, update, token) => DocumentTold(all, i, update, token)
       /\ \A i \in 1..(n + 1) : \A current : \A j \in i..(n + m + 1) :
             CurrentTold(r, i, current) => CurrentTold(all, j, current)
  BY <1>3, <1>4, <1>12, MorePlaces, MoreTold DEF m
<1> HIDE DEF all, r, n
<1>15. /\ Len(all) = n + m /\ n + 1 \in 1..(n + 1) /\ n \in Nat
       /\ n + 2 \in (n + 1)..(n + m + 1) /\ n + m + 1 \in (n + 1)..(n + m + 1)
       /\ (n + m) + 1 = n + m + 1
       /\ n + 1 \in 1..((n + 2) - 1) /\ ((n + 1) + 1)..((n + 2) - 1) = {}
       /\ \A i \in 1..(n + m) : i \in 1..n \/ i = n + 1 \/ i = n + 2
       /\ \A i \in 1..n : i + 1 \in 1..(n + 1) /\ i \in 1..(n + 1) /\ i \in i..(n + m + 1)
       /\ n = Len(r)
  <2>1. n \in Nat /\ n = Len(r)
    BY <1>3 DEF n
  <2>2. Len(all) = n + m
    BY <1>6 DEF m
  <2> QED
    BY <1>9, <2>1, <2>2
<1>16. /\ all[n + 1].kind = "document" /\ all[n + 2].kind = "snapshot" /\ all[n + 2].version = Version
       /\ \A i \in 1..n : all[i] = r[i]
  <2>1. 1 \in 1..m /\ 2 \in 1..m
    BY <1>9
  <2> QED
    BY <1>6, <1>11, <2>1 DEF m
<1>17. ToldInv'
  <2> SUFFICES ASSUME view.on, next.requests = <<>>
      PROVE  /\ CurrentTold(all, Len(all) + 1, aggregator.current)
             /\ \A i \in 1..Len(all) : Latest(all, i) /\ all[i].kind = "snapshot" =>
                   /\ DocumentTold(all, i, aggregator.update, resume_token)
                   /\ CurrentTold(all, i, aggregator.current)
                   /\ ShownBy(all[i].version, get, view.doc, disk.cache)
    BY <1>2, <1>8, ToldThen
  <2>1. /\ CurrentTold(r, n + 1, aggregator.current)
        /\ \A i \in 1..n : Latest(r, i) /\ r[i].kind = "snapshot" =>
              /\ DocumentTold(r, i, aggregator.update, resume_token)
              /\ CurrentTold(r, i, aggregator.current)
              /\ ShownBy(r[i].version, get, view.doc, disk.cache)
    <3>1. watch_stream_.requests = <<>> /\ watch_stream_.sent # 0
      BY <1>2, <1>8
    <3> QED
      BY <1>1, <3>1 DEF ToldInv, r, n
  <2>2. CurrentTold(all, n + m + 1, aggregator.current) /\ CurrentTold(all, n + 2, aggregator.current)
    BY <1>14, <1>15, <2>1
  <2>3. CurrentTold(all, Len(all) + 1, aggregator.current)
    BY <1>15, <2>2
  <2>4. DocumentTold(all, n + 2, aggregator.update, resume_token)
    BY <1>15, <1>16 DEF DocumentTold
  <2>5. ShownBy(Version, get, view.doc, disk.cache)
    BY <1>1 DEF ShownBy, ViewInv, GetInv, DiskInv, CacheSound
  <2>6. ASSUME NEW i \in 1..Len(all), Latest(all, i), all[i].kind = "snapshot"
        PROVE  /\ DocumentTold(all, i, aggregator.update, resume_token)
               /\ CurrentTold(all, i, aggregator.current)
               /\ ShownBy(all[i].version, get, view.doc, disk.cache)
    <3>1. CASE i \in 1..n
      <4>1. Latest(r, i) /\ r[i] = all[i]
        BY <1>14, <1>15, <1>16, <2>6, <3>1
      <4>2. CurrentTold(r, i, aggregator.current) => CurrentTold(all, i, aggregator.current)
        BY <1>14, <1>15, <3>1
      <4> QED
        BY <1>14, <2>1, <2>6, <3>1, <4>1, <4>2
    <3>2. CASE i = n + 1
      BY <1>16, <2>6, <3>2
    <3>3. CASE i = n + 2
      BY <1>16, <2>2, <2>4, <2>5, <3>3
    <3> QED
      BY <1>15, <3>1, <3>2, <3>3
  <2> QED
    BY <2>3, <2>6
<1>18. Typed'
  BY <1>1, <1>2, <1>8 DEF Typed
<1>19. view.on /\ next.requests = <<>> =>
           \A i \in 1..Len(all) : all[i].kind = "removed" => ~Latest(all, i + 1)
  <2> SUFFICES ASSUME view.on, next.requests = <<>>,
                      NEW i \in 1..Len(all), all[i].kind = "removed"
      PROVE  ~Latest(all, i + 1)
    OBVIOUS
  <2>1. \A j \in 1..n : r[j].kind = "removed" => ~Latest(r, j + 1)
    <3>1. watch_stream_.requests = <<>>
      BY <1>8
    <3> QED
      BY <1>1, <3>1 DEF StreamInv, r, n
  <2>2. i \in 1..n
    BY <1>15, <1>16
  <2> QED
    BY <1>14, <1>15, <1>16, <2>1, <2>2
<1>20. view.on /\ next.requests # <<>> => Last(next.requests) = Watch(resume_token)
  BY <1>1, <1>8 DEF StreamInv
<1>21. next.sent <= Version /\ Len(watch_stream_.requests) = Len(next.requests) + 0
  BY <1>3, <1>8
<1>22. all = watch_stream_.responses \o more
  BY DEF all, r
<1>23. Len(watch_stream_.requests) = Len(next.requests) + IF Answer(more[1]) THEN 1 ELSE 0
  BY <1>12, <1>21
<1> QED
  BY <1>2, <1>4, <1>7, <1>8, <1>12, <1>13, <1>17, <1>18, <1>19, <1>20, <1>21, <1>22, <1>23, RespondKeeps

----------------------------------------------------------------------------
(* OnWatchStreamChange.                                                    *)

\* An answer is under way iff the aggregator waits for it.
LEMMA ActiveFacts ==
    ASSUME Typed, StreamInv
    PROVE  LET r == watch_stream_.responses
           IN  /\ aggregator.outstanding = 0 <=> watch_stream_.requests = <<>> /\ Latest(r, 1)
               /\ r # <<>> => IsOpen(watch_stream_)
<1> DEFINE r == watch_stream_.responses
           a == Cardinality(Answers(r))
           b == Len(watch_stream_.requests)
<1>1. r \in Seq(TargetResponse) /\ watch_stream_.requests \in Seq(TargetRequest) /\ b \in Nat
  BY StreamFields DEF Typed
<1>2. a \in Nat /\ (a = 0 <=> Latest(r, 1))
  BY <1>1, AnswersFinite
<1>3. b = 0 <=> watch_stream_.requests = <<>>
  BY <1>1
<1>4. aggregator.outstanding = b + a
  BY DEF StreamInv
<1>5. \A state : NewStream(state).responses = <<>>
  BY DEF NewStream
<1>6. r # <<>> => IsOpen(watch_stream_)
  BY <1>5 DEF StreamInv
<1> HIDE DEF a, b
<1>7. aggregator.outstanding = 0 <=> watch_stream_.requests = <<>> /\ Latest(r, 1)
  BY <1>1, <1>2, <1>3, <1>4
<1> QED
  BY <1>6, <1>7

\* The first response has been taken.
Taken ==
    /\ watch_stream_.responses # <<>>
    /\ watch_stream_' = [watch_stream_ EXCEPT !.responses = Tail(@)]
    /\ UNCHANGED <<serverVars, writeVars, trouble>>

LEMMA TakenFacts ==
    ASSUME Typed, StreamInv, Taken
    PROVE  LET r == watch_stream_.responses
               next == watch_stream_'
           IN  /\ r \in Seq(TargetResponse) /\ r # <<>> /\ r[1] \in TargetResponse /\ Head(r) = r[1]
               /\ next \in Stream /\ next.state = watch_stream_.state
               /\ next.idle = watch_stream_.idle /\ next.requests = watch_stream_.requests
               /\ next.responses = Tail(r) /\ next.sent = watch_stream_.sent
               /\ IsOpen(watch_stream_)
               /\ UNCHANGED <<hist, lastAck, queue, written, acks, trouble>>
<1>1. watch_stream_ \in Stream /\ watch_stream_.responses \in Seq(TargetResponse)
  BY StreamFields DEF Typed
<1>2. Tail(watch_stream_.responses) \in Seq(TargetResponse)
  BY <1>1, TailFacts DEF Taken
<1>3. watch_stream_' = [watch_stream_ EXCEPT !.responses = Tail(@)]
  BY DEF Taken
<1>4. \A s \in Stream, q \in Seq(TargetResponse) :
         LET next == [s EXCEPT !.responses = q]
         IN  /\ next \in Stream /\ next.state = s.state /\ next.idle = s.idle
             /\ next.requests = s.requests /\ next.responses = q /\ next.sent = s.sent
  BY DEF Stream
<1>5. /\ watch_stream_.responses # <<>>
      /\ UNCHANGED <<hist, lastAck, queue, written, acks, trouble>>
  BY DEF Taken, serverVars, writeVars
<1>6. IsOpen(watch_stream_)
  BY <1>5, ActiveFacts
<1>7. watch_stream_.responses[1] \in TargetResponse
      /\ Head(watch_stream_.responses) = watch_stream_.responses[1]
  BY <1>1, <1>5, TailFacts
<1> QED
  BY <1>1, <1>2, <1>3, <1>4, <1>5, <1>6, <1>7

LEMMA TakenStream ==
    ASSUME Typed, StreamInv, Taken, view'.on = view.on,
           aggregator'.outstanding =
               aggregator.outstanding - IF Answer(watch_stream_.responses[1]) THEN 1 ELSE 0,
           watch_stream_.requests # <<>> => resume_token' = resume_token
    PROVE  StreamInv'
<1> DEFINE r == watch_stream_.responses
           t == Tail(r)
           n == Len(r)
           next == watch_stream_'
<1>1. /\ r \in Seq(TargetResponse) /\ r # <<>> /\ r[1] \in TargetResponse
      /\ next \in Stream /\ next.state = watch_stream_.state
      /\ next.idle = watch_stream_.idle /\ next.requests = watch_stream_.requests
      /\ next.responses = t /\ next.sent = watch_stream_.sent
      /\ IsOpen(watch_stream_) /\ UNCHANGED hist
  BY TakenFacts
<1>2. /\ t \in Seq(TargetResponse) /\ n \in Nat \ {0} /\ Len(t) = n - 1
      /\ \A i \in 1..(n - 1) : t[i] = r[i + 1]
  BY <1>1, TailFacts
<1>3. \A i \in 1..n : Latest(t, i) <=> Latest(r, i + 1)
  BY <1>1, TailPlaces
<1>4. watch_stream_.requests \in Seq(TargetRequest)
      /\ Len(watch_stream_.requests) \in Nat /\ Version' = Version
  BY <1>1, StreamFields DEF Typed, Version
<1>5. Cardinality(Answers(t)) =
          IF Answer(r[1]) THEN Cardinality(Answers(r)) - 1 ELSE Cardinality(Answers(r))
  <2> DEFINE S == Answers(r)
             T == Answers(t)
  <2>1. S \in SUBSET (1..n) /\ n \in Nat /\ n > 0
    BY <1>1, <1>2, AnswersFinite
  <2>2. T = {i \in 1..(n - 1) : i + 1 \in S}
    <3>1. \A i \in 1..(n - 1) : i + 1 \in 1..n
      BY <1>2
    <3> QED
      BY <1>2, <3>1 DEF Answers
  <2>3. 1 \in S <=> Answer(r[1])
    <3>1. 1 \in 1..n
      BY <1>2
    <3> QED
      BY <3>1 DEF Answers
  <2> HIDE DEF S, T, n
  <2>4. Cardinality(T) = IF 1 \in S THEN Cardinality(S) - 1 ELSE Cardinality(S)
    BY <2>1, <2>2, CountTail
  <2> QED
    BY <2>3, <2>4 DEF S, T
<1>6. aggregator'.outstanding = Len(next.requests) + Cardinality(Answers(next.responses))
  <2> DEFINE a == Cardinality(Answers(r))
             b == Cardinality(Answers(t))
             l == Len(watch_stream_.requests)
             d == IF Answer(r[1]) THEN 1 ELSE 0
  <2>1. a \in Nat /\ l \in Nat /\ d \in Nat /\ b = a - d
    BY <1>1, <1>4, <1>5, AnswersFinite
  <2>2. aggregator.outstanding = l + a
    BY DEF StreamInv
  <2>3. aggregator'.outstanding = aggregator.outstanding - d
    OBVIOUS
  <2> HIDE DEF a, b, l, d
  <2>4. aggregator'.outstanding = l + b
    BY <2>1, <2>2, <2>3
  <2> QED
    BY <1>1, <2>4 DEF b, l
<1>7. view.on /\ next.requests = <<>> =>
          \A i \in 1..Len(t) : t[i].kind = "removed" => ~Latest(t, i + 1)
  <2> SUFFICES ASSUME view.on, watch_stream_.requests = <<>>,
                      NEW i \in 1..(n - 1), t[i].kind = "removed"
      PROVE  ~Latest(t, i + 1)
    BY <1>1, <1>2
  <2>1. r[i + 1].kind = "removed" /\ i + 1 \in 1..n
    BY <1>2
  <2>2. ~Latest(r, (i + 1) + 1)
    BY <2>1 DEF StreamInv
  <2> QED
    BY <1>3, <2>1, <2>2
<1>8. view.on /\ next.requests # <<>> => Last(next.requests) = Watch(resume_token')
  BY <1>1 DEF StreamInv
<1>9. /\ view.on => IsStarted(next) /\ ~next.idle
      /\ next.sent <= Version /\ IsOpen(next)
  BY <1>1 DEF StreamInv, IsOpen, IsStarted
<1> HIDE DEF t
<1> QED
  BY <1>1, <1>4, <1>6, <1>7, <1>8, <1>9 DEF StreamInv

\* The update of the aggregator waits for its snapshot.
LEMMA AwaitsSnapshot ==
    ASSUME NEW r \in Seq(TargetResponse), r # <<>>, NEW update, UpdateTrue(r, update),
           r[1].kind # "snapshot"
    PROVE  UpdateTrue(Tail(r), update) /\ (r[1].kind # "current" => update = NoUpdate)
<1> SUFFICES ASSUME update # NoUpdate
    PROVE  /\ r[1].kind = "current" /\ Brings(Tail(r), 1, update.version)
           /\ update.version \in 1..Version /\ update.value = hist[update.version]
  BY DEF UpdateTrue
<1> DEFINE n == Len(r)
<1>1. n \in Nat \ {0}
  BY TailFacts
<1>2. PICK j \in 1..n : /\ r[j].kind = "snapshot" /\ r[j].version = update.version
                        /\ \A k \in 1..(j - 1) : r[k].kind = "current"
  BY DEF UpdateTrue, Brings
<1> HIDE DEF n
<1>3. j # 1
  BY <1>2
<1>4. 1 \in 1..(j - 1) /\ j \in 2..n /\ \A k \in 2..(j - 1) : k \in 1..(j - 1)
  BY <1>1, <1>3
<1>5. Brings(r, 2, update.version)
  BY <1>2, <1>4 DEF Brings, n
<1>6. 1 \in 1..n /\ 1 + 1 = 2
  BY <1>1
<1>7. \A version : Brings(Tail(r), 1, version) <=> Brings(r, 1 + 1, version)
  BY <1>6, TailPlaces DEF n
<1> QED
  BY <1>2, <1>4, <1>5, <1>6, <1>7 DEF UpdateTrue

LEMMA LatestFirst ==
    ASSUME NEW r \in Seq(TargetResponse), r # <<>>
    PROVE  Latest(r, 1) => ~Answer(r[1])
<1>1. 1 \in 1..Len(r)
  BY TailFacts
<1> QED
  BY <1>1 DEF Latest

\* A response other than a snapshot has been handled.
LEMMA HandleKeeps ==
    ASSUME ListenAssumption, ListenInv, Taken, NEW a \in Aggregator, Handle(a),
           LET r == watch_stream_.responses
           IN  /\ r[1].kind # "snapshot" /\ UpdateTrue(Tail(r), a.update)
               /\ a.outstanding = aggregator.outstanding - IF Answer(r[1]) THEN 1 ELSE 0
               /\ view.on /\ a.outstanding = 0 =>
                     a.change = IF a.update = NoUpdate THEN "none"
                                ELSE ChangeOf(a.update, view.synced_documents)
               /\ view.current /\ a.outstanding # 0 => a.update = NoUpdate
               /\ view.on /\ watch_stream_.requests = <<>> =>
                     /\ Latest(r, 1) /\ (aggregator.current \/ r[1].kind = "current") => a.current
                     /\ IF Latest(r, 1) /\ r[1].kind = "document" THEN a.update # NoUpdate
                        ELSE a.update = aggregator.update
    PROVE  ListenInv'
<1> DEFINE r == watch_stream_.responses
           t == Tail(r)
           n == Len(r)
           next == watch_stream_'
<1>1. /\ Typed /\ DiskInv /\ MessagesInv /\ StreamInv /\ OnlineInv
      /\ SyncedInv /\ ChangeInv /\ ToldInv /\ ViewInv
  BY DEF ListenInv, TargetInv
<1>2. /\ r \in Seq(TargetResponse) /\ r # <<>> /\ r[1] \in TargetResponse
      /\ next \in Stream /\ next.state = watch_stream_.state
      /\ next.idle = watch_stream_.idle /\ next.requests = watch_stream_.requests
      /\ next.responses = t /\ next.sent = watch_stream_.sent
      /\ IsOpen(watch_stream_)
      /\ UNCHANGED <<hist, lastAck, queue, written, acks, trouble>>
  BY <1>1, TakenFacts
<1>3. /\ aggregator' = a /\ Show(view, UpdateState("Online"))
      /\ UNCHANGED <<disk, resume_token>>
  BY DEF Handle
<1>4. UpdateState("Online") \in Online /\ OnlineSound(UpdateState("Online"))
      /\ ~UpdateState("Online").timer
  BY UpdateStateFacts DEF OnlineState
<1>5. /\ resume_token \in Nat /\ view \in View /\ disk.cache.version \in Nat /\ Version \in Nat
  BY <1>1, Fields DEF Typed
<1>6. resume_token <= Version
  BY <1>1, <1>5 DEF SyncedInv, Resumes, DiskInv, CacheSound
<1>7. /\ view' \in View /\ view'.on = view.on /\ view'.doc = view.doc
      /\ view'.synced_documents = view.synced_documents /\ (view'.current => view.current)
      /\ online' = UpdateState("Online") /\ online' \in Online /\ listener' \in Listener
      /\ get' \in Get /\ get'.asked = get.asked
      /\ get'.state = "waiting" => get.state = "waiting"
      /\ ViewInv'
  <2>1. GetInv /\ ListeningInv
    BY <1>1 DEF ViewInv
  <2>2. DocumentSound(view, queue', disk'.cache)
        /\ CurrentSound(view, get, disk'.cache, resume_token')
    BY <1>1, <1>2, <1>3 DEF ViewInv
  <2> QED
    BY <1>1, <1>2, <1>3, <1>4, <1>5, <1>6, <2>1, <2>2, ShowKeeps
<1>8. Typed'
  BY <1>1, <1>2, <1>3, <1>7 DEF Typed
<1>9. DiskInv'
  BY <1>1, <1>2, <1>3, DiskKept DEF DiskInv
<1>10. MessagesInv'
  <2>1. MessagesTrue(t)
    BY <1>1, <1>2, TailMessages DEF MessagesInv
  <2>2. Version' = Version /\ UpdateTrue(t, a.update)
    BY <1>2 DEF Version
  <2>3. next.responses = t
    BY <1>2
  <2> HIDE DEF t, next
  <2> QED
    BY <1>2, <1>3, <2>1, <2>2, <2>3 DEF MessagesInv, MessagesTrue, UpdateTrue, next
<1>11. StreamInv'
  BY <1>1, <1>3, <1>7, TakenStream
<1>12. OnlineInv'
  BY <1>4, <1>7 DEF OnlineInv, OnlineSound
<1>13. SyncedInv'
  BY <1>1, <1>2, <1>3, <1>7 DEF SyncedInv, Resumes
<1>14. ChangeInv'
  BY <1>3, <1>7 DEF ChangeInv
<1>15. ToldInv'
  <2>1. /\ n \in Nat \ {0} /\ Len(t) = n - 1 /\ \A i \in 1..(n - 1) : t[i] = r[i + 1]
        /\ \A i \in 1..n : Latest(t, i) <=> Latest(r, i + 1)
    BY <1>2, TailFacts, TailPlaces
  <2> SUFFICES ASSUME view.on, watch_stream_.requests = <<>>
      PROVE  /\ next.sent # 0 => CurrentTold(t, Len(t) + 1, a.current)
             /\ \A i \in 1..Len(t) : Latest(t, i) /\ t[i].kind = "snapshot" =>
                   /\ DocumentTold(t, i, a.update, resume_token)
                   /\ CurrentTold(t, i, a.current)
                   /\ ShownBy(t[i].version, get', view.doc, disk.cache)
    <3> HIDE DEF t
    <3> QED
      BY <1>2, <1>3, <1>7, ToldThen
  <2>2. Latest(r, 1) /\ (aggregator.current \/ r[1].kind = "current") => a.current
    OBVIOUS
  <2>3. ASSUME next.sent # 0 PROVE CurrentTold(t, Len(t) + 1, a.current)
    <3>1. CurrentTold(r, n + 1, aggregator.current)
      BY <1>1, <1>2, <2>3 DEF ToldInv
    <3>2. n \in 1..Len(r) /\ Len(t) + 1 = n
      BY <2>1
    <3>3. CurrentTold(t, n, a.current)
      BY <1>2, <2>2, <3>1, <3>2, TailCurrent
    <3> QED
      BY <3>2, <3>3
  <2>4. ASSUME NEW i \in 1..(n - 1), Latest(t, i), t[i].kind = "snapshot"
        PROVE  /\ DocumentTold(t, i, a.update, resume_token)
               /\ CurrentTold(t, i, a.current)
               /\ ShownBy(t[i].version, get', view.doc, disk.cache)
    <3>1. i + 1 \in 1..n /\ i \in 1..n /\ Latest(r, i + 1) /\ t[i] = r[i + 1]
      BY <2>1, <2>4
    <3>2. /\ DocumentTold(r, i + 1, aggregator.update, resume_token)
          /\ CurrentTold(r, i + 1, aggregator.current)
          /\ ShownBy(r[i + 1].version, get, view.doc, disk.cache)
      BY <1>1, <2>4, <3>1 DEF ToldInv
    <3>3. CurrentTold(t, i, a.current)
      BY <1>2, <2>2, <3>1, <3>2, TailCurrent
    <3>4. ShownBy(t[i].version, get', view.doc, disk.cache)
      BY <1>7, <3>1, <3>2 DEF ShownBy
    <3>5. DocumentTold(t, i, a.update, resume_token)
      <4>1. CASE Latest(r, 1) /\ r[1].kind = "document"
        <5>1. a.update # NoUpdate
          BY <4>1
        <5> QED
          BY <1>2, <3>1, <3>2, <4>1, <5>1, TailNoted
      <4>2. CASE ~(Latest(r, 1) /\ r[1].kind = "document")
        <5>1. a.update = aggregator.update
          BY <4>2
        <5>2. DocumentTold(t, i, aggregator.update, resume_token)
          BY <1>2, <3>1, <3>2, <4>2, TailTold
        <5> QED
          BY <5>1, <5>2
      <4> QED
        BY <4>1, <4>2
    <3> QED
      BY <3>3, <3>4, <3>5
  <2> QED
    BY <2>1, <2>3, <2>4
<1> QED
  BY <1>8, <1>9, <1>10, <1>11, <1>12, <1>13, <1>14, <1>15, <1>7 DEF ListenInv, TargetInv

\* The aggregator once one response less is awaited.
Answered(g) == [g EXCEPT !.outstanding = @ - 1,
                         !.change = IF g.outstanding = 1 THEN "none" ELSE @]

LEMMA AnsweredFacts ==
    ASSUME NEW g \in Aggregator, g.outstanding \in Nat \ {0}
    PROVE  /\ Answered(g) \in Aggregator /\ Answered(g).outstanding = g.outstanding - 1
           /\ Answered(g).update = g.update
           /\ g.outstanding = 1 => Answered(g).change = "none"
<1> DEFINE o == g.outstanding - 1
           c == IF g.outstanding = 1 THEN "none" ELSE g.change
<1>1. o \in Nat /\ c \in {"none", "Added", "Modified", "Removed"}
  BY DEF Aggregator
<1>2. o = g.outstanding - 1 /\ (g.outstanding = 1 => c = "none")
  OBVIOUS
<1>3. Answered(g) = [g EXCEPT !.outstanding = o, !.change = c]
  BY DEF Answered
<1> HIDE DEF o, c
<1>4. /\ Answered(g) \in Aggregator /\ Answered(g).outstanding = o
      /\ Answered(g).update = g.update /\ Answered(g).change = c
  BY <1>1, <1>3 DEF Aggregator
<1> QED
  BY <1>2, <1>4

LEMMA TargetAddedKeeps ==
    ASSUME ListenAssumption, ListenInv, TargetAdded
    PROVE  ListenInv'
<1> DEFINE r == watch_stream_.responses
           a == Answered(aggregator)
<1>1. Typed /\ MessagesInv /\ StreamInv /\ ChangeInv /\ Taken /\ Handle(a) /\ Head(r).kind = "added"
  BY DEF ListenInv, TargetInv, TargetAdded, Receives, Taken, Answered
<1>2. r \in Seq(TargetResponse) /\ r # <<>> /\ r[1].kind = "added" /\ aggregator \in Aggregator
  BY <1>1, TakenFacts DEF Typed
<1>3. Answer(r[1]) /\ ~Latest(r, 1)
  <2>1. Answer(r[1])
    BY <1>2 DEF Answer
  <2> QED
    BY <1>2, <2>1, LatestFirst
<1>4. aggregator.outstanding \in Nat \ {0}
  BY <1>1, <1>2, <1>3, ActiveFacts, AggregatorFields
<1>5. /\ a \in Aggregator /\ a.outstanding = aggregator.outstanding - 1
      /\ a.update = aggregator.update
      /\ aggregator.outstanding = 1 => a.change = "none"
  BY <1>2, <1>4, AnsweredFacts
<1>6. UpdateTrue(Tail(r), a.update) /\ a.update = NoUpdate
  BY <1>1, <1>2, <1>5, AwaitsSnapshot DEF MessagesInv
<1> HIDE DEF a
<1>7. a.outstanding = 0 => a.change = "none"
  BY <1>4, <1>5
<1> QED
  BY <1>1, <1>2, <1>3, <1>5, <1>6, <1>7, HandleKeeps

LEMMA TargetRemovedKeeps ==
    ASSUME ListenAssumption, ListenInv, TargetRemoved
    PROVE  ListenInv'
<1> DEFINE r == watch_stream_.responses
           a == IF aggregator.outstanding = 1 THEN [NewAggregator EXCEPT !.update = aggregator.update]
                ELSE [aggregator EXCEPT !.outstanding = @ - 1]
<1>1. Typed /\ MessagesInv /\ StreamInv /\ ChangeInv /\ Taken /\ Handle(a) /\ Head(r).kind = "removed"
  BY DEF ListenInv, TargetInv, TargetRemoved, Receives, Taken
<1>2. r \in Seq(TargetResponse) /\ r # <<>> /\ r[1].kind = "removed" /\ aggregator \in Aggregator
  BY <1>1, TakenFacts DEF Typed
<1>3. Answer(r[1]) /\ ~Latest(r, 1)
  <2>1. Answer(r[1])
    BY <1>2 DEF Answer
  <2> QED
    BY <1>2, <2>1, LatestFirst
<1>4. aggregator.outstanding \in Nat \ {0} /\ aggregator.update \in Update
  BY <1>1, <1>2, <1>3, ActiveFacts, AggregatorFields
<1>5. /\ a \in Aggregator /\ a.outstanding = aggregator.outstanding - 1
      /\ a.update = aggregator.update
      /\ aggregator.outstanding = 1 => a.change = "none"
  <2>1. NewAggregator \in Aggregator /\ NewAggregator.outstanding = 0 /\ NewAggregator.change = "none"
    BY NewFields
  <2> HIDE DEF NewAggregator
  <2>2. CASE aggregator.outstanding = 1
    BY <1>2, <1>4, <2>1, <2>2 DEF Aggregator
  <2>3. CASE aggregator.outstanding # 1
    BY <1>2, <1>4, <2>3 DEF Aggregator
  <2> QED
    BY <2>2, <2>3
<1>6. UpdateTrue(Tail(r), a.update) /\ a.update = NoUpdate
  BY <1>1, <1>2, <1>5, AwaitsSnapshot DEF MessagesInv
<1> HIDE DEF a
<1>7. a.outstanding = 0 => a.change = "none"
  BY <1>4, <1>5
<1> QED
  BY <1>1, <1>2, <1>3, <1>5, <1>6, <1>7, HandleKeeps

LEMMA TargetCurrentKeeps ==
    ASSUME ListenAssumption, ListenInv, TargetCurrent
    PROVE  ListenInv'
<1> DEFINE r == watch_stream_.responses
           a == [aggregator EXCEPT !.current = @ \/ Active]
<1>1. Typed /\ MessagesInv /\ StreamInv /\ ChangeInv /\ Taken /\ Handle(a) /\ Head(r).kind = "current"
  BY DEF ListenInv, TargetInv, TargetCurrent, Receives, Taken
<1>2. r \in Seq(TargetResponse) /\ r # <<>> /\ r[1].kind = "current" /\ aggregator \in Aggregator
  BY <1>1, TakenFacts DEF Typed
<1>3. ~Answer(r[1])
  BY <1>2 DEF Answer
<1>4. Active \in BOOLEAN /\ (view.on /\ Latest(r, 1) /\ watch_stream_.requests = <<>> => Active)
  <2>1. view.on \in BOOLEAN
    BY <1>1, ViewFields DEF Typed
  <2> QED
    BY <1>1, <2>1, ActiveFacts DEF Active
<1>5. /\ a \in Aggregator /\ a.outstanding = aggregator.outstanding
      /\ a.update = aggregator.update /\ a.change = aggregator.change
      /\ a.outstanding \in Nat
      /\ aggregator.current \/ Active => a.current
  <2>1. (aggregator.current \/ Active) \in BOOLEAN
    BY <1>2, <1>4, AggregatorFields
  <2>2. \A x \in Aggregator, y \in BOOLEAN :
           LET z == [x EXCEPT !.current = y]
           IN  /\ z \in Aggregator /\ z.outstanding = x.outstanding
               /\ z.update = x.update /\ z.change = x.change /\ z.current = y
               /\ z.outstanding \in Nat
    BY DEF Aggregator
  <2> QED
    BY <1>2, <2>1, <2>2
<1>6. UpdateTrue(Tail(r), a.update)
  BY <1>1, <1>2, <1>5, AwaitsSnapshot DEF MessagesInv
<1>7. /\ view.on /\ a.outstanding = 0 =>
            a.change = IF a.update = NoUpdate THEN "none"
                       ELSE ChangeOf(a.update, view.synced_documents)
      /\ view.current /\ a.outstanding # 0 => a.update = NoUpdate
  BY <1>1, <1>5 DEF ChangeInv
<1> HIDE DEF a
<1>8. a.outstanding = aggregator.outstanding - IF Answer(r[1]) THEN 1 ELSE 0
  BY <1>3, <1>5
<1> QED
  BY <1>1, <1>2, <1>3, <1>4, <1>5, <1>6, <1>7, <1>8, HandleKeeps

LEMMA DocumentChangeKeeps ==
    ASSUME ListenAssumption, ListenInv, DocumentChange
    PROVE  ListenInv'
<1> DEFINE r == watch_stream_.responses
           update == Head(r).update
           change == ChangeOf(update, view.synced_documents)
           a == IF Active THEN [aggregator EXCEPT !.change = change, !.update = update]
                ELSE aggregator
<1>1. Typed /\ MessagesInv /\ StreamInv /\ ChangeInv /\ Taken /\ Handle(a) /\ Head(r).kind = "document"
  BY DEF ListenInv, TargetInv, DocumentChange, Receives, Taken, ChangeOf
<1>2. /\ r \in Seq(TargetResponse) /\ r # <<>> /\ r[1].kind = "document" /\ aggregator \in Aggregator
      /\ r[1] \in TargetResponse /\ update = r[1].update
  BY <1>1, TakenFacts DEF Typed
<1>3. ~Answer(r[1]) /\ update \in Update /\ update.version \in Nat
  BY <1>2, ResponseFields DEF Answer
<1>4. view.on => (Active <=> watch_stream_.requests = <<>> /\ Latest(r, 1))
  BY <1>1, ActiveFacts DEF Active
<1>5. change \in {"none", "Added", "Modified", "Removed"}
  BY DEF ChangeOf
<1>6. /\ update.version \in 1..Version /\ update.value = hist[update.version]
      /\ Brings(Tail(r), 1, update.version)
  <2>1. Len(r) \in Nat \ {0} /\ 1 \in 1..Len(r) /\ 1 + 1 = 2
    BY <1>2, TailFacts
  <2>2. /\ update.version \in 1..Version /\ update.value = hist[update.version]
        /\ Brings(r, 2, update.version)
    BY <1>1, <1>2, <2>1 DEF MessagesInv, MessagesTrue
  <2>3. \A version : Brings(Tail(r), 1, version) <=> Brings(r, 1 + 1, version)
    BY <1>2, <2>1, TailPlaces
  <2> QED
    BY <2>1, <2>2, <2>3
<1>7. update # NoUpdate
  <2>1. update.version # 0
    BY <1>6
  <2> QED
    BY <2>1, NewFields
<1> HIDE DEF update, change
<1>8. CASE Active
  <2>1. /\ a \in Aggregator /\ a.outstanding = aggregator.outstanding
        /\ a.update = update /\ a.change = change /\ a.current = aggregator.current
        /\ a.outstanding \in Nat
    BY <1>2, <1>3, <1>5, <1>8 DEF Aggregator
  <2>2. UpdateTrue(Tail(r), a.update)
    BY <1>6, <2>1 DEF UpdateTrue
  <2> HIDE DEF a
  <2>3. a.outstanding = aggregator.outstanding - IF Answer(r[1]) THEN 1 ELSE 0
    BY <1>3, <2>1
  <2>4. view.on /\ Latest(r, 1) /\ watch_stream_.requests = <<>>
    BY <1>4, <1>8 DEF Active
  <2>5. a.change = ChangeOf(a.update, view.synced_documents) /\ a.outstanding = 0
    BY <1>8, <2>1 DEF change, Active
  <2> QED
    BY <1>1, <1>2, <1>3, <1>7, <2>1, <2>2, <2>3, <2>4, <2>5, HandleKeeps
<1>9. CASE ~Active
  <2>1. a = aggregator /\ aggregator.outstanding \in Nat
    BY <1>2, <1>9, AggregatorFields
  <2>2. UpdateTrue(Tail(r), a.update)
    BY <1>1, <1>2, <2>1, AwaitsSnapshot DEF MessagesInv
  <2> HIDE DEF a
  <2>3. a.outstanding = aggregator.outstanding - IF Answer(r[1]) THEN 1 ELSE 0
    BY <1>3, <2>1
  <2>4. /\ view.on => ~(Latest(r, 1) /\ watch_stream_.requests = <<>>) /\ a.outstanding # 0
        /\ view.current /\ a.outstanding # 0 => a.update = NoUpdate
    BY <1>1, <1>4, <1>9, <2>1 DEF Active, ChangeInv
  <2> QED
    BY <1>1, <1>2, <1>3, <2>1, <2>2, <2>3, <2>4, HandleKeeps
<1> QED
  BY <1>8, <1>9

\* What a snapshot of the version brings with it: a document that is the
\* server's, and to a target that is active, a cache that covers the version.
LEMMA SnapshotBrings ==
    ASSUME Typed, MessagesInv, StreamInv, TargetInv, DiskInv,
           NEW version, watch_stream_.responses # <<>>,
           watch_stream_.responses[1].kind = "snapshot",
           version = watch_stream_.responses[1].version
    PROVE  /\ version \in disk.snapshot..Version /\ version # 0
           /\ LET update == DocumentUpdate(version)
              IN  update # NoUpdate => update.version = version /\ update.value = hist[version]
           /\ Active =>
                 /\ aggregator.current /\ ShownBy(version, get, view.doc, disk.cache)
                 /\ aggregator.update = NoUpdate => Silent(version, resume_token)
                 /\ DocumentUpdate(version) = NoUpdate =>
                       /\ version = resume_token
                       /\ aggregator.update = NoUpdate /\ view.synced_documents
<1> DEFINE r == watch_stream_.responses
           g == aggregator
           token == resume_token
<1>1. /\ r \in Seq(TargetResponse) /\ g \in Aggregator /\ g.update \in Update /\ token \in Nat
      /\ view \in View /\ view.synced_documents \in BOOLEAN
  BY StreamFields, AggregatorFields, ViewFields DEF Typed
<1>2. Len(r) \in Nat \ {0} /\ 1 \in 1..Len(r) /\ 1..(1 - 1) = {}
  BY <1>1, TailFacts
<1>3. version \in disk.snapshot..Version /\ version # 0
  BY <1>2 DEF MessagesInv, MessagesTrue
<1>4. g.update # NoUpdate => g.update.version = version /\ g.update.value = hist[version]
  <2> SUFFICES ASSUME g.update # NoUpdate
      PROVE  g.update.version = version /\ g.update.value = hist[version]
    OBVIOUS
  <2>1. g.update.value = hist[g.update.version] /\ Brings(r, 1, g.update.version)
    BY DEF MessagesInv, UpdateTrue
  <2> DEFINE n == Len(r)
  <2>2. PICK j \in 1..n : /\ r[j].kind = "snapshot" /\ r[j].version = g.update.version
                          /\ \A k \in 1..(j - 1) : r[k].kind = "current"
    BY <2>1 DEF Brings
  <2> HIDE DEF n
  <2>3. j # 1 => 1 \in 1..(j - 1)
    OBVIOUS
  <2>4. j = 1
    BY <2>2, <2>3
  <2> QED
    BY <2>1, <2>2, <2>4
<1>5. Active => /\ Latest(r, 1) /\ watch_stream_.requests = <<>> /\ view.on
                /\ g.current /\ ShownBy(version, get, view.doc, disk.cache)
                /\ g.update # NoUpdate \/ Silent(version, token)
  <2> SUFFICES ASSUME Active
      PROVE  /\ Latest(r, 1) /\ watch_stream_.requests = <<>> /\ view.on
             /\ g.current /\ ShownBy(version, get, view.doc, disk.cache)
             /\ g.update # NoUpdate \/ Silent(version, token)
    OBVIOUS
  <2>1. Latest(r, 1) /\ watch_stream_.requests = <<>> /\ view.on
    BY ActiveFacts DEF Active
  <2>2. /\ DocumentTold(r, 1, g.update, token) /\ CurrentTold(r, 1, g.current)
        /\ ShownBy(version, get, view.doc, disk.cache)
    BY <1>2, <2>1 DEF TargetInv, ToldInv
  <2>3. g.current
    BY <1>2, <2>2 DEF CurrentTold
  <2>4. g.update # NoUpdate \/ Silent(version, token)
    BY <1>2, <2>2 DEF DocumentTold
  <2> QED
    BY <2>1, <2>2, <2>3, <2>4
<1>6. Active /\ ~view.synced_documents /\ g.update = NoUpdate => hist[version] = Missing
  <2> SUFFICES ASSUME Active, ~view.synced_documents, g.update = NoUpdate
      PROVE  hist[version] = Missing
    OBVIOUS
  <2>1. Silent(version, token) /\ view.on
    BY <1>5
  <2>2. Resumes(token, view.synced_documents)
    BY <2>1 DEF TargetInv, SyncedInv
  <2>3. token = 0 \/ hist[token] = Missing
    BY <2>2 DEF Resumes
  <2> QED
    BY <1>3, <2>1, <2>3 DEF Silent
<1>7. ASSUME Active, g.update = NoUpdate, view.synced_documents PROVE version = token
  <2>1. Silent(version, token) /\ view.on
    BY <1>5, <1>7
  <2>2. Resumes(token, view.synced_documents)
    BY <2>1 DEF TargetInv, SyncedInv
  <2> QED
    BY <1>7, <2>1, <2>2 DEF Silent, Resumes
<1> DEFINE update == DocumentUpdate(version)
<1>8. CASE Active /\ g.update = NoUpdate /\ ~view.synced_documents
  <2>1. update = [value |-> Missing, version |-> version]
    BY <1>5, <1>8 DEF DocumentUpdate
  <2> HIDE DEF update
  <2>2. update.value = hist[version] /\ update.version = version
    BY <1>6, <1>8, <2>1
  <2>3. update # NoUpdate
    BY <1>3, <2>2 DEF NoUpdate
  <2> QED
    BY <1>3, <1>5, <2>2, <2>3 DEF update
<1>9. CASE ~(Active /\ g.update = NoUpdate /\ ~view.synced_documents)
  <2>1. update = g.update
    BY <1>9 DEF DocumentUpdate
  <2> HIDE DEF update
  <2>2. Active /\ update = NoUpdate =>
            version = token /\ g.update = NoUpdate /\ view.synced_documents
    BY <1>1, <1>7, <1>9, <2>1
  <2> QED
    BY <1>3, <1>4, <1>5, <2>1, <2>2 DEF update
<1> QED
  BY <1>8, <1>9

\* The cache after a snapshot of the version.
LEMMA CacheBrought ==
    ASSUME ListenAssumption, Typed, CacheSound, NEW version \in 1..Version,
           NEW update \in Update,
           update # NoUpdate => update.version = version /\ update.value = hist[version]
    PROVE  LET cached == IF update = NoUpdate THEN disk.cache ELSE CacheUpdated(disk.cache, update)
           IN  /\ cached \in CacheEntry
               /\ disk.cache.version <= cached.version /\ cached.version <= Version
               /\ cached.value = IF cached.version = 0 THEN Missing ELSE hist[cached.version]
               /\ cached.committed => cached = disk.cache
               /\ cached # disk.cache => cached.version = version /\ ~cached.committed
               /\ update # NoUpdate => version <= cached.version
<1> DEFINE cached == IF update = NoUpdate THEN disk.cache ELSE CacheUpdated(disk.cache, update)
<1>1. /\ disk.cache \in CacheEntry /\ disk.cache.version \in Nat /\ Version \in Nat
      /\ disk.cache.version <= Version
      /\ disk.cache.value = IF disk.cache.version = 0 THEN Missing ELSE hist[disk.cache.version]
      /\ version \in Nat /\ version # 0 /\ version <= Version
      /\ update.value \in MaybeDocument /\ update.version \in Nat
  BY Fields DEF CacheSound, Update
<1>2. CASE cached = disk.cache
  <2>1. update # NoUpdate => version <= disk.cache.version
    <3> SUFFICES ASSUME update # NoUpdate, version > disk.cache.version PROVE FALSE
      BY <1>1
    <3>1. cached = [value |-> update.value, version |-> update.version, committed |-> FALSE]
      BY DEF CacheUpdated
    <3>2. cached.version = version
      BY <3>1
    <3> HIDE DEF cached
    <3> QED
      BY <1>1, <1>2, <3>2
  <2> HIDE DEF cached
  <2>2. /\ cached \in CacheEntry
        /\ disk.cache.version <= cached.version /\ cached.version <= Version
        /\ cached.value = IF cached.version = 0 THEN Missing ELSE hist[cached.version]
        /\ update # NoUpdate => version <= cached.version
    BY <1>1, <1>2, <2>1
  <2> QED
    BY <1>2, <2>2 DEF cached
<1>3. CASE cached # disk.cache
  <2>1. /\ update # NoUpdate
        /\ cached = [value |-> update.value, version |-> update.version, committed |-> FALSE]
        /\ update.version >= disk.cache.version
    BY <1>1, <1>3 DEF CacheUpdated
  <2> HIDE DEF cached
  <2>2. cached \in CacheEntry
    BY <1>1, <2>1 DEF CacheEntry
  <2>3. cached.version = version /\ cached.value = hist[version] /\ ~cached.committed
    BY <2>1
  <2>4. /\ disk.cache.version <= cached.version /\ cached.version <= Version
        /\ version <= cached.version /\ cached.version # 0
    BY <1>1, <2>1, <2>3
  <2> QED
    BY <2>2, <2>3, <2>4 DEF cached
<1> QED
  BY <1>2, <1>3

\* After the snapshot the target has the document iff the server has it.
LEMMA TargetBrought ==
    ASSUME Typed, SyncedInv, ChangeInv, Active, NEW version, version # 0,
           aggregator.update # NoUpdate => aggregator.update.value = hist[version],
           aggregator.update = NoUpdate => Silent(version, resume_token)
    PROVE  /\ InTarget(view.synced_documents) \in BOOLEAN
           /\ InTarget(view.synced_documents) <=> hist[version] # Missing
<1>1. /\ view.on /\ view.synced_documents \in BOOLEAN
      /\ Resumes(resume_token, view.synced_documents)
      /\ aggregator.change = IF aggregator.update = NoUpdate THEN "none"
                             ELSE ChangeOf(aggregator.update, view.synced_documents)
  BY ViewFields DEF Typed, Active, SyncedInv, ChangeInv
<1>2. CASE aggregator.update = NoUpdate
  <2>1. aggregator.change = "none" /\ Silent(version, resume_token)
    BY <1>1, <1>2
  <2>2. InTarget(view.synced_documents) = view.synced_documents
    BY <2>1 DEF InTarget
  <2> QED
    BY <1>1, <2>1, <2>2 DEF Resumes, Silent
<1>3. CASE aggregator.update # NoUpdate
  <2>1. /\ aggregator.change = ChangeOf(aggregator.update, view.synced_documents)
        /\ aggregator.update.value = hist[version]
    BY <1>1, <1>3
  <2>2. CASE hist[version] # Missing
    <3>1. aggregator.change = IF view.synced_documents THEN "Modified" ELSE "Added"
      BY <1>1, <2>1, <2>2 DEF ChangeOf, Exists
    <3>2. InTarget(view.synced_documents) = TRUE
      BY <1>1, <3>1 DEF InTarget
    <3> QED
      BY <2>2, <3>2
  <2>3. CASE hist[version] = Missing
    <3>1. aggregator.change = IF view.synced_documents THEN "Removed" ELSE "none"
      BY <1>1, <2>1, <2>3 DEF ChangeOf, Exists
    <3>2. InTarget(view.synced_documents) = FALSE
      BY <1>1, <3>1 DEF InTarget
    <3> QED
      BY <2>3, <3>2
  <2> QED
    BY <2>2, <2>3
<1> QED
  BY <1>2, <1>3

\* The view after the snapshot.
LEMMA ViewBrought ==
    ASSUME Typed, NEW cached, NEW d \in ViewDocument, NEW synced \in BOOLEAN,
           d = IF view.on /\ cached # disk.cache
               THEN NextDocument(view.doc, LocalDocument(queue, cached)) ELSE view.doc,
           synced = IF Active THEN InTarget(view.synced_documents) ELSE view.synced_documents
    PROVE  LET v == ViewUpdated(view, cached)
           IN  /\ v \in View /\ v.on = view.on /\ v.doc = d /\ v.synced_documents = synced
               /\ v.current = IF Active THEN aggregator.current ELSE view.current
               /\ ~view.on => v = view
<1> DEFINE v == ViewUpdated(view, cached)
           current == IF Active THEN aggregator.current ELSE view.current
<1>1. view \in View /\ view.current \in BOOLEAN /\ aggregator.current \in BOOLEAN
  BY ViewFields, AggregatorFields DEF Typed
<1>2. current \in BOOLEAN
  BY <1>1
<1>3. v = [view EXCEPT !.doc = d, !.synced_documents = synced, !.current = current]
  BY DEF ViewUpdated
<1>4. ~view.on => d = view.doc /\ synced = view.synced_documents /\ current = view.current
  BY DEF Active
<1> HIDE DEF v, current
<1>5. v = [on |-> view.on, doc |-> d, synced_documents |-> synced, current |-> current]
  BY <1>1, <1>3 DEF View
<1>6. view = [on |-> view.on, doc |-> view.doc, synced_documents |-> view.synced_documents,
              current |-> view.current]
  BY <1>1 DEF View
<1>7. v \in View
  BY <1>1, <1>2, <1>5 DEF View
<1>8. /\ v.on = view.on /\ v.doc = d /\ v.synced_documents = synced /\ v.current = current
      /\ ~view.on => v = view
  BY <1>4, <1>5, <1>6
<1> QED
  BY <1>7, <1>8 DEF v, current

\* It shows what the server held at the version, or a set of the app.
LEMMA ShownBrought ==
    ASSUME ListenAssumption, Typed, StreamInv, DiskInv, TargetInv, ViewInv,
           NEW version \in 1..Version, NEW cached \in CacheEntry,
           disk.cache.version <= cached.version,
           cached.value = IF cached.version = 0 THEN Missing ELSE hist[cached.version],
           cached.committed => cached = disk.cache,
           cached # disk.cache => cached.version = version /\ ~cached.committed,
           Active => /\ version <= cached.version
                     /\ ShownBy(version, get, view.doc, disk.cache),
           cached # disk.cache /\ ~Active => ~view.current,
           NEW d,
           d = IF view.on /\ cached # disk.cache
               THEN NextDocument(view.doc, LocalDocument(queue, cached)) ELSE view.doc
    PROVE  /\ d \in ViewDocument
           /\ \A v \in View :
                 /\ v.on = view.on /\ v.doc = d /\ (~view.on => v = view)
                 /\ v.current => IF Active THEN TRUE ELSE view.current
                 => /\ DocumentSound(v, queue, cached)
                    /\ CurrentSound(v, get, cached, IF Active THEN version ELSE resume_token)
<1>1. /\ view \in View /\ view.doc \in ViewDocument /\ queue \in Seq(OwnValues)
      /\ disk.cache.version \in Nat /\ cached.version \in Nat /\ version \in Nat /\ version # 0
      /\ get.asked \in Nat /\ view.on \in BOOLEAN
  BY Fields, ViewFields, GetFields DEF Typed, CacheEntry
<1>2. /\ ~view.on => view = NoView
      /\ view.doc.state = "local" => view.doc.value \in OwnValues
      /\ view.on /\ queue # <<>> => view.doc = [value |-> Last(queue), state |-> "local"]
      /\ view.on /\ view.doc.state # "local" => view.doc.value = disk.cache.value
  BY DEF ViewInv, DocumentSound
<1>3. cached.committed => cached.value \in OwnValues
  BY DEF DiskInv, CacheSound
<1>4. CASE view.on /\ cached # disk.cache
  <2>1. d = NextDocument(view.doc, LocalDocument(queue, cached))
    BY <1>4
  <2>2. /\ d \in ViewDocument
        /\ d.state = "local" => d.value \in OwnValues
        /\ queue # <<>> => d = [value |-> Last(queue), state |-> "local"]
        /\ d.state # "local" => d.value = cached.value
    BY <1>1, <1>2, <1>3, <2>1, NextDocumentFacts
  <2>3. cached.version = version /\ cached.value = hist[version] /\ ~cached.committed
    BY <1>1, <1>4
  <2>4. ASSUME NEW v \in View, v.on = view.on, v.doc = d,
               v.current => IF Active THEN TRUE ELSE view.current
        PROVE  /\ DocumentSound(v, queue, cached)
               /\ CurrentSound(v, get, cached, IF Active THEN version ELSE resume_token)
    <3>1. DocumentSound(v, queue, cached)
      BY <1>4, <2>2, <2>4 DEF DocumentSound
    <3>2. v.current => Active
      BY <1>4, <2>4
    <3>3. v.current /\ get.state = "waiting" => get.asked <= version
      BY <3>2 DEF ShownBy
    <3>4. CurrentSound(v, get, cached, IF Active THEN version ELSE resume_token)
      BY <1>1, <2>2, <2>3, <2>4, <3>2, <3>3 DEF CurrentSound
    <3> QED
      BY <3>1, <3>4
  <2> QED
    BY <2>2, <2>4
<1>5. CASE ~view.on
  <2>1. d = view.doc
    BY <1>5
  <2>2. ASSUME NEW v \in View, v = view
        PROVE  /\ DocumentSound(v, queue, cached)
               /\ CurrentSound(v, get, cached, IF Active THEN version ELSE resume_token)
    <3>1. v = NoView /\ ~NoView.on /\ ~NoView.current /\ NoView.doc.state # "local"
      BY <1>2, <1>5, <2>2, NewFields
    <3> QED
      BY <3>1 DEF DocumentSound, CurrentSound
  <2> QED
    BY <1>1, <1>5, <2>1, <2>2
<1>6. CASE view.on /\ cached = disk.cache
  <2>1. d = view.doc
    BY <1>6
  <2>2. ASSUME NEW v \in View, v.on = view.on, v.doc = d,
               v.current => IF Active THEN TRUE ELSE view.current
        PROVE  /\ DocumentSound(v, queue, cached)
               /\ CurrentSound(v, get, cached, IF Active THEN version ELSE resume_token)
    <3>1. DocumentSound(v, queue, cached)
      BY <1>2, <1>6, <2>1, <2>2 DEF DocumentSound
    <3>2. CASE Active
      <4>1. /\ version <= cached.version
            /\ get.state = "waiting" => get.asked <= version
            /\ (cached.committed => d.state # "local") => cached.version <= version
        BY <1>6, <2>1, <3>2 DEF ShownBy
      <4>2. ~cached.committed => cached.version = version
        BY <1>1, <4>1
      <4>3. d.state # "local" => d.value = hist[version]
        <5> SUFFICES ASSUME d.state # "local" PROVE d.value = hist[version]
          OBVIOUS
        <5>1. cached.version = version /\ cached.version # 0
          BY <1>1, <4>1
        <5>2. d.value = cached.value
          BY <1>2, <1>6, <2>1
        <5> QED
          BY <5>1, <5>2
      <4> QED
        BY <1>1, <2>2, <3>1, <3>2, <4>1, <4>2, <4>3 DEF CurrentSound
    <3>3. CASE ~Active
      <4>1. v.current => view.current
        BY <2>2, <3>3
      <4>2. CurrentSound(view, get, disk.cache, resume_token)
        BY DEF ViewInv
      <4>3. CurrentSound(v, get, cached, resume_token)
        BY <1>6, <2>1, <2>2, <4>1, <4>2 DEF CurrentSound
      <4> QED
        BY <3>1, <3>3, <4>3
    <3> QED
      BY <3>2, <3>3
  <2> QED
    BY <1>1, <2>1, <2>2
<1> QED
  BY <1>1, <1>4, <1>5, <1>6

LEMMA SnapshotKeeps ==
    ASSUME ListenAssumption, ListenInv, Snapshot
    PROVE  ListenInv'
<1> DEFINE r == watch_stream_.responses
           t == Tail(r)
           n == Len(r)
           g == aggregator
           next == watch_stream_'
           version == Head(r).version
           update == DocumentUpdate(version)
           cached == IF update = NoUpdate THEN disk.cache ELSE CacheUpdated(disk.cache, update)
           v == ViewUpdated(view, cached)
           token == IF Active THEN version ELSE resume_token
           d == IF view.on /\ cached # disk.cache
                THEN NextDocument(view.doc, LocalDocument(queue, cached)) ELSE view.doc
           synced == IF Active THEN InTarget(view.synced_documents) ELSE view.synced_documents
<1>1. /\ Typed /\ DiskInv /\ MessagesInv /\ StreamInv /\ OnlineInv
      /\ TargetInv /\ SyncedInv /\ ChangeInv /\ ToldInv /\ ViewInv
  BY DEF ListenInv, TargetInv
<1>2. /\ Taken /\ Head(r).kind = "snapshot"
      /\ resume_token' = token
      /\ aggregator' = [g EXCEPT !.change = IF Active THEN "none" ELSE @, !.update = NoUpdate]
      /\ Show(v, UpdateState("Online"))
  BY DEF Snapshot, Receives, Taken
<1>3. PICK persist \in BOOLEAN :
         /\ resume_token = 0 \/ g.change # "none" => persist
         /\ disk' = [cache |-> cached,
                     token |-> IF Active /\ persist THEN version ELSE disk.token,
                     key |-> IF Active THEN InTarget(disk.key) ELSE disk.key,
                     snapshot |-> version]
  BY DEF Snapshot
<1>4. /\ r \in Seq(TargetResponse) /\ r # <<>> /\ r[1] \in TargetResponse /\ Head(r) = r[1]
      /\ next \in Stream /\ next.state = watch_stream_.state
      /\ next.idle = watch_stream_.idle /\ next.requests = watch_stream_.requests
      /\ next.responses = t /\ next.sent = watch_stream_.sent
      /\ IsOpen(watch_stream_)
      /\ UNCHANGED <<hist, lastAck, queue, written, acks, trouble>>
  BY <1>1, <1>2, TakenFacts
<1>5. /\ r[1].kind = "snapshot" /\ version = r[1].version /\ ~Answer(r[1])
  BY <1>2, <1>4 DEF Answer
<1> HIDE DEF version
<1>6. /\ version \in disk.snapshot..Version /\ version # 0
      /\ update # NoUpdate => update.version = version /\ update.value = hist[version]
      /\ Active =>
            /\ g.current /\ ShownBy(version, get, view.doc, disk.cache)
            /\ g.update = NoUpdate => Silent(version, resume_token)
            /\ update = NoUpdate =>
                  /\ version = resume_token
                  /\ g.update = NoUpdate /\ view.synced_documents
  BY <1>1, <1>4, <1>5, SnapshotBrings
<1>7. /\ version \in 1..Version /\ version \in Nat /\ Version \in Nat /\ disk.snapshot \in Nat
      /\ resume_token \in Nat /\ disk.token \in Nat /\ disk.key \in BOOLEAN
      /\ disk.cache.version \in Nat /\ lastAck \in Nat /\ Version' = Version
      /\ view \in View /\ view.on \in BOOLEAN /\ view.synced_documents \in BOOLEAN
      /\ g \in Aggregator /\ g.outstanding \in Nat /\ g.update \in Update
      /\ Active \in BOOLEAN
  <2>1. /\ Version \in Nat /\ disk.snapshot \in Nat /\ Version' = Version
        /\ resume_token \in Nat /\ disk.token \in Nat /\ disk.key \in BOOLEAN
        /\ disk.cache.version \in Nat /\ lastAck \in Nat
    BY <1>1, <1>4, Fields DEF Version
  <2>2. /\ view \in View /\ view.on \in BOOLEAN /\ view.synced_documents \in BOOLEAN
        /\ g \in Aggregator /\ g.outstanding \in Nat /\ g.update \in Update
    BY <1>1, ViewFields, AggregatorFields DEF Typed
  <2>3. version \in Nat /\ version \in 1..Version
    BY <1>6, <2>1
  <2>4. Active \in BOOLEAN
    BY <2>2 DEF Active
  <2> QED
    BY <2>1, <2>2, <2>3, <2>4
<1>8. update \in Update
  <2>1. [value |-> Missing, version |-> version] \in Update
    BY <1>7, Values DEF Update
  <2> QED
    BY <1>7, <2>1 DEF DocumentUpdate
<1> HIDE DEF update
<1>9. /\ cached \in CacheEntry
      /\ disk.cache.version <= cached.version /\ cached.version <= Version
      /\ cached.value = IF cached.version = 0 THEN Missing ELSE hist[cached.version]
      /\ cached.committed => cached = disk.cache
      /\ cached # disk.cache => cached.version = version /\ ~cached.committed
      /\ update # NoUpdate => version <= cached.version
  <2>1. CacheSound
    BY <1>1 DEF DiskInv
  <2> QED
    BY <1>1, <1>6, <1>7, <1>8, <2>1, CacheBrought
<1>10. update = NoUpdate => cached = disk.cache
  OBVIOUS
<1> HIDE DEF cached
<1>11. cached.version \in Nat /\ cached.value \in MaybeDocument /\ cached.committed \in BOOLEAN
  BY <1>9 DEF CacheEntry
<1>12. Active => version <= cached.version
  <2>1. CASE update = NoUpdate
    <3>1. resume_token <= disk.cache.version
      <4>1. ~view.on => resume_token = 0
        BY <1>1 DEF SyncedInv
      <4> QED
        BY <1>1, <1>7, <4>1 DEF SyncedInv, Resumes
    <3> QED
      BY <1>6, <1>10, <2>1, <3>1
  <2>2. CASE update # NoUpdate
    BY <1>9, <2>2
  <2> QED
    BY <2>1, <2>2
<1>13. Active => /\ InTarget(view.synced_documents) \in BOOLEAN
                 /\ InTarget(view.synced_documents) <=> hist[version] # Missing
  <2>1. g.update # NoUpdate => g.update.value = hist[version]
    BY <1>6 DEF DocumentUpdate, update
  <2> QED
    BY <1>1, <1>6, <2>1, TargetBrought
<1>14. view.on => disk.key = view.synced_documents
  BY <1>1 DEF SyncedInv
<1>15. synced \in BOOLEAN /\ (Active => view.on /\ (synced <=> hist[version] # Missing))
       /\ (~Active => synced = view.synced_documents)
  BY <1>7, <1>13 DEF Active
<1>16. cached # disk.cache /\ ~Active => ~view.current
  <2> SUFFICES ASSUME cached # disk.cache, ~Active, view.current PROVE FALSE
    OBVIOUS
  <2>1. update # NoUpdate
    BY <1>10
  <2>2. g.update # NoUpdate
    BY <2>1 DEF DocumentUpdate, update
  <2>3. ~view.on => view = NoView
    BY <1>1 DEF ViewInv, DocumentSound
  <2>4. view.on
    BY <2>3 DEF NoView
  <2>5. g.outstanding # 0
    BY <2>4 DEF Active
  <2> QED
    BY <1>1, <2>2, <2>5 DEF ChangeInv
<1>17. /\ d \in ViewDocument
       /\ \A w \in View :
             /\ w.on = view.on /\ w.doc = d /\ (~view.on => w = view)
             /\ w.current => IF Active THEN TRUE ELSE view.current
             => DocumentSound(w, queue, cached) /\ CurrentSound(w, get, cached, token)
  <2>1. Active => version <= cached.version /\ ShownBy(version, get, view.doc, disk.cache)
    BY <1>6, <1>12
  <2> HIDE DEF d
  <2>2. d = IF view.on /\ cached # disk.cache
            THEN NextDocument(view.doc, LocalDocument(queue, cached)) ELSE view.doc
    BY DEF d
  <2> QED
    BY <1>1, <1>7, <1>9, <1>16, <2>1, <2>2, ShownBrought
<1>18. d = view.doc \/ cached.version = version
  BY <1>9
<1>19. /\ v \in View /\ v.on = view.on /\ v.doc = d /\ v.synced_documents = synced
       /\ v.current = IF Active THEN g.current ELSE view.current
       /\ ~view.on => v = view
  <2> HIDE DEF d, synced
  <2>1. d = IF view.on /\ cached # disk.cache
            THEN NextDocument(view.doc, LocalDocument(queue, cached)) ELSE view.doc
    BY DEF d
  <2>2. synced = IF Active THEN InTarget(view.synced_documents) ELSE view.synced_documents
    BY DEF synced
  <2> QED
    BY <1>1, <1>15, <1>17, <2>1, <2>2, ViewBrought
<1> HIDE DEF v, d, synced
<1>20. DocumentSound(v, queue, cached) /\ CurrentSound(v, get, cached, token)
  BY <1>17, <1>19
<1>21. token \in Nat /\ token <= cached.version /\ token <= Version
       /\ (Active => token = version) /\ (~Active => token = resume_token)
  <2>1. resume_token <= disk.cache.version
    <3>1. ~view.on => resume_token = 0
      BY <1>1 DEF SyncedInv
    <3> QED
      BY <1>1, <1>7, <3>1 DEF SyncedInv, Resumes
  <2> QED
    BY <1>7, <1>9, <1>11, <1>12, <2>1
<1> HIDE DEF token
<1>22. UpdateState("Online") \in Online /\ OnlineSound(UpdateState("Online"))
       /\ ~UpdateState("Online").timer
  BY UpdateStateFacts DEF OnlineState
<1>23. /\ disk'.cache = cached /\ disk'.snapshot = version
       /\ disk'.token = IF Active /\ persist THEN version ELSE disk.token
       /\ disk'.key = IF Active THEN InTarget(disk.key) ELSE disk.key
  BY <1>3
<1>24. /\ view' \in View /\ view'.on = v.on /\ view'.doc = v.doc
       /\ view'.synced_documents = v.synced_documents
       /\ online' = UpdateState("Online") /\ online' \in Online /\ listener' \in Listener
       /\ get' \in Get /\ get'.asked = get.asked
       /\ get'.state = "waiting" => get.state = "waiting"
       /\ ViewInv'
  <2>1. GetInv /\ ListeningInv
    BY <1>1 DEF ViewInv
  <2>2. DocumentSound(v, queue', disk'.cache)
        /\ CurrentSound(v, get, disk'.cache, resume_token')
    BY <1>2, <1>4, <1>20, <1>23
  <2>3. resume_token' \in Nat /\ resume_token' <= Version
    BY <1>2, <1>21
  <2> QED
    BY <1>1, <1>2, <1>4, <1>19, <1>22, <2>1, <2>2, <2>3, ShowKeeps
<1>25. /\ aggregator' \in Aggregator /\ aggregator'.outstanding = g.outstanding
       /\ aggregator'.current = g.current /\ aggregator'.update = NoUpdate
       /\ Active => aggregator'.change = "none"
  <2>1. \A c \in {"none", "Added", "Modified", "Removed"} :
           LET a == [g EXCEPT !.change = c, !.update = NoUpdate]
           IN  /\ a \in Aggregator /\ a.outstanding = g.outstanding /\ a.current = g.current
               /\ a.update = NoUpdate /\ a.change = c
    BY <1>7, NewFields DEF Aggregator
  <2> DEFINE c == IF Active THEN "none" ELSE g.change
  <2>2. c \in {"none", "Added", "Modified", "Removed"}
    BY <1>7 DEF Aggregator
  <2>3. aggregator' = [g EXCEPT !.change = c, !.update = NoUpdate] /\ (Active => c = "none")
    BY <1>2
  <2> HIDE DEF c
  <2> QED
    BY <2>1, <2>2, <2>3
<1>26. /\ disk' \in [cache : CacheEntry, token : Nat, key : BOOLEAN, snapshot : Nat]
       /\ disk'.key \in BOOLEAN /\ disk'.token \in Nat
       /\ Active => disk'.key = synced
  <2>1. InTarget(disk.key) = InTarget(view.synced_documents) \/ ~Active
    BY <1>14, <1>15
  <2>2. Active => disk'.key = synced
    BY <1>23, <2>1 DEF synced
  <2>3. disk'.key \in BOOLEAN
    BY <1>7, <1>15, <1>23, <2>2
  <2>4. disk'.token \in Nat
    BY <1>7, <1>23
  <2>5. disk' = [cache |-> disk'.cache, token |-> disk'.token, key |-> disk'.key,
                 snapshot |-> disk'.snapshot]
    BY <1>3
  <2>6. disk'.cache \in CacheEntry /\ disk'.snapshot \in Nat
    BY <1>7, <1>9, <1>23
  <2> QED
    BY <2>2, <2>3, <2>4, <2>5, <2>6
<1>27. Typed'
  BY <1>1, <1>2, <1>4, <1>21, <1>24, <1>25, <1>26 DEF Typed

<1>28. DiskInv'
  <2>1. AcksSound'
    BY <1>1, <1>4, <1>7 DEF DiskInv, AcksSound
  <2>2. CacheSound'
    <3>1. lastAck <= cached.version
      BY <1>1, <1>7, <1>9, <1>11 DEF DiskInv, CacheSound
    <3>2. cached.committed => cached.value \in OwnValues
      BY <1>1, <1>9 DEF DiskInv, CacheSound
    <3> QED
      BY <1>4, <1>7, <1>9, <1>23, <3>1, <3>2 DEF CacheSound
  <2>3. Resumes(disk.token, disk.key)'
    <3>1. CASE Active /\ persist
      <4>1. disk'.token = version /\ (disk'.key <=> hist[version] # Missing)
        BY <1>15, <1>23, <1>26, <3>1
      <4> QED
        BY <1>4, <1>6, <1>12, <1>23, <3>1, <4>1 DEF Resumes
    <3>2. CASE ~(Active /\ persist)
      <4>1. Active => g.change = "none"
        BY <1>3, <3>2
      <4>2. disk'.token = disk.token /\ disk'.key = disk.key
        BY <1>23, <3>2, <4>1 DEF InTarget
      <4>3. Resumes(disk.token, disk.key)
        BY <1>1 DEF DiskInv
      <4> QED
        BY <1>4, <1>7, <1>9, <1>11, <1>23, <4>2, <4>3 DEF Resumes
    <3> QED
      BY <3>1, <3>2
  <2>4. disk'.snapshot <= Version'
    BY <1>6, <1>7, <1>23
  <2> QED
    BY <2>1, <2>2, <2>3, <2>4 DEF DiskInv
<1>29. /\ n \in Nat \ {0} /\ Len(t) = n - 1 /\ \A i \in 1..(n - 1) : t[i] = r[i + 1]
       /\ \A i \in 1..n : Latest(t, i) <=> Latest(r, i + 1)
  BY <1>4, TailFacts, TailPlaces
<1>30. \A i \in 1..(n - 1) : t[i].kind = "snapshot" => version <= t[i].version
  <2> SUFFICES ASSUME NEW i \in 1..(n - 1), t[i].kind = "snapshot" PROVE version <= t[i].version
    OBVIOUS
  <2>1. 1 \in 1..n /\ i + 1 \in 1..n /\ 1 < i + 1 /\ t[i] = r[i + 1]
    BY <1>29
  <2>2. MessagesTrue(r)
    BY <1>1 DEF MessagesInv
  <2> QED
    BY <1>5, <2>1, <2>2 DEF MessagesTrue
<1>31. MessagesInv'
  <2>1. MessagesTrue(t)
    BY <1>1, <1>4, TailMessages DEF MessagesInv
  <2> DEFINE m == Len(t)
  <2>2. ASSUME NEW i \in 1..m
        PROVE  /\ t[i].kind = "document" =>
                     /\ t[i].update.version \in 1..Version
                     /\ t[i].update.value = hist[t[i].update.version]
                     /\ Brings(t, i + 1, t[i].update.version)
               /\ t[i].kind = "snapshot" => t[i].version \in version..Version /\ t[i].version # 0
    <3>1. /\ t[i].kind = "document" =>
                /\ t[i].update.version \in 1..Version
                /\ t[i].update.value = hist[t[i].update.version]
                /\ Brings(t, i + 1, t[i].update.version)
          /\ t[i].kind = "snapshot" => t[i].version \in disk.snapshot..Version /\ t[i].version # 0
      BY <2>1 DEF MessagesTrue
    <3>2. t[i].kind = "snapshot" => version <= t[i].version
      BY <1>29, <1>30
    <3> QED
      BY <1>7, <3>1, <3>2
  <2>3. \A i, j \in 1..m :
           i < j /\ t[i].kind = "snapshot" /\ t[j].kind = "snapshot" => t[i].version <= t[j].version
    BY <2>1 DEF MessagesTrue
  <2>4. watch_stream_'.responses = t /\ hist' = hist /\ disk'.snapshot = version
    BY <1>2, <1>4, <1>23
  <2> HIDE DEF t, next, m
  <2>5. MessagesTrue(watch_stream_.responses)'
    BY <1>7, <2>2, <2>3, <2>4 DEF MessagesTrue, m
  <2> QED
    BY <1>25, <2>5 DEF MessagesInv, UpdateTrue
<1>32. Active <=> view.on /\ watch_stream_.requests = <<>> /\ Latest(r, 1)
  BY <1>1, ActiveFacts DEF Active
<1>33. StreamInv'
  <2>1. watch_stream_.requests # <<>> => resume_token' = resume_token
    BY <1>2, <1>21, <1>32
  <2>2. aggregator'.outstanding = g.outstanding - IF Answer(r[1]) THEN 1 ELSE 0
    BY <1>5, <1>7, <1>25
  <2> QED
    BY <1>1, <1>2, <1>19, <1>24, <2>1, <2>2, TakenStream
<1>34. OnlineInv'
  BY <1>22, <1>24 DEF OnlineInv, OnlineSound
<1>35. SyncedInv'
  <2>1. CASE Active
    <3>1. view'.on /\ view'.synced_documents = disk'.key /\ (disk'.key <=> hist[version] # Missing)
      BY <1>15, <1>19, <1>24, <1>26, <2>1
    <3>2. resume_token' = version
      BY <1>2, <1>21, <2>1
    <3> QED
      BY <1>4, <1>6, <1>12, <1>23, <2>1, <3>1, <3>2 DEF SyncedInv, Resumes
  <2>2. CASE ~Active
    <3>1. /\ view'.on = view.on /\ view'.synced_documents = view.synced_documents
          /\ disk'.key = disk.key /\ resume_token' = resume_token
      BY <1>2, <1>15, <1>19, <1>21, <1>23, <1>24, <2>2
    <3> QED
      BY <1>1, <1>4, <1>7, <1>9, <1>11, <1>23, <3>1 DEF SyncedInv, Resumes
  <2> QED
    BY <2>1, <2>2
<1>36. ChangeInv'
  <2>1. view'.on /\ aggregator'.outstanding = 0 => Active
    BY <1>19, <1>24, <1>25 DEF Active
  <2> QED
    BY <1>25, <2>1 DEF ChangeInv
<1>37. ToldInv'
  <2> SUFFICES ASSUME view.on, watch_stream_.requests = <<>>
      PROVE  /\ next.sent # 0 => CurrentTold(t, Len(t) + 1, g.current)
             /\ \A i \in 1..Len(t) : Latest(t, i) /\ t[i].kind = "snapshot" =>
                   /\ DocumentTold(t, i, NoUpdate, token)
                   /\ CurrentTold(t, i, g.current)
                   /\ ShownBy(t[i].version, get', view'.doc, cached)
    <3> HIDE DEF t
    <3> QED
      BY <1>2, <1>4, <1>19, <1>23, <1>24, <1>25, ToldThen
  <2>1. Latest(r, 1) /\ (g.current \/ r[1].kind = "current") => g.current
    BY <1>5
  <2>2. ASSUME next.sent # 0 PROVE CurrentTold(t, Len(t) + 1, g.current)
    <3>1. CurrentTold(r, n + 1, g.current)
      BY <1>1, <1>4, <2>2 DEF ToldInv
    <3>2. n \in 1..Len(r) /\ Len(t) + 1 = n
      BY <1>29
    <3>3. CurrentTold(t, n, g.current)
      BY <1>4, <2>1, <3>1, <3>2, TailCurrent
    <3> QED
      BY <3>2, <3>3
  <2>3. ASSUME NEW i \in 1..(n - 1), Latest(t, i), t[i].kind = "snapshot"
        PROVE  /\ DocumentTold(t, i, NoUpdate, token)
               /\ CurrentTold(t, i, g.current)
               /\ ShownBy(t[i].version, get', view'.doc, cached)
    <3>1. i + 1 \in 1..n /\ i \in 1..n /\ Latest(r, i + 1) /\ t[i] = r[i + 1]
      BY <1>29, <2>3
    <3>2. /\ DocumentTold(r, i + 1, g.update, resume_token)
          /\ CurrentTold(r, i + 1, g.current)
          /\ ShownBy(r[i + 1].version, get, view.doc, disk.cache)
      BY <1>1, <2>3, <3>1 DEF ToldInv
    <3>3. CurrentTold(t, i, g.current)
      BY <1>4, <2>1, <3>1, <3>2, TailCurrent
    <3>4. DocumentTold(t, i, NoUpdate, token)
      <4>1. ~Latest(r, 1) => token = resume_token
        BY <1>21, <1>32
      <4> QED
        BY <1>4, <1>5, <3>1, <3>2, <4>1, TailRaised
    <3>5. version <= t[i].version
      BY <1>30, <2>3
    <3>6. ShownBy(t[i].version, get', view'.doc, cached)
      <4>1. get'.state = "waiting" => get'.asked <= t[i].version
        BY <1>24, <3>1, <3>2 DEF ShownBy
      <4>2. CASE cached = disk.cache
        <5>1. view'.doc = view.doc
          BY <1>19, <1>24, <4>2 DEF d
        <5> QED
          BY <3>1, <3>2, <4>1, <4>2, <5>1 DEF ShownBy
      <4>3. CASE cached # disk.cache
        BY <1>9, <3>5, <4>1, <4>3 DEF ShownBy
      <4> QED
        BY <4>2, <4>3
    <3> QED
      BY <3>3, <3>4, <3>6
  <2> QED
    BY <1>29, <2>2, <2>3
<1> QED
  BY <1>24, <1>27, <1>28, <1>31, <1>33, <1>34, <1>35, <1>36, <1>37 DEF ListenInv, TargetInv

----------------------------------------------------------------------------
(* The theorems.                                                           *)

LEMMA ReadProgressKeeps ==
    ASSUME ListenAssumption, ListenInv, ReadProgress
    PROVE  ListenInv'
<1>1. CASE WatchStreamOpens
  BY <1>1, WatchStreamOpensKeeps
<1>2. CASE BackoffElapsed
  BY <1>2, BackoffElapsedKeeps
<1>3. CASE OnWatchStreamChange
  <2>1. CASE TargetAdded
    BY <2>1, TargetAddedKeeps
  <2>2. CASE TargetRemoved
    BY <2>2, TargetRemovedKeeps
  <2>3. CASE TargetCurrent
    BY <2>3, TargetCurrentKeeps
  <2>4. CASE DocumentChange
    BY <2>4, DocumentChangeKeeps
  <2>5. CASE Snapshot
    BY <2>5, SnapshotKeeps
  <2> QED
    BY <1>3, <2>1, <2>2, <2>3, <2>4, <2>5 DEF OnWatchStreamChange
<1>4. CASE ServerReceives
  BY <1>4, ServerReceivesKeeps
<1>5. CASE ServerSends
  BY <1>5, ServerSendsKeeps
<1> QED
  BY <1>1, <1>2, <1>3, <1>4, <1>5 DEF ReadProgress

LEMMA NextKeeps ==
    ASSUME ListenAssumption, ListenInv, [Next]_vars
    PROVE  ListenInv'
<1>1. CASE ReadProgress
  BY <1>1, ReadProgressKeeps
<1>2. CASE WriteAcked
  BY <1>2, WriteAckedKeeps
<1>3. CASE ServerCommits
  BY <1>3, ServerCommitsKeeps
<1>4. CASE GetDocumentEnds
  BY <1>4, GetDocumentEndsKeeps
<1>5. CASE AddSnapshotListener
  BY <1>5, AddSnapshotListenerKeeps
<1>6. CASE RemoveSnapshotListener
  BY <1>6, RemoveSnapshotListenerKeeps
<1>7. CASE GetDocument
  BY <1>7, GetDocumentKeeps
<1>8. CASE \E value \in OwnValues : SetData(value)
  BY <1>8, SetDataKeeps
<1>9. CASE WriteRejected
  BY <1>9, WriteRejectedKeeps
<1>10. CASE WatchStreamFails
  BY <1>10, WatchStreamFailsKeeps
<1>11. CASE IdleTimeout
  BY <1>11, IdleTimeoutKeeps
<1>12. CASE OnlineStateTimeout
  BY <1>12, OnlineStateTimeoutKeeps
<1>13. CASE ConnectivityChange
  BY <1>13, ConnectivityChangeKeeps
<1>14. CASE WriteStreamBreaks
  BY <1>14, WriteStreamBreaksKeeps
<1>15. CASE Relaunch
  BY <1>15, RelaunchKeeps
<1>16. CASE \E value \in OthersValues : OthersWrite(value)
  BY <1>16, OthersWriteKeeps
<1>17. CASE UNCHANGED vars
  BY <1>17, StutterKeeps
<1> QED
  BY <1>1, <1>2, <1>3, <1>4, <1>5, <1>6, <1>7, <1>8, <1>9, <1>10, <1>11, <1>12, <1>13, <1>14,
     <1>15, <1>16, <1>17 DEF Next, WriteProgress

\* The inductive invariant: whatever the app, the server, the network and the
\* disk do, in whichever order, the read path stays in a sound state.
THEOREM ListenTheorem == Spec => []ListenInv
<1>1. Init => ListenInv
  BY ListenAssumption, InitInv
<1>2. ListenInv /\ [Next]_vars => ListenInv'
  BY ListenAssumption, NextKeeps
<1> QED
  BY <1>1, <1>2, PTL DEF Spec

LEMMA InvTypes ==
    ASSUME ListenAssumption, ListenInv
    PROVE  TypeOK
<1>1. Typed /\ DiskInv /\ TargetInv
  BY DEF ListenInv
<1>2. /\ hist \in Seq(MaybeDocument) /\ Version \in Nat \ {0}
      /\ acks \in Seq(Nat) /\ Len(acks) \in Nat /\ lastAck \in Nat
      /\ disk.cache \in CacheEntry /\ disk.token \in Nat /\ disk.key \in BOOLEAN
      /\ disk.snapshot \in Nat /\ resume_token \in Nat /\ disk.cache.version \in Nat
  BY <1>1, Fields
<1>3. acks \in Seq(1..Version) /\ Len(acks) <= Len(queue)
  <2>1. \A i \in 1..Len(acks) : acks[i] \in 1..Version
    BY <1>1 DEF DiskInv, AcksSound
  <2>2. acks \in [1..Len(acks) -> 1..Version]
    <3>1. acks \in [1..Len(acks) -> Nat]
      BY <1>2, LenProperties
    <3> QED
      BY <2>1, <3>1
  <2>3. acks \in Seq(1..Version)
    <3>1. Len(acks) \in Nat
      BY <1>2
    <3> QED
      BY ONLY <2>2, <3>1, SeqDef, Zenon
  <2> QED
    BY <1>1, <2>3 DEF DiskInv, AcksSound
<1>4. disk.cache.version <= Version /\ lastAck <= Version
  BY <1>1, <1>2 DEF DiskInv, CacheSound
<1>5. disk.cache \in [value : MaybeDocument, version : 0..Version, committed : BOOLEAN]
  BY <1>2, <1>4 DEF CacheEntry
<1>6. disk.token <= Version /\ disk.snapshot <= Version
  BY <1>1, <1>2, <1>4 DEF DiskInv, Resumes
<1>7. resume_token <= Version
  <2>1. CASE view.on
    BY <1>1, <1>2, <1>4, <2>1 DEF TargetInv, SyncedInv, Resumes
  <2>2. CASE ~view.on
    BY <1>1, <1>2, <2>2 DEF TargetInv, SyncedInv
  <2> QED
    BY <2>1, <2>2
<1>8. watch_stream_.state \in {"Initial", "Starting", "Open", "Error", "Backoff"}
  BY <1>1, StreamFields DEF Typed
<1>9. aggregator.outstanding \in Nat /\ aggregator.change \in {"none", "Added", "Modified", "Removed"}
  BY <1>1, AggregatorFields DEF Typed
<1>10. view.doc \in [value : MaybeDocument, state : {"local", "committed", "synced"}]
  BY <1>1, ViewFields DEF Typed, ViewDocument
<1>11. get.state \in {"off", "waiting", "answered"}
  BY <1>1 DEF Typed, Get
<1>12. online \in Online /\ listener \in Listener /\ trouble \in 0..MaxTrouble
       /\ queue \in Seq(OwnValues) /\ Len(queue) <= written /\ hist # <<>>
  BY <1>1 DEF Typed
<1>13. lastAck \in 0..Version /\ {disk.token, disk.snapshot, resume_token} \subseteq 0..Version
  BY <1>2, <1>4, <1>6, <1>7
<1> QED
  BY <1>2, <1>3, <1>5, <1>8, <1>9, <1>10, <1>11, <1>12, <1>13
     DEF TypeOK, Online, Listener

\* The client never holds a version or a resume point that the server has not
\* reached, and no more answers than it has sets.
THEOREM TypeTheorem == Spec => []TypeOK
<1>1. ListenInv => TypeOK
  BY ListenAssumption, InvTypes
<1> QED
  BY <1>1, ListenTheorem, PTL

LEMMA InvAsserts ==
    ASSUME ListenAssumption, ListenInv
    PROVE  AssertsHold
<1> DEFINE r == watch_stream_.responses
<1>1. Typed /\ DiskInv /\ MessagesInv /\ StreamInv /\ OnlineInv /\ TargetInv
  BY DEF ListenInv
<1>2. r \in Seq(TargetResponse) /\ Len(r) \in Nat
  BY <1>1, StreamFields DEF Typed
<1>3. Active /\ aggregator.change \in {"Modified", "Removed"} => view.synced_documents
  BY <1>1 DEF Active, TargetInv, ChangeInv, ChangeOf
<1>4. online.timer => online.state = "Unknown" /\ IsStarted(watch_stream_)
  BY <1>1 DEF OnlineInv
<1>5. ASSUME NEW m \in ToSet(r), m.kind = "snapshot" PROVE m.version >= disk.snapshot
  <2>1. PICK i \in 1..Len(r) : m = r[i]
    BY <1>2 DEF ToSet
  <2>2. m.version \in disk.snapshot..Version
    BY <1>1, <1>5, <2>1 DEF MessagesInv, MessagesTrue
  <2>3. disk.snapshot \in Nat /\ Version \in Nat
    BY <1>1, Fields
  <2> QED
    BY <2>2, <2>3
<1>6. (watch_stream_.idle => ~view.on) /\ (view.on => IsStarted(watch_stream_))
  BY <1>1 DEF StreamInv
<1>7. aggregator.outstanding = Len(watch_stream_.requests)
                               + Cardinality({i \in DOMAIN r : r[i].kind \in {"added", "removed"}})
  <2>1. {i \in DOMAIN r : r[i].kind \in {"added", "removed"}} = Answers(r)
    BY <1>2 DEF Answers, Answer
  <2>2. aggregator.outstanding = Len(watch_stream_.requests) + Cardinality(Answers(r))
    BY <1>1 DEF StreamInv
  <2> QED
    BY <2>1, <2>2
<1> QED
  BY <1>3, <1>4, <1>5, <1>6, <1>7 DEF AssertsHold

\* No HARD_ASSERT of the read path aborts the app: not the view's "not found in
\* view", the online state's single timer, "Watch stream reverted", nor "stopped
\* gracefully while still needed", and the aggregator waits for just the answers
\* that are under way.
THEOREM AssertsTheorem == Spec => []AssertsHold
<1>1. ListenInv => AssertsHold
  BY ListenAssumption, InvAsserts
<1> QED
  BY <1>1, ListenTheorem, PTL

\* The target's synced documents and the document of a current view agree, so
\* that no limbo resolution starts for a document that the app only sets.
THEOREM LimboTheorem == Spec => []NeverInLimbo
<1>1. ASSUME ListenInv PROVE NeverInLimbo
  <2> SUFFICES ASSUME InLimbo(view) PROVE FALSE
    BY DEF NeverInLimbo
  <2>1. view.current /\ view.doc.value # Missing /\ view.doc.state # "local" /\ ~view.synced_documents
    BY DEF InLimbo, Exists
  <2>2. Typed /\ TargetInv /\ ViewInv
    BY <1>1 DEF ListenInv
  <2>3. view.on
    BY <2>1, <2>2 DEF ViewInv, DocumentSound, NoView
  <2>4. resume_token # 0 /\ view.doc.value = hist[resume_token]
    BY <2>1, <2>2 DEF ViewInv, CurrentSound
  <2>5. view.synced_documents
    BY <2>1, <2>2, <2>3, <2>4 DEF TargetInv, SyncedInv, Resumes
  <2> QED
    BY <2>1, <2>5
<1> QED
  BY <1>1, ListenTheorem, PTL

\* Whether a write's answer or the watch stream put it there, the cache has what
\* the server held at the version the cache says.
THEOREM CacheTheorem == Spec => []CacheTrue
<1>1. ListenInv => CacheTrue
  BY DEF ListenInv, DiskInv, CacheSound, CacheTrue
<1> QED
  BY <1>1, ListenTheorem, PTL

\* The cache never goes back to an older version, not even when an answer of the
\* write stream and the watch stream's update overtake each other, or after a launch.
THEOREM ForwardTheorem == Spec => CacheForward
<1>1. ASSUME ListenInv, [Next]_vars
      PROVE  [disk'.cache.version >= disk.cache.version]_disk
  <2>1. /\ disk.cache.version \in Nat /\ acks \in Seq(Nat)
        /\ \A i \in 1..Len(watch_stream_.responses) :
              watch_stream_.responses[i] \in TargetResponse
        /\ aggregator.update.version \in Nat
    BY <1>1, Fields, StreamFields, AggregatorFields DEF ListenInv, Typed
  <2>2. disk'.cache = disk.cache => disk'.cache.version >= disk.cache.version
    BY <2>1
  <2>3. CASE WriteAcked
    <3>1. /\ disk' = [disk EXCEPT !.cache = CacheAcked(disk.cache, Head(queue), Head(acks))]
          /\ Head(acks) \in Nat
      BY <2>1, <2>3 DEF WriteAcked, Changed
    <3>2. disk \in [cache : CacheEntry, token : Nat, key : BOOLEAN, snapshot : Nat]
      BY <1>1 DEF ListenInv, Typed
    <3>3. disk'.cache = CacheAcked(disk.cache, Head(queue), Head(acks))
      BY <3>1, <3>2
    <3> QED
      BY <2>1, <3>1, <3>3 DEF CacheAcked
  <2>4. CASE Snapshot
    <3> DEFINE update == DocumentUpdate(Head(watch_stream_.responses).version)
    <3>1. disk'.cache = IF update = NoUpdate THEN disk.cache ELSE CacheUpdated(disk.cache, update)
      BY <2>4 DEF Snapshot
    <3>2. update.version \in Nat
      <4>1. Head(watch_stream_.responses) \in TargetResponse
        BY <1>1, <2>4, StreamFields DEF Snapshot, Receives, ListenInv, Typed
      <4>2. Head(watch_stream_.responses).version \in Nat
        BY <2>4, <4>1, ResponseFields DEF Snapshot, Receives
      <4> QED
        BY <2>1, <4>2 DEF DocumentUpdate
    <3> QED
      BY <2>1, <3>1, <3>2 DEF CacheUpdated
  <2>5. CASE RemoveSnapshotListener \/ GetDocumentEnds
    <3>1. disk' = disk \/ disk' = [disk EXCEPT !.token = resume_token]
      BY <2>5 DEF RemoveSnapshotListener, GetDocumentEnds, RemoveQueryListener
    <3>2. disk \in [cache : CacheEntry, token : Nat, key : BOOLEAN, snapshot : Nat]
      BY <1>1 DEF ListenInv, Typed
    <3> QED
      BY <2>2, <3>1, <3>2
  <2>6. CASE (\E value \in OwnValues : SetData(value)) \/ WriteRejected
    <3>1. disk' = [disk EXCEPT !.cache = disk.cache]
      BY <2>6 DEF SetData, WriteRejected, Changed
    <3>2. disk \in [cache : CacheEntry, token : Nat, key : BOOLEAN, snapshot : Nat]
      BY <1>1 DEF ListenInv, Typed
    <3> QED
      BY <2>2, <3>1, <3>2
  <2>7. CASE TargetAdded \/ TargetRemoved \/ TargetCurrent \/ DocumentChange
    BY <2>7 DEF TargetAdded, TargetRemoved, TargetCurrent, DocumentChange, Handle
  <2>8. CASE AddSnapshotListener \/ GetDocument
    BY <2>8 DEF AddSnapshotListener, GetDocument, AddQueryListener
  <2>9. CASE WatchStreamOpens \/ BackoffElapsed \/ ServerReceives \/ ServerSends \/ ServerCommits
    BY <2>9 DEF WatchStreamOpens, BackoffElapsed, ServerReceives, ServerSends, ServerCommits
  <2>10. CASE \/ WatchStreamFails \/ IdleTimeout \/ OnlineStateTimeout \/ ConnectivityChange
              \/ WriteStreamBreaks \/ Relaunch \/ \E value \in OthersValues : OthersWrite(value)
    BY <2>10 DEF WatchStreamFails, IdleTimeout, OnlineStateTimeout, ConnectivityChange,
                 WriteStreamBreaks, Relaunch, OthersWrite
  <2>11. CASE UNCHANGED vars
    BY <2>11 DEF vars
  <2> QED
    BY <1>1, <2>3, <2>4, <2>5, <2>6, <2>7, <2>8, <2>9, <2>10, <2>11
       DEF Next, ReadProgress, WriteProgress, OnWatchStreamChange
<1> QED
  BY <1>1, ListenTheorem, PTL DEF Spec, CacheForward

\* The cache covers both resume points, the one in memory and the one on disk: a
\* stream that resumes skips nothing that the cache does not have, though the app
\* was killed after a snapshot that it did not persist.
THEOREM ResumeTheorem == Spec => []ResumeCovered
<1>1. ASSUME ListenInv PROVE ResumeCovered
  <2>1. Typed /\ DiskInv /\ TargetInv
    BY <1>1 DEF ListenInv
  <2>2. disk.token <= disk.cache.version /\ disk.cache.version \in Nat
    BY <2>1, Fields DEF DiskInv, Resumes
  <2>3. resume_token <= disk.cache.version
    BY <2>1, <2>2 DEF TargetInv, SyncedInv, Resumes
  <2> QED
    BY <2>2, <2>3 DEF ResumeCovered
<1> QED
  BY <1>1, ListenTheorem, PTL

\* What a view shows once a set was answered for is the server's document since
\* that set, or a later set of the app.
THEOREM OwnWritesTheorem == Spec => []OwnWritesStay
<1>1. ASSUME ListenInv PROVE OwnWritesStay
  <2> SUFFICES ASSUME view.on, view.doc.state # "local", lastAck # 0
               PROVE  \E n \in lastAck..Version : view.doc.value = hist[n]
    BY DEF OwnWritesStay
  <2>1. Typed /\ DiskInv /\ ViewInv
    BY <1>1 DEF ListenInv
  <2>2. lastAck \in Nat /\ disk.cache.version \in Nat /\ Version \in Nat
    BY <2>1, Fields
  <2>3. /\ disk.cache.version <= Version /\ lastAck <= disk.cache.version
        /\ disk.cache.version # 0 => disk.cache.value = hist[disk.cache.version]
    BY <2>1 DEF DiskInv, CacheSound
  <2>4. view.doc.value = disk.cache.value
    BY <2>1 DEF ViewInv, DocumentSound
  <2>5. disk.cache.version \in lastAck..Version /\ disk.cache.version # 0
    BY <2>2, <2>3
  <2> QED
    BY <2>3, <2>4, <2>5
<1> QED
  BY <1>1, ListenTheorem, PTL

\* A getDocument that asked the server, and answers with neither from_cache nor a
\* pending set, tells what the server held at some moment since the call.
THEOREM FreshGetTheorem == Spec => []FreshGet
<1>1. ListenInv => FreshGet
  BY DEF ListenInv, ViewInv, GetInv, FreshGet
<1> QED
  BY <1>1, ListenTheorem, PTL
=============================================================================
