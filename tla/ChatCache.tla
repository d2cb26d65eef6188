------------------------------- MODULE ChatCache -------------------------------
(***************************************************************************)
(* The cache of chat messages (apps/mobile/src/services/chat-cache.ts).    *)
(* The messages of a session lie in chunks under a revision, which a       *)
(* manifest names; an index lists the sessions.  Storage has no            *)
(* transactions: a call of the service is a job of several storage steps,  *)
(* each of which may fail or be the last before the app dies.  The jobs    *)
(* queue for one lock.                                                     *)
(*                                                                         *)
(* A chunk holds one message.  A message is <<c, x>>, the x-th of call c.  *)
(* The index is in order of updatedAt; the clock does not go back.         *)
(***************************************************************************)
EXTENDS Integers, FiniteSets, SequencesExt, Sifting

CONSTANTS
  Keys,         \* storage keys of sessions
  None,         \* nothing stored
  MaxSessions,  \* MAX_CACHED_SESSIONS
  MaxChunks,    \* bound on the chunks of a session
  MaxCalls,     \* bound on the calls
  MaxFaults     \* bound on the storage errors and crashes

ASSUME KeysAssumption == Keys # {} /\ IsFiniteSet(Keys) /\ None \notin Keys
ASSUME BoundsAssumption ==
  /\ MaxSessions \in Nat \ {0} /\ MaxChunks \in Nat \ {0}
  /\ MaxCalls \in Nat /\ MaxFaults \in Nat

VARIABLES
  chunk,     \* the stored chunks, by storage key, revision and place
  manifest,  \* what is stored under the storage key itself
  index,     \* the storage keys in the stored index, the latest first
  queue,     \* the jobs in order of their calls; the first holds the lock
  calls,     \* the number of calls so far
  faults,    \* the number of errors and crashes so far
  saved,     \* ghost: the messages last committed under each key
  kept,      \* ghost: the keys committed with no removal begun since
  listed,    \* ghost: the keys in the index as written, with no removal begun since
  misread    \* ghost: was an index taken for empty because it could not be read?

vars == <<chunk, manifest, index, queue, calls, faults, saved, kept, listed, misread>>
ghosts == <<saved, kept, listed>>

-----------------------------------------------------------------------------
Revs == 0..MaxCalls
Message == Revs \X (1..MaxChunks)
Messages == UNION {[1..n -> Message] : n \in 0..MaxChunks}
Layout == [rev : Revs, count : 0..MaxChunks]
NoLayout == [rev |-> 0, count |-> 0]

\* StoredChunkManifest; a value of an older version is an array of messages (inline).
Manifest == [rev : Revs, count : 0..MaxChunks, inline : Messages]

ASSUME NothingAssumption == None \notin Message /\ None \notin Manifest

Job == [id : 1..MaxCalls,
        op : {"save", "read", "forget", "remove", "clear"},
        pc : {"layout", "chunks", "manifest", "stale", "index",
              "evict", "check", "write", "remove", "drop"},
        key : Keys \cup {None},     \* the session being written or removed
        items : Messages,           \* the messages to write
        old : Layout,               \* previousLayout
        list : Seq(Keys),           \* the index as read or as it is to be written
        todo : SUBSET Keys,         \* sessions still to be checked, evicted or removed
        changed : BOOLEAN]

LayoutOf(k) ==
  IF manifest[k] = None THEN NoLayout
  ELSE [rev |-> manifest[k].rev, count |-> manifest[k].count]

\* readGenerationMessages: a chunk that is missing is skipped.
Read(k) ==
  IF manifest[k] = None THEN <<>>
  ELSE LET named == [x \in 1..manifest[k].count |-> chunk[k][manifest[k].rev][x]]
       IN  manifest[k].inline \o Sift(named, {x \in DOMAIN named : named[x] # None})

\* Its 'changed': the stored form is old or incomplete.
NeedsRewrite(k) == manifest[k].inline # <<>> \/ Len(Read(k)) # manifest[k].count

\* Mutant: the lock is not taken.
TurnOfAll(i) == TRUE

\* Mutant: calls that only read take no lock.
TurnReadersFree(i) == i = 1 \/ queue[i].op = "read"

\* runWithIndexLock
Turn(i) == i = 1

-----------------------------------------------------------------------------
(* Steps of jobs.  "bad": the storage call of the step fails. *)

Fault(bad) ==
  /\ bad => faults < MaxFaults
  /\ faults' = IF bad THEN faults + 1 ELSE faults

At(i, pc) == i \in DOMAIN queue /\ Turn(i) /\ queue[i].pc = pc
Continue(i, j) == queue' = [queue EXCEPT ![i] = j]
Done(i) == queue' = RemoveAt(queue, i)

\* Mutant: the lock is not released by a job that fails.
AbortLocked(i) == Continue(i, [queue[i] EXCEPT !.pc = "drop", !.op = "save"])

\* An exception leaves the task; the lock is released.
Abort(i) == Done(i)

\* The chunks of key k and revision r at the places S are removed.
DropChunks(k, r, S) ==
  chunk' = [chunk EXCEPT ![k][r] = [x \in 1..MaxChunks |-> IF x \in S THEN None ELSE @[x]]]

\* removeGenerationStorage never throws; when a call fails, what it should have
\* removed may stay.
RemoveGeneration(k, bad) ==
  \E left \in SUBSET (0..LayoutOf(k).count) :
    /\ left # {} => bad
    /\ manifest' = [manifest EXCEPT ![k] = IF 0 \in left THEN @ ELSE None]
    /\ DropChunks(k, LayoutOf(k).rev, 1..LayoutOf(k).count \ left)
    /\ kept' = kept \ {k}
    /\ listed' = listed \ {k}
    /\ UNCHANGED saved

\* Where a job goes on after a rewrite, done or given up.
AfterRewrite(i) ==
  IF queue[i].op = "save" THEN [queue[i] EXCEPT !.pc = "index"]
  ELSE [queue[i] EXCEPT !.pc = "check", !.key = None, !.items = <<>>, !.old = NoLayout]

\* saveMessages has no layout to clean up if it cannot read the old one.
ReadLayout(i, bad) ==
  /\ At(i, "layout")
  /\ Fault(bad)
  /\ Continue(i, [queue[i] EXCEPT !.pc = "chunks",
                    !.old = IF bad THEN NoLayout ELSE LayoutOf(queue[i].key)])
  /\ UNCHANGED <<chunk, manifest, index, calls, misread, ghosts>>

\* A rewrite that fails ends a save and is ignored by a read.
GiveUp(i) == IF queue[i].op = "save" THEN Abort(i) ELSE Continue(i, AfterRewrite(i))

\* Mutant: the chunks are written over those of the current revision.
RevisionReused(i) == queue[i].old.rev

\* createChunkRevision: a revision no chunk of the session has.
Revision(i) == queue[i].id

\* writeGenerationMessages, multiSet: a failing one may have written some.
WriteChunks(i, bad) ==
  LET j == queue[i] IN
  /\ At(i, "chunks")
  /\ Fault(bad)
  /\ \E done \in SUBSET DOMAIN j.items :
       /\ ~bad => done = DOMAIN j.items
       /\ chunk' = [chunk EXCEPT ![j.key][Revision(i)] =
                      [x \in 1..MaxChunks |-> IF x \in done THEN j.items[x] ELSE @[x]]]
  /\ IF bad THEN GiveUp(i) ELSE Continue(i, [j EXCEPT !.pc = "manifest"])
  /\ UNCHANGED <<manifest, index, calls, misread, ghosts>>

\* writeGenerationMessages, setItem of the manifest
WriteManifest(i, bad) ==
  LET j == queue[i] IN
  /\ At(i, "manifest")
  /\ Fault(bad)
  /\ IF bad
     THEN GiveUp(i) /\ UNCHANGED <<manifest, ghosts>>
     ELSE /\ manifest' = [manifest EXCEPT ![j.key] =
                 [rev |-> Revision(i), count |-> Len(j.items), inline |-> <<>>]]
          /\ IF j.op = "save"
             THEN saved' = [saved EXCEPT ![j.key] = j.items] /\ kept' = kept \cup {j.key}
             ELSE UNCHANGED <<saved, kept>>
          /\ UNCHANGED listed
          /\ Continue(i, [j EXCEPT !.pc = "stale"])
  /\ UNCHANGED <<chunk, index, calls, misread>>

\* Mutant: the names of the stale chunks are made without their revision.
StaleUnrevised(j) == 0

\* The revision of the layout before, removed once the manifest is there.
StaleRevision(j) == j.old.rev

RemoveStale(i, bad) ==
  LET j == queue[i] IN
  /\ At(i, "stale")
  /\ Fault(bad)
  /\ \E left \in SUBSET (1..j.old.count) :
       /\ left # {} => bad
       /\ DropChunks(j.key, StaleRevision(j), (1..j.old.count) \ left)
  /\ Continue(i, AfterRewrite(i))
  /\ UNCHANGED <<manifest, index, calls, misread, ghosts>>

\* The index l without session k.
Without(l, k) == Sift(l, {p \in DOMAIN l : l[p] # k})

\* index.splice(MAX_CACHED_SESSIONS)
Cut(l) == IF Len(l) > MaxSessions THEN SubSeq(l, 1, MaxSessions) ELSE l

\* saveMessages: the saved session comes first; what is beyond the limit goes.
Insert(j, l) ==
  LET all == <<j.key>> \o Without(l, j.key)
      gone == ToSet(all) \ ToSet(Cut(all))
  IN  [j EXCEPT !.list = Cut(all), !.todo = gone,
                !.pc = IF gone = {} THEN "write" ELSE "evict"]

\* readIndex and what each operation makes of it; an index that cannot be read is empty.
ReadIndex(i, bad) ==
  LET j == queue[i]
      l == IF bad THEN <<>> ELSE index
  IN
  /\ At(i, "index")
  /\ Fault(bad)
  /\ misread' = (misread \/ (bad /\ j.op \in {"save", "remove", "clear"} /\ index # <<>>))
  /\ Continue(i, CASE j.op = "save" -> Insert(j, l)
                   [] j.op = "remove" -> [j EXCEPT !.list = Without(l, j.key), !.pc = "write"]
                   [] j.op = "clear" -> [j EXCEPT !.todo = ToSet(l), !.pc = "evict"]
                   [] OTHER -> [j EXCEPT !.list = l, !.todo = ToSet(l), !.pc = "check"])
  /\ UNCHANGED <<chunk, manifest, index, calls, ghosts>>

\* saveMessages and clearAll: the messages of a session that leaves the index
Evict(i, k, bad) ==
  /\ At(i, "evict")
  /\ k \in queue[i].todo
  /\ Fault(bad)
  /\ RemoveGeneration(k, bad)
  /\ Continue(i, [queue[i] EXCEPT !.todo = @ \ {k}])
  /\ UNCHANGED <<index, calls, misread>>

Evicted(i) ==
  /\ At(i, "evict")
  /\ queue[i].todo = {}
  /\ Continue(i, [queue[i] EXCEPT !.pc = IF queue[i].op = "clear" THEN "drop" ELSE "write"])
  /\ UNCHANGED <<chunk, manifest, index, calls, faults, misread, ghosts>>

\* sanitizeIndexedSession: what is missing or empty leaves the index, what is old
\* or incomplete is written anew, and an error removes the session.
Check(i, k, bad) ==
  LET j == queue[i]
      left == [j EXCEPT !.todo = @ \ {k}, !.list = Without(@, k), !.changed = TRUE]
  IN
  /\ At(i, "check")
  /\ k \in j.todo
  /\ Fault(bad)
  /\ \/ /\ bad \/ (manifest[k] # None /\ Read(k) = <<>>)
        /\ RemoveGeneration(k, bad)
        /\ Continue(i, left)
     \/ /\ ~bad /\ manifest[k] = None
        /\ Continue(i, left)
        /\ UNCHANGED <<chunk, manifest, ghosts>>
     \/ /\ ~bad /\ Read(k) # <<>>
        /\ Continue(i, IF NeedsRewrite(k)
                       THEN [j EXCEPT !.todo = @ \ {k}, !.changed = TRUE, !.pc = "chunks",
                                      !.key = k, !.items = Read(k), !.old = LayoutOf(k)]
                       ELSE [j EXCEPT !.todo = @ \ {k}])
        /\ UNCHANGED <<chunk, manifest, ghosts>>
  /\ UNCHANGED <<index, calls, misread>>

\* A reader has its answer; deleteMessages goes on to remove what it found.
AfterIndex(i) ==
  IF queue[i].op = "forget" /\ queue[i].list # <<>>
  THEN Continue(i, [queue[i] EXCEPT !.op = "remove", !.pc = "remove", !.list = <<>>,
                                    !.todo = ToSet(queue[i].list)])
  ELSE IF queue[i].op = "remove" /\ queue[i].todo # {}
  THEN Continue(i, [queue[i] EXCEPT !.pc = "remove", !.key = None, !.list = <<>>])
  ELSE Done(i)

\* getSanitizedIndexUnsafe, its end
Checked(i) ==
  /\ At(i, "check")
  /\ queue[i].todo = {}
  /\ IF queue[i].changed THEN Continue(i, [queue[i] EXCEPT !.pc = "write"])
     ELSE AfterIndex(i)
  /\ UNCHANGED <<chunk, manifest, index, calls, faults, misread, ghosts>>

WriteIndex(i, bad) ==
  LET j == queue[i] IN
  /\ At(i, "write")
  /\ Fault(bad)
  /\ IF bad
     THEN Abort(i) /\ UNCHANGED <<index, listed>>
     ELSE /\ index' = j.list
          /\ listed' = IF j.op = "save" THEN listed \cup {j.key} ELSE listed
          /\ AfterIndex(i)
  /\ UNCHANGED <<chunk, manifest, calls, misread, saved, kept>>

\* removeIndexedSessionUnsafe, its first step
RemoveSession(i, k, bad) ==
  /\ At(i, "remove")
  /\ k \in queue[i].todo
  /\ Fault(bad)
  /\ RemoveGeneration(k, bad)
  /\ Continue(i, [queue[i] EXCEPT !.todo = @ \ {k}, !.key = k, !.pc = "index"])
  /\ UNCHANGED <<index, calls, misread>>

\* clearAll, its last step
DropIndex(i, bad) ==
  /\ At(i, "drop")
  /\ queue[i].op = "clear"
  /\ Fault(bad)
  /\ index' = IF bad THEN index ELSE <<>>
  /\ Done(i)
  /\ UNCHANGED <<chunk, manifest, calls, misread, ghosts>>

-----------------------------------------------------------------------------
(* Calls, and the death of the app *)

NewJob(op, pc, k, n, todo) ==
  [id |-> calls + 1, op |-> op, pc |-> pc, key |-> k,
   items |-> [x \in 1..n |-> <<calls + 1, x>>], old |-> NoLayout,
   list |-> <<>>, todo |-> todo, changed |-> FALSE]

Call(j) ==
  /\ calls < MaxCalls
  /\ calls' = calls + 1
  /\ queue' = Append(queue, j)
  /\ UNCHANGED <<chunk, manifest, index, faults, misread, ghosts>>

SaveMessages(k, n) == Call(NewJob("save", "layout", k, n, {}))
\* getMessages, listSessions, search, getTimelinePage, ...
ReadSessions == Call(NewJob("read", "index", None, 0, {}))
\* deleteMessages without a session id; the keys are generations of one session.
DeleteMessages == Call(NewJob("forget", "index", None, 0, {}))
DeleteSession(k) == Call(NewJob("remove", "remove", None, 0, {k}))
ClearAll == Call(NewJob("clear", "index", None, 0, {}))

Crash ==
  /\ queue # <<>>
  /\ Fault(TRUE)
  /\ queue' = <<>>
  /\ UNCHANGED <<chunk, manifest, index, calls, misread, ghosts>>

-----------------------------------------------------------------------------
\* What may lie in storage: nothing, an array of messages, chunks without
\* revision, or a value that cannot be read.
Found == {None,
          [rev |-> 0, count |-> 0, inline |-> <<<<0, 1>>>>],
          [rev |-> 0, count |-> 1, inline |-> <<>>],
          [rev |-> 0, count |-> 0, inline |-> <<>>]}

Init ==
  /\ manifest \in [Keys -> Found]
  /\ chunk = [k \in Keys |-> [r \in Revs |-> [x \in 1..MaxChunks |->
                IF manifest[k] # None /\ r = 0 /\ x <= manifest[k].count
                THEN <<0, 1>> ELSE None]]]
  /\ index \in SetToSeqs({k \in Keys : manifest[k] # None})
  /\ Len(index) <= MaxSessions
  /\ queue = <<>>
  /\ calls = 0
  /\ faults = 0
  /\ saved = [k \in Keys |-> Read(k)]
  /\ kept = {k \in Keys : Read(k) # <<>>}
  /\ listed = kept
  /\ misread = FALSE

Step ==
  \E i \in DOMAIN queue, bad \in BOOLEAN :
    \/ ReadLayout(i, bad) \/ WriteChunks(i, bad) \/ WriteManifest(i, bad)
    \/ RemoveStale(i, bad) \/ ReadIndex(i, bad) \/ WriteIndex(i, bad) \/ DropIndex(i, bad)
    \/ \E k \in Keys : Evict(i, k, bad) \/ Check(i, k, bad) \/ RemoveSession(i, k, bad)
    \/ Evicted(i) \/ Checked(i)

Next ==
  \/ Step
  \/ Crash
  \/ \E k \in Keys : DeleteSession(k) \/ \E n \in 1..MaxChunks : SaveMessages(k, n)
  \/ ReadSessions \/ DeleteMessages \/ ClearAll

Spec == Init /\ [][Next]_vars

\* Storage calls are answered or fail: a job that has the lock goes on.
FairSpec == Spec /\ WF_vars(Step)

-----------------------------------------------------------------------------
(* Properties *)

\* Stored values and jobs have their types; the index keeps its limit and lists
\* no session twice.
TypeOK ==
  /\ chunk \in [Keys -> [Revs -> [1..MaxChunks -> Message \cup {None}]]]
  /\ manifest \in [Keys -> Manifest \cup {None}]
  /\ index \in Seq(Keys) /\ Len(index) <= MaxSessions /\ IsInjective(index)
  /\ queue \in Seq(Job)
  /\ calls \in 0..MaxCalls /\ faults \in 0..MaxFaults
  /\ saved \in [Keys -> Messages]
  /\ kept \subseteq Keys /\ listed \subseteq Keys /\ misread \in BOOLEAN

\* Messages that were committed are read back whole at every moment, whatever
\* fails or dies while they are saved anew, checked or rewritten, until their
\* removal begins (writeGenerationMessages).
CommittedReadable ==
  \A k \in kept : manifest[k] # None /\ Read(k) = saved[k]

\* A session in the index stays there until its removal begins, however the calls
\* overlap, fail or die, unless a failing read made the index look empty
\* (runWithIndexLock, readIndex).
ListedStay == ~misread => listed \subseteq ToSet(index)

\* With no error and no call under way, what is stored is what the index and the
\* manifests name: no chunk and no session is left behind.
NothingLeftBehind ==
  (faults = 0 /\ queue = <<>>) =>
    /\ \A k \in Keys : manifest[k] # None <=> k \in ToSet(index)
    /\ \A k \in Keys, r \in Revs, x \in 1..MaxChunks :
         chunk[k][r][x] # None <=> (r = LayoutOf(k).rev /\ x <= LayoutOf(k).count)

\* A session that was removed comes back only by a save: no reader that is
\* rewriting what it read restores it (sanitizeIndexedSession).
RemovedStaysRemoved ==
  [][\A k \in Keys : (manifest[k] = None /\ manifest'[k] # None) =>
       \E i \in DOMAIN queue : queue[i].op = "save" /\ queue[i].key = k]_vars

\* Every call gets the lock and ends, whatever fails (runWithIndexLock).
CallsEnd == (queue # <<>>) ~> (queue = <<>>)
=============================================================================
