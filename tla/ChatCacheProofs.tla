------------------------------ MODULE ChatCacheProofs ------------------------------
(***************************************************************************)
(* What holds of ChatCache for every finite set of sessions and every      *)
(* bound: whatever overlaps, fails or dies, committed messages are read    *)
(* back, sessions stay listed, what was removed stays removed, and without *)
(* an error nothing is left behind.                                        *)
(*                                                                         *)
(* The lock makes one job the writer, so the invariant says what the first *)
(* job of the queue has done so far at each place, and that the others     *)
(* have not begun.  Each step takes the first job to its next place        *)
(* (GoesOn) or out of the queue (Ends).                                    *)
(***************************************************************************)
EXTENDS ChatCache, SiftingProofs, SequenceTheorems

-----------------------------------------------------------------------------
(* The inductive invariant *)

\* What is stored under k is older than call n.
Before(k, n) == manifest[k] # None => manifest[k].rev < n

\* The stored form of k has one of the two forms, and all its chunks are there.
Whole(k) ==
  /\ manifest[k] # None
  /\ manifest[k].inline = <<>> \/ manifest[k].count = 0
  /\ \A x \in 1..manifest[k].count : chunk[k][manifest[k].rev][x] # None

Forms == \A k \in Keys : manifest[k] # None =>
           manifest[k].inline = <<>> \/ manifest[k].count = 0

\* Messages that were committed are there.
Committed == \A k \in kept : Whole(k) /\ Read(k) = saved[k]

\* A session is in the index only once it is stored.
Indexed ==
  /\ \A k \in listed : manifest[k] # None
  /\ ListedStay

\* The places a job of each kind passes.
Places(op) ==
  CASE op = "save" ->
         {"layout", "chunks", "manifest", "stale", "index", "evict", "write"}
    [] op \in {"read", "forget"} ->
         {"index", "check", "chunks", "manifest", "stale", "write"}
    [] op = "remove" -> {"remove", "index", "write"}
    [] OTHER -> {"index", "evict", "drop"}

\* A job that has not had the lock.
Waiting(j) ==
  /\ j.pc = CASE j.op = "save" -> "layout"
              [] j.op = "remove" -> "remove"
              [] OTHER -> "index"
  /\ j.list = <<>> /\ ~j.changed
  /\ j.op = "save" => j.key \in Keys /\ j.items # <<>>

\* The calls have increasing numbers, and the stored forms are older than the jobs that
\* wait.
Ordered ==
  /\ \A m \in DOMAIN queue : queue[m].id <= calls
  /\ \A m, n \in DOMAIN queue : m < n => queue[m].id < queue[n].id
  /\ \A m \in DOMAIN queue : m > 1 => Waiting(queue[m])
  /\ \A k \in Keys : Before(k, calls + 1)
  /\ \A m \in DOMAIN queue, k \in Keys : m > 1 => Before(k, queue[m].id)

\* A job that reads and checks sessions, or goes on from there.
Checks(j) == j.op \in {"read", "forget"} /\ j.pc # "index"

\* Job j writes a session anew.
Rewrites(j) == j.pc \in {"chunks", "manifest", "stale"}

\* The job and its session.
Shaped(j) ==
  /\ j.pc \in Places(j.op)
  /\ IsInjective(j.list) /\ Len(j.list) <= MaxSessions
  /\ j.op = "save" \/ Rewrites(j) => j.key \in Keys /\ j.items # <<>>
  /\ j.op = "remove" /\ j.pc \in {"index", "write"} => j.key \in Keys
  /\ Checks(j) => j.todo \subseteq ToSet(j.list) /\ (j.pc # "check" => j.changed)
  /\ j.op \in {"read", "forget"} /\ j.pc = "index" => ~j.changed
  /\ Checks(j) /\ Rewrites(j) => j.key \notin j.todo
  /\ j.op = "save" /\ j.pc = "evict" => j.todo \cap ToSet(j.list) = {}

\* The revision that a job writes is a new one.
Renews(j) ==
  /\ j.pc = "layout" => Before(j.key, j.id)
  /\ j.pc \in {"chunks", "manifest"} =>
       /\ Before(j.key, j.id)
       /\ j.op # "save" =>
            manifest[j.key] # None /\ (j.key \in kept => saved[j.key] = j.items)
  /\ Rewrites(j) => j.old.count = 0 \/ j.old.rev < j.id
  /\ j.pc = "manifest" => \A x \in DOMAIN j.items : chunk[j.key][j.id][x] = j.items[x]
  /\ j.pc = "stale" => manifest[j.key] # None /\ manifest[j.key].rev = j.id
  /\ j.op \in {"read", "forget"} =>
       \A k \in Keys : j.pc = "index" \/ k \in j.todo => Before(k, j.id)

\* The index that a job is about to write lists what is listed.
Lists(j) ==
  /\ j.op = "save" /\ j.pc \in {"stale", "index", "evict", "write"} => manifest[j.key] # None
  /\ j.op = "save" /\ j.pc \in {"evict", "write"} => j.key \in ToSet(j.list) /\ j.key \notin j.todo
  /\ j.op = "remove" /\ j.pc = "index" => j.key \notin listed
  /\ ~misread =>
       /\ j.op = "save" /\ j.pc = "evict" => listed \subseteq ToSet(j.list) \cup j.todo
       /\ j.op \in {"save", "remove"} /\ j.pc = "write" => listed \subseteq ToSet(j.list)
       /\ Checks(j) /\ (j.changed \/ j.todo # {}) => listed \subseteq ToSet(j.list)
       /\ j.op = "clear" /\ j.pc = "evict" => listed \subseteq j.todo
       /\ j.op = "clear" /\ j.pc = "drop" => listed = {}

Stored == {k \in Keys : manifest[k] # None}
Named(k, r, x) == r = LayoutOf(k).rev /\ x <= LayoutOf(k).count

\* Without a job, what is stored is what the index and the manifests name.
Tidy ==
  /\ Stored = ToSet(index)
  /\ \A k \in Keys, r \in Revs, x \in 1..MaxChunks :
       chunk[k][r][x] # None <=> Named(k, r, x)

\* What job j has stored and not yet named, or no longer names.
Spare(j, k, r, x) ==
  /\ k = j.key
  /\ \/ j.pc = "manifest" /\ r = j.id /\ x \in DOMAIN j.items
     \/ j.pc = "stale" /\ r = j.old.rev /\ x \in 1..j.old.count

\* What is stored while job j has come to its place.
StoredBy(j) ==
  CASE j.op = "save" /\ j.pc \in {"stale", "index"} -> ToSet(index) \cup {j.key}
    [] j.op = "remove" /\ j.pc = "index" -> ToSet(index) \ {j.key}
    [] j.op = "save" /\ j.pc = "evict" -> ToSet(j.list) \cup j.todo
    [] j.pc = "write" \/ Checks(j) -> ToSet(j.list)
    [] j.op = "clear" /\ j.pc = "evict" -> j.todo
    [] j.op = "clear" /\ j.pc = "drop" -> {}
    [] OTHER -> ToSet(index)

TidyBut(j) ==
  /\ Stored = StoredBy(j)
  /\ \A k \in Keys, r \in Revs, x \in 1..MaxChunks :
       chunk[k][r][x] # None <=> Named(k, r, x) \/ Spare(j, k, r, x)
  /\ j.pc \in {"chunks", "manifest"} => j.old = LayoutOf(j.key)
  /\ Checks(j) /\ ~j.changed => j.list = index

Serves(j) ==
  /\ Shaped(j) /\ Renews(j) /\ Lists(j)
  /\ faults = 0 => TidyBut(j)

Inv ==
  /\ TypeOK /\ Forms /\ Committed /\ Indexed /\ Ordered
  /\ IF queue = <<>> THEN faults = 0 => Tidy ELSE Serves(queue[1])

\* The variables other than the queue have their types.
Stores ==
  /\ chunk \in [Keys -> [Revs -> [1..MaxChunks -> Message \cup {None}]]]
  /\ manifest \in [Keys -> Manifest \cup {None}]
  /\ index \in Seq(Keys) /\ Len(index) <= MaxSessions /\ IsInjective(index)
  /\ faults \in 0..MaxFaults
  /\ saved \in [Keys -> Messages]
  /\ kept \subseteq Keys /\ listed \subseteq Keys /\ misread \in BOOLEAN

-----------------------------------------------------------------------------
(* Messages and lists *)

\* What the messages of a session are.
LEMMA MessagesAre ==
  ASSUME NEW q
  PROVE  q \in Messages <=> q \in Seq(Message) /\ Len(q) <= MaxChunks
<1>1. MaxChunks \in Nat
  BY BoundsAssumption
<1>2. q \in Messages => q \in Seq(Message) /\ Len(q) <= MaxChunks
  <2> SUFFICES ASSUME q \in Messages PROVE q \in Seq(Message) /\ Len(q) <= MaxChunks
    OBVIOUS
  <2>1. PICK n \in 0..MaxChunks : q \in [1..n -> Message]
    BY DEF Messages
  <2>2. n \in Nat /\ n <= MaxChunks
    BY <1>1
  <2> QED BY <2>1, <2>2
<1>3. q \in Seq(Message) /\ Len(q) <= MaxChunks => q \in Messages
  <2> SUFFICES ASSUME q \in Seq(Message), Len(q) <= MaxChunks PROVE q \in Messages
    OBVIOUS
  <2>1. q \in [1..Len(q) -> Message] /\ Len(q) \in 0..MaxChunks
    BY <1>1
  <2> QED BY <2>1 DEF Messages
<1> QED BY <1>2, <1>3

\* The elements of a sequence are in its set.
LEMMA ToSetHas ==
  ASSUME NEW T, NEW s \in Seq(T), NEW i \in 1..Len(s)
  PROVE  s[i] \in ToSet(s)
<1>1. DOMAIN s = 1..Len(s)
  OBVIOUS
<1> QED BY <1>1 DEF ToSet

\* The index without a session.
LEMMA WithoutIs ==
  ASSUME NEW l \in Seq(Keys), NEW k, IsInjective(l)
  PROVE  /\ Without(l, k) \in Seq(Keys)
         /\ IsInjective(Without(l, k))
         /\ Len(Without(l, k)) <= Len(l)
         /\ ToSet(Without(l, k)) = ToSet(l) \ {k}
<1> DEFINE S == {p \in DOMAIN l : l[p] # k}
<1>1. S \in SUBSET (DOMAIN l)
  OBVIOUS
<1>2. Without(l, k) = Sift(l, S)
  BY DEF Without
<1>3. {l[p] : p \in S} = ToSet(l) \ {k}
  BY DEF ToSet
<1> HIDE DEF S
<1>4. Sift(l, S) \in Seq(Keys) /\ Len(Sift(l, S)) <= Len(l)
  BY <1>1, SiftIs
<1>5. /\ {Sift(l, S)[p] : p \in DOMAIN Sift(l, S)} = {l[p] : p \in S}
      /\ IsInjective(Sift(l, S))
  <2>1. \A i, j \in DOMAIN l : l[i] = l[j] => i = j
    BY DEF IsInjective
  <2>2. \A i, j \in DOMAIN Sift(l, S) : Sift(l, S)[i] = Sift(l, S)[j] => i = j
    BY <1>1, <2>1, SiftSet
  <2>3. {Sift(l, S)[p] : p \in DOMAIN Sift(l, S)} = {l[p] : p \in S}
    BY <1>1, SiftSet
  <2> QED BY <2>2, <2>3 DEF IsInjective
<1> QED BY <1>2, <1>3, <1>4, <1>5 DEF ToSet

\* A session put in front of the others; what is cut off is told apart.
LEMMA InsertIs ==
  ASSUME NEW j \in Job, NEW l \in Seq(Keys), IsInjective(l), j.key \in Keys
  PROVE  LET v == Insert(j, l) IN
         /\ v \in Job
         /\ v.id = j.id /\ v.op = j.op /\ v.key = j.key /\ v.items = j.items
         /\ v.old = j.old /\ v.changed = j.changed
         /\ v.pc \in {"evict", "write"} /\ (v.pc = "write" => v.todo = {})
         /\ IsInjective(v.list) /\ Len(v.list) <= MaxSessions
         /\ j.key \in ToSet(v.list) /\ j.key \notin v.todo
         /\ ToSet(v.list) \cup v.todo = ToSet(l) \cup {j.key}
         /\ v.todo \cap ToSet(v.list) = {}
<1> DEFINE rest == Without(l, j.key)
           all == <<j.key>> \o rest
           gone == ToSet(all) \ ToSet(Cut(all))
           v == Insert(j, l)
<1>1. /\ rest \in Seq(Keys) /\ IsInjective(rest)
      /\ ToSet(rest) = ToSet(l) \ {j.key}
  BY WithoutIs
<1> HIDE DEF rest
<1>2. /\ all \in Seq(Keys) /\ Len(all) = Len(rest) + 1 /\ Len(rest) \in Nat
      /\ \A i \in 1..Len(all) : all[i] = IF i = 1 THEN j.key ELSE rest[i - 1]
  BY <1>1
<1>3. j.key \notin ToSet(rest)
  BY <1>1
<1>4. IsInjective(all)
  <2> SUFFICES ASSUME NEW a \in 1..Len(all), NEW b \in 1..Len(all), all[a] = all[b]
               PROVE  a = b
    BY <1>2 DEF IsInjective
  <2>1. \A i \in 1..Len(rest) : rest[i] # j.key
    BY <1>1, <1>3 DEF ToSet
  <2>2. \A i \in 1..Len(all) : i # 1 => i - 1 \in 1..Len(rest)
    BY <1>2
  <2>3. \A i, m \in 1..Len(rest) : rest[i] = rest[m] => i = m
    BY <1>1 DEF IsInjective
  <2> HIDE DEF all
  <2>4. CASE a = 1 \/ b = 1
    BY <1>2, <2>1, <2>2, <2>4
  <2>5. CASE a # 1 /\ b # 1
    <3>1. a - 1 \in 1..Len(rest) /\ b - 1 \in 1..Len(rest) /\ rest[a - 1] = rest[b - 1]
      BY <1>2, <2>2, <2>5
    <3>2. a - 1 = b - 1
      BY <2>3, <3>1
    <3>3. a \in Nat /\ b \in Nat
      BY <1>2
    <3> QED BY <3>2, <3>3
  <2> QED BY <2>4, <2>5
<1>5. ToSet(all) = ToSet(l) \cup {j.key}
  <2>1. ToSet(all) = ToSet(rest) \cup {j.key}
    <3>1. ASSUME NEW y \in ToSet(all) PROVE y \in ToSet(rest) \cup {j.key}
      <4>1. PICK i \in 1..Len(all) : y = all[i]
        BY <1>2 DEF ToSet
      <4>2. i # 1 => i - 1 \in 1..Len(rest)
        BY <1>2
      <4>3. y = IF i = 1 THEN j.key ELSE rest[i - 1]
        BY <1>2, <4>1
      <4> QED BY <1>1, <4>2, <4>3 DEF ToSet
    <3>2. ASSUME NEW y \in ToSet(rest) PROVE y \in ToSet(all)
      <4>1. PICK i \in 1..Len(rest) : y = rest[i]
        BY <1>1 DEF ToSet
      <4>2. i + 1 \in 1..Len(all) /\ i + 1 # 1 /\ i + 1 - 1 = i
        BY <1>2
      <4>3. all[i + 1] = rest[i]
        BY <1>2, <4>2
      <4>4. all[i + 1] \in ToSet(all)
        BY <1>2, <4>2, ToSetHas
      <4> QED BY <4>1, <4>3, <4>4
    <3>3. j.key \in ToSet(all)
      <4>1. 1 \in 1..Len(all) /\ all[1] = j.key
        BY <1>2
      <4>2. all[1] \in ToSet(all)
        BY <1>2, <4>1, ToSetHas
      <4> QED BY <4>1, <4>2
    <3> QED BY <3>1, <3>2, <3>3
  <2> QED BY <1>1, <2>1
<1> HIDE DEF all
<1>6. /\ Cut(all) \in Seq(Keys) /\ IsInjective(Cut(all)) /\ Len(Cut(all)) <= MaxSessions
      /\ ToSet(Cut(all)) \subseteq ToSet(all)
      /\ j.key \in ToSet(Cut(all))
  <2>1. MaxSessions \in Nat /\ MaxSessions >= 1
    BY BoundsAssumption
  <2>2. /\ Len(Cut(all)) \in 1..Len(all) /\ Len(Cut(all)) <= MaxSessions
        /\ Cut(all) \in Seq(Keys)
        /\ \A i \in 1..Len(Cut(all)) : Cut(all)[i] = all[i]
    BY <1>2, <2>1 DEF Cut
  <2> DEFINE cut == Cut(all)
  <2> HIDE DEF cut
  <2>3. IsInjective(cut)
    <3>1. DOMAIN cut = 1..Len(cut) /\ DOMAIN all = 1..Len(all)
      BY <1>2, <2>2 DEF cut
    <3>2. 1..Len(cut) \subseteq 1..Len(all)
      BY <1>2, <2>2 DEF cut
    <3>3. \A a, b \in DOMAIN cut : cut[a] = cut[b] => a = b
      BY <3>1, <3>2, <1>4, <2>2 DEF IsInjective, cut
    <3> QED BY <3>3 DEF IsInjective
  <2>4. ToSet(cut) \subseteq ToSet(all)
    <3>1. DOMAIN cut = 1..Len(cut) /\ DOMAIN all = 1..Len(all)
      BY <1>2, <2>2 DEF cut
    <3>2. 1..Len(cut) \subseteq 1..Len(all)
      BY <1>2, <2>2 DEF cut
    <3> QED BY <3>1, <3>2, <2>2 DEF ToSet, cut
  <2>5. 1 \in 1..Len(Cut(all)) /\ Cut(all)[1] = j.key
    BY <1>2, <2>2
  <2>6. j.key \in ToSet(Cut(all))
    BY <2>2, <2>5 DEF ToSet
  <2> QED BY <2>2, <2>3, <2>4, <2>6 DEF cut
<1>7. gone \subseteq Keys
  BY <1>2 DEF ToSet
<1>8. v = [j EXCEPT !.list = Cut(all), !.todo = gone,
                    !.pc = IF gone = {} THEN "write" ELSE "evict"]
  BY DEF Insert, all, rest
<1> HIDE DEF v, gone
<1>9. /\ v \in Job /\ v.id = j.id /\ v.op = j.op /\ v.key = j.key /\ v.items = j.items
      /\ v.old = j.old /\ v.changed = j.changed
      /\ v.list = Cut(all) /\ v.todo = gone
      /\ v.pc = IF gone = {} THEN "write" ELSE "evict"
  BY <1>6, <1>7, <1>8 DEF Job
<1> QED BY <1>5, <1>6, <1>9 DEF v, gone

-----------------------------------------------------------------------------
(* What is read *)

\* The chunks that are there, of those that are named.
LEMMA PresentIs ==
  ASSUME NEW n \in Nat, NEW named \in [1..n -> Message \cup {None}]
  PROVE  LET present == Sift(named, {x \in DOMAIN named : named[x] # None}) IN
         /\ present \in Seq(Message)
         /\ Len(present) <= n
         /\ (\A x \in 1..n : named[x] # None) => present = named
<1> DEFINE S == {x \in DOMAIN named : named[x] # None}
           present == Sift(named, S)
           T == Message \cup {None}
<1>1. named \in Seq(T) /\ Len(named) = n /\ DOMAIN named = 1..n
  OBVIOUS
<1>2. S \in SUBSET (DOMAIN named)
  OBVIOUS
<1>3. (\A x \in 1..n : named[x] # None) => S = DOMAIN named
  BY <1>1
<1>4. \A p \in S : named[p] \in Message
  BY <1>1
<1> HIDE DEF S, T
<1>5. present \in Seq(T) /\ Len(present) <= n
  BY <1>1, <1>2, SiftIs
<1>6. {present[k] : k \in DOMAIN present} = {named[p] : p \in S}
  BY <1>1, <1>2, SiftSet
<1>7. Sift(named, DOMAIN named) = named
  BY <1>1, SiftAll
<1>8. S = DOMAIN named => present = named
  BY <1>7
<1> HIDE DEF present
<1>9. \A k \in DOMAIN present : present[k] \in Message
  <2> TAKE k \in DOMAIN present
  <2>1. present[k] \in {named[p] : p \in S}
    BY <1>6
  <2> QED BY <2>1, <1>4
<1>10. present \in Seq(Message)
  BY <1>5, <1>9, IsASeq
<1> QED BY <1>3, <1>5, <1>8, <1>10 DEF present, S

\* What a manifest m and the chunks g of a session make.
Reading(m, g) ==
  LET named == [x \in 1..m.count |-> g[m.rev][x]]
  IN  m.inline \o Sift(named, {x \in DOMAIN named : named[x] # None})

\* The messages read have their type; those of a whole form are all there.
LEMMA ReadingIs ==
  ASSUME NEW m \in Manifest, NEW g \in [Revs -> [1..MaxChunks -> Message \cup {None}]],
         m.inline = <<>> \/ m.count = 0
  PROVE  /\ Reading(m, g) \in Messages
         /\ (\A x \in 1..m.count : g[m.rev][x] # None) =>
              Reading(m, g) = IF m.count = 0 THEN m.inline
                              ELSE [x \in 1..m.count |-> g[m.rev][x]]
<1> DEFINE n == m.count
           inline == m.inline
           named == [x \in 1..n |-> g[m.rev][x]]
           present == Sift(named, {x \in DOMAIN named : named[x] # None})
<1>1. /\ n \in 0..MaxChunks /\ inline \in Messages /\ m.rev \in Revs
      /\ inline = <<>> \/ n = 0
  BY DEF Manifest
<1>2. n \in Nat /\ n <= MaxChunks /\ MaxChunks \in Nat
  BY <1>1, BoundsAssumption
<1>3. g[m.rev] \in [1..MaxChunks -> Message \cup {None}]
  BY <1>1
<1>4. named \in [1..n -> Message \cup {None}]
  BY <1>2, <1>3
<1>5. Reading(m, g) = inline \o present
  BY DEF Reading
<1>6. /\ present \in Seq(Message) /\ Len(present) <= n
      /\ (\A x \in 1..n : named[x] # None) => present = named
  BY <1>2, <1>4, PresentIs
<1>7. inline \in Seq(Message) /\ Len(inline) <= MaxChunks
  BY <1>1, MessagesAre
<1>8. (\A x \in 1..n : g[m.rev][x] # None) => \A x \in 1..n : named[x] # None
  OBVIOUS
<1> HIDE DEF n, inline, named, present
<1>9. CASE inline = <<>>
  <2>1. inline \o present = present
    BY <1>6, <1>9
  <2>2. present \in Messages
    BY <1>2, <1>6, MessagesAre
  <2>3. n = 0 => present = <<>>
    BY <1>6
  <2> QED BY <2>1, <2>2, <2>3, <1>5, <1>6, <1>8, <1>9 DEF n, inline, named
<1>10. CASE n = 0
  <2>1. present = <<>>
    BY <1>6, <1>10
  <2>2. inline \o present = inline
    BY <2>1, <1>7
  <2> QED BY <2>2, <1>1, <1>5, <1>10 DEF n, inline
<1> QED BY <1>1, <1>9, <1>10

\* The messages of a session have their type.
LEMMA ReadIs ==
  ASSUME Stores, Forms, NEW k \in Keys
  PROVE  /\ Read(k) \in Messages
         /\ manifest[k] # None => Read(k) = Reading(manifest[k], chunk[k])
         /\ Whole(k) => Read(k) = IF manifest[k].count = 0 THEN manifest[k].inline
                                  ELSE [x \in 1..manifest[k].count |->
                                          chunk[k][manifest[k].rev][x]]
<1>1. CASE manifest[k] = None
  <2>1. Read(k) = <<>> /\ ~Whole(k)
    BY <1>1 DEF Read, Whole
  <2>2. <<>> \in Seq(Message) /\ Len(<<>>) <= MaxChunks
    BY BoundsAssumption
  <2> QED BY <1>1, <2>1, <2>2, MessagesAre
<1>2. CASE manifest[k] # None
  <2>1. Read(k) = Reading(manifest[k], chunk[k])
    BY <1>2 DEF Read, Reading
  <2>2. /\ manifest[k] \in Manifest
        /\ chunk[k] \in [Revs -> [1..MaxChunks -> Message \cup {None}]]
        /\ manifest[k].inline = <<>> \/ manifest[k].count = 0
    BY <1>2 DEF Stores, Forms
  <2> QED BY <2>1, <2>2, ReadingIs DEF Whole
<1> QED BY <1>1, <1>2

\* A session whose manifest and named chunks stay is read as before.
LEMMA SameSession ==
  ASSUME Stores, NEW k \in Keys, manifest'[k] = manifest[k],
         manifest[k] # None => \A x \in 1..manifest[k].count :
           chunk'[k][manifest[k].rev][x] = chunk[k][manifest[k].rev][x]
  PROVE  Read(k)' = Read(k) /\ Whole(k)' = Whole(k)
<1>1. CASE manifest[k] = None
  BY <1>1 DEF Read, Whole
<1>2. CASE manifest[k] # None
  <2> DEFINE old == [x \in 1..manifest[k].count |-> chunk[k][manifest[k].rev][x]]
             new == [x \in 1..manifest'[k].count |-> chunk'[k][manifest'[k].rev][x]]
  <2>1. new = old
    BY <1>2
  <2>2. Read(k) = manifest[k].inline \o Sift(old, {x \in DOMAIN old : old[x] # None})
    BY <1>2 DEF Read
  <2>3. Read(k)' = manifest'[k].inline \o Sift(new, {x \in DOMAIN new : new[x] # None})
    BY <1>2 DEF Read
  <2> HIDE DEF old, new
  <2>4. Read(k)' = Read(k)
    BY <2>1, <2>2, <2>3
  <2>5. Whole(k)' = Whole(k)
    BY <1>2 DEF Whole
  <2> QED BY <2>4, <2>5
<1> QED BY <1>1, <1>2

\* The chunks of one revision are written or removed: the others stay.
LEMMA RechunkIs ==
  ASSUME Stores, NEW k \in Keys, NEW r \in Revs, NEW g,
         g \in [1..MaxChunks -> Message \cup {None}],
         chunk' = [chunk EXCEPT ![k][r] = g]
  PROVE  /\ chunk' \in [Keys -> [Revs -> [1..MaxChunks -> Message \cup {None}]]]
         /\ \A l \in Keys, s \in Revs, x \in 1..MaxChunks :
              chunk'[l][s][x] = IF l = k /\ s = r THEN g[x] ELSE chunk[l][s][x]
BY DEF Stores

\* Chunks that are removed are gone; the others stay.
LEMMA DropIs ==
  ASSUME Stores, NEW k \in Keys, NEW r \in Revs, NEW S, DropChunks(k, r, S)
  PROVE  /\ chunk' \in [Keys -> [Revs -> [1..MaxChunks -> Message \cup {None}]]]
         /\ \A l \in Keys, s \in Revs, x \in 1..MaxChunks :
              chunk'[l][s][x] = IF l = k /\ s = r /\ x \in S THEN None ELSE chunk[l][s][x]
<1> DEFINE g == [x \in 1..MaxChunks |-> IF x \in S THEN None ELSE chunk[k][r][x]]
<1>1. chunk' = [chunk EXCEPT ![k][r] = g]
  BY DEF DropChunks
<1>2. chunk[k][r] \in [1..MaxChunks -> Message \cup {None}]
  BY DEF Stores
<1>3. g \in [1..MaxChunks -> Message \cup {None}]
  BY <1>2
<1>4. \A x \in 1..MaxChunks : g[x] = IF x \in S THEN None ELSE chunk[k][r][x]
  OBVIOUS
<1> HIDE DEF g
<1>5. /\ chunk' \in [Keys -> [Revs -> [1..MaxChunks -> Message \cup {None}]]]
      /\ \A l \in Keys, s \in Revs, x \in 1..MaxChunks :
           chunk'[l][s][x] = IF l = k /\ s = r THEN g[x] ELSE chunk[l][s][x]
  BY <1>1, <1>3, RechunkIs
<1> QED BY <1>4, <1>5

-----------------------------------------------------------------------------
(* The queue *)

\* What holds whatever job has the lock.
Lasting == Stores /\ Forms /\ Committed /\ Indexed

\* The step stores nothing but forms of the first job's revision.
Aged ==
  \A k \in Keys : \/ manifest'[k] = manifest[k] \/ manifest'[k] = None
                  \/ manifest'[k].rev = queue[1].id

\* The state as the steps use it.
LEMMA InvIs ==
  ASSUME Inv
  PROVE  /\ Lasting /\ Ordered
         /\ queue \in Seq(Job) /\ calls \in 0..MaxCalls
         /\ calls \in Nat
         /\ queue # <<>> => Serves(queue[1]) /\ queue[1] \in Job /\ 1 \in DOMAIN queue
         /\ queue = <<>> => (faults = 0 => Tidy)
<1>1. queue \in Seq(Job)
  BY DEF Inv, TypeOK
<1>2. queue # <<>> => queue[1] \in Job /\ 1 \in DOMAIN queue
  BY <1>1
<1> QED BY <1>1, <1>2, BoundsAssumption DEF Inv, TypeOK, Lasting, Stores

\* The job at work is the first.
LEMMA HeadIs ==
  ASSUME Inv, NEW i, NEW pc, At(i, pc)
  PROVE  /\ i = 1 /\ queue # <<>> /\ 1 \in DOMAIN queue
         /\ queue[1] \in Job /\ queue[1].pc = pc /\ Serves(queue[1])
         /\ queue[1].id <= calls
<1>1. i = 1 /\ i \in DOMAIN queue /\ queue[i].pc = pc
  BY DEF At, Turn
<1>2. queue # <<>>
  BY <1>1
<1> QED BY <1>1, <1>2, InvIs DEF Ordered

\* A job that has waited takes the lock.
LEMMA Begins ==
  ASSUME NEW j \in Job, Waiting(j), \A k \in Keys : Before(k, j.id)',
         faults' = 0 => Tidy', Stores'
  PROVE  Serves(j)'
<1>1. /\ j.op \in {"save", "read", "forget", "remove", "clear"}
      /\ j.list = <<>> /\ ~j.changed
      /\ j.op = "save" => j.pc = "layout" /\ j.key \in Keys /\ j.items # <<>>
      /\ j.op = "remove" => j.pc = "remove"
      /\ j.op \in {"read", "forget", "clear"} => j.pc = "index"
  BY DEF Job, Waiting
<1>2. IsInjective(j.list) /\ Len(j.list) <= MaxSessions
  BY <1>1, BoundsAssumption DEF IsInjective
<1>3. Shaped(j)
  BY <1>1, <1>2 DEF Shaped, Places, Rewrites, Checks
<1>4. Renews(j)'
  BY <1>1 DEF Renews, Rewrites
<1>5. Lists(j)'
  BY <1>1 DEF Lists, Checks
<1>6. ASSUME faults' = 0 PROVE TidyBut(j)'
  <2>1. StoredBy(j)' = ToSet(index)'
    BY <1>1 DEF StoredBy, Checks
  <2>2. \A k, r, x : ~Spare(j, k, r, x)
    BY <1>1 DEF Spare
  <2> QED BY <1>1, <1>6, <2>1, <2>2 DEF TidyBut, Tidy, Checks
<1>7. Shaped(j)'
  BY <1>3 DEF Shaped, Checks, Rewrites
<1> QED BY <1>4, <1>5, <1>6, <1>7 DEF Serves

\* The first job goes on to its next place.
LEMMA GoesOn ==
  ASSUME Inv, queue # <<>>, NEW j \in Job, j.id = queue[1].id, Continue(1, j),
         calls' = calls, Lasting', Aged, Serves(j)'
  PROVE  Inv'
<1>1. /\ queue \in Seq(Job) /\ calls \in 0..MaxCalls /\ Ordered /\ Stores
      /\ 1 \in DOMAIN queue /\ queue[1] \in Job
  BY InvIs DEF Lasting
<1>2. /\ queue' \in Seq(Job) /\ DOMAIN queue' = DOMAIN queue /\ queue'[1] = j
      /\ \A m \in DOMAIN queue : m # 1 => queue'[m] = queue[m]
      /\ queue' # <<>>
  BY <1>1 DEF Continue
<1>3. \A m \in DOMAIN queue : queue'[m].id = queue[m].id
  BY <1>2
<1>4. \A m \in DOMAIN queue : m \in Nat /\ queue[m] \in Job /\ queue[m].id \in Nat
  <2>1. \A h \in Job : h.id \in Nat
    BY BoundsAssumption DEF Job
  <2>2. \A m \in DOMAIN queue : m \in Nat /\ queue[m] \in Job
    BY <1>1
  <2> QED BY <2>1, <2>2
<1>5. ASSUME NEW k \in Keys, NEW n \in Nat, Before(k, n), queue[1].id < n
      PROVE  Before(k, n)'
  BY <1>1, <1>5 DEF Before, Aged
<1>6. queue[1].id <= calls /\ calls \in Nat
  BY <1>1, BoundsAssumption DEF Ordered
<1>7. Ordered'
  <2>1. \A m \in DOMAIN queue' : queue'[m].id <= calls'
    BY <1>1, <1>2, <1>3 DEF Ordered
  <2>2. \A m, n \in DOMAIN queue' : m < n => queue'[m].id < queue'[n].id
    BY <1>1, <1>2, <1>3 DEF Ordered
  <2>3. \A m \in DOMAIN queue' : m > 1 => Waiting(queue'[m])
    BY <1>1, <1>2, <1>4 DEF Ordered
  <2>4. \A k \in Keys : Before(k, calls + 1)'
    <3> TAKE k \in Keys
    <3>1. Before(k, calls + 1) /\ queue[1].id < calls + 1 /\ calls + 1 \in Nat
      BY <1>1, <1>4, <1>6 DEF Ordered
    <3> QED BY <3>1, <1>5 DEF Before
  <2>5. \A m \in DOMAIN queue', k \in Keys : m > 1 => Before(k, queue[m].id)'
    <3> SUFFICES ASSUME NEW m \in DOMAIN queue, NEW k \in Keys, m > 1
                 PROVE  Before(k, queue[m].id)'
      BY <1>2
    <3>1. Before(k, queue[m].id) /\ queue[1].id < queue[m].id
      BY <1>1, <1>4 DEF Ordered
    <3>2. PICK n \in Nat : n = queue[m].id
      BY <1>4
    <3>3. Before(k, n)'
      BY <3>1, <3>2, <1>5
    <3>4. queue'[m].id = n
      BY <1>3, <3>2
    <3> QED BY <3>3, <3>4 DEF Before
  <2> QED BY <2>1, <2>2, <2>3, <2>4, <2>5 DEF Ordered, Waiting
<1>8. TypeOK'
  BY <1>1, <1>2 DEF Lasting, Stores, TypeOK
<1> QED BY <1>2, <1>7, <1>8 DEF Inv, Lasting

\* The first job leaves the queue, and the next one begins.
LEMMA Ends ==
  ASSUME Inv, queue # <<>>, Done(1), calls' = calls, Lasting', Aged,
         faults' = 0 => Tidy'
  PROVE  Inv'
<1>1. /\ queue \in Seq(Job) /\ calls \in 0..MaxCalls /\ Ordered /\ Stores
      /\ 1 \in DOMAIN queue /\ queue[1] \in Job
  BY InvIs DEF Lasting
<1>2. /\ queue' \in Seq(Job) /\ DOMAIN queue = 1..Len(queue) /\ Len(queue) \in Nat
      /\ Len(queue) >= 1
      /\ DOMAIN queue' = 1..(Len(queue) - 1)
      /\ \A m \in 1..(Len(queue) - 1) : queue'[m] = queue[m + 1]
  <2>1. queue' = SubSeq(queue, 1, 0) \o SubSeq(queue, 2, Len(queue))
    BY DEF Done, RemoveAt
  <2>2. Len(queue) \in Nat /\ Len(queue) >= 1 /\ DOMAIN queue = 1..Len(queue)
    BY <1>1
  <2>3. SubSeq(queue, 1, 0) = <<>>
    BY <1>1
  <2>4. /\ SubSeq(queue, 2, Len(queue)) \in Seq(Job)
        /\ Len(SubSeq(queue, 2, Len(queue))) = Len(queue) - 1
        /\ \A m \in 1..(Len(queue) - 1) : SubSeq(queue, 2, Len(queue))[m] = queue[m + 1]
    BY <1>1, <2>2
  <2>5. queue' = SubSeq(queue, 2, Len(queue))
    BY <2>1, <2>3, <2>4
  <2> QED BY <2>2, <2>4, <2>5
<1>3. \A m \in DOMAIN queue : m \in Nat /\ queue[m] \in Job /\ queue[m].id \in Nat
  <2>1. \A h \in Job : h.id \in Nat
    BY BoundsAssumption DEF Job
  <2>2. \A m \in DOMAIN queue : m \in Nat /\ queue[m] \in Job
    BY <1>1
  <2> QED BY <2>1, <2>2
<1>4. ASSUME NEW k \in Keys, NEW n \in Nat, Before(k, n), queue[1].id < n
      PROVE  Before(k, n)'
  BY <1>1, <1>4 DEF Before, Aged
<1>5. ASSUME NEW m \in DOMAIN queue'
      PROVE  /\ m + 1 \in DOMAIN queue /\ m + 1 > 1 /\ m \in Nat
             /\ queue'[m] = queue[m + 1] /\ queue'[m] \in Job
             /\ queue'[m].id \in Nat /\ queue[1].id < queue'[m].id
             /\ queue'[m].id <= calls /\ Waiting(queue'[m])
             /\ \A k \in Keys : Before(k, queue'[m].id)
  <2>1. m + 1 \in DOMAIN queue /\ m + 1 > 1 /\ m \in Nat /\ queue'[m] = queue[m + 1]
    BY <1>2
  <2>2. /\ queue[1].id < queue[m + 1].id /\ queue[m + 1].id <= calls
        /\ Waiting(queue[m + 1]) /\ \A k \in Keys : Before(k, queue[m + 1].id)
    BY <1>1, <2>1 DEF Ordered
  <2> QED BY <1>3, <2>1, <2>2
<1>6. ASSUME NEW m \in DOMAIN queue', NEW k \in Keys PROVE Before(k, queue[m].id)'
  <2>1. PICK n \in Nat : n = queue'[m].id
    BY <1>5
  <2>2. Before(k, n) /\ queue[1].id < n
    BY <1>5, <2>1
  <2>3. Before(k, n)'
    BY <2>2, <1>4
  <2> QED BY <2>1, <2>3 DEF Before
<1>7. Ordered'
  <2>1. \A m, n \in DOMAIN queue' : m < n => queue'[m].id < queue'[n].id
    <3> SUFFICES ASSUME NEW m \in DOMAIN queue', NEW n \in DOMAIN queue', m < n
                 PROVE  queue'[m].id < queue'[n].id
      OBVIOUS
    <3>1. m + 1 \in DOMAIN queue /\ n + 1 \in DOMAIN queue /\ m + 1 < n + 1
      BY <1>5
    <3> QED BY <3>1, <1>1, <1>5 DEF Ordered
  <2>2. \A k \in Keys : Before(k, calls + 1)'
    <3> TAKE k \in Keys
    <3>1. Before(k, calls + 1) /\ queue[1].id < calls + 1 /\ calls + 1 \in Nat
      BY <1>1, <1>3, BoundsAssumption DEF Ordered
    <3>2. PICK n \in Nat : n = calls + 1
      BY <3>1
    <3>3. Before(k, n)'
      BY <3>1, <3>2, <1>4
    <3> QED BY <3>2, <3>3 DEF Before
  <2> QED BY <2>1, <2>2, <1>5, <1>6 DEF Ordered
<1>8. TypeOK'
  BY <1>1, <1>2 DEF Lasting, Stores, TypeOK
<1>9. ASSUME queue' # <<>> PROVE Serves(queue[1])'
  <2>1. 1 \in DOMAIN queue'
    BY <1>2, <1>9
  <2>2. PICK j \in Job : j = queue'[1]
    BY <1>5, <2>1
  <2>3. Waiting(j) /\ \A k \in Keys : Before(k, j.id)'
    BY <1>5, <1>6, <2>1, <2>2
  <2>4. Serves(j)'
    BY <2>3, Begins DEF Lasting
  <2>5. Serves(queue[1])' = Serves(j)'
    BY <2>2
  <2> QED BY <2>4, <2>5
<1> QED BY <1>7, <1>8, <1>9 DEF Inv, Lasting

\* A call joins the queue, and begins if it is alone.
LEMMA Joins ==
  ASSUME Inv, NEW j \in Job, j.id = calls + 1, Waiting(j), Call(j)
  PROVE  Inv'
<1>1. /\ queue \in Seq(Job) /\ calls \in 0..MaxCalls /\ Ordered /\ Stores /\ Lasting
      /\ calls \in Nat /\ MaxCalls \in Nat
  BY InvIs, BoundsAssumption DEF Lasting
<1>2. /\ calls' = calls + 1 /\ calls' \in 0..MaxCalls
      /\ UNCHANGED <<chunk, manifest, index, faults, misread, saved, kept, listed>>
  BY <1>1 DEF Call, ghosts
<1>3. /\ queue' \in Seq(Job) /\ Len(queue) \in Nat /\ DOMAIN queue = 1..Len(queue)
      /\ DOMAIN queue' = 1..(Len(queue) + 1)
      /\ \A m \in 1..Len(queue) : queue'[m] = queue[m]
      /\ queue'[Len(queue) + 1] = j
  BY <1>1 DEF Call
<1>4. \A k \in Keys : \A n : Before(k, n)' = Before(k, n)
  BY <1>2 DEF Before
<1>5. \A m \in DOMAIN queue : queue[m] \in Job /\ queue[m].id \in Nat /\ queue[m].id <= calls
  <2>1. \A h \in Job : h.id \in Nat
    BY BoundsAssumption DEF Job
  <2>2. \A m \in DOMAIN queue : queue[m] \in Job
    BY <1>1
  <2> QED BY <1>1, <2>1, <2>2 DEF Ordered
<1>6. ASSUME NEW k \in Keys PROVE Before(k, j.id)'
  BY <1>1, <1>2 DEF Ordered, Before
<1>7. ASSUME NEW m \in DOMAIN queue'
      PROVE  /\ m \in Nat
             /\ \/ m \in DOMAIN queue /\ queue'[m] = queue[m]
                \/ m = Len(queue) + 1 /\ queue'[m] = j /\ m \notin DOMAIN queue
  BY <1>3
<1>8. Ordered'
  <2>1. \A m \in DOMAIN queue' : queue'[m].id <= calls'
    BY <1>1, <1>2, <1>5, <1>7
  <2>2. \A m, n \in DOMAIN queue' : m < n => queue'[m].id < queue'[n].id
    <3> SUFFICES ASSUME NEW m \in DOMAIN queue', NEW n \in DOMAIN queue', m < n
                 PROVE  queue'[m].id < queue'[n].id
      OBVIOUS
    <3>1. m \in DOMAIN queue /\ queue'[m] = queue[m]
      BY <1>3, <1>7
    <3>2. CASE n \in DOMAIN queue /\ queue'[n] = queue[n]
      BY <1>1, <3>1, <3>2 DEF Ordered
    <3>3. CASE queue'[n] = j
      BY <1>1, <1>5, <3>1, <3>3
    <3> QED BY <1>7, <3>2, <3>3
  <2>3. \A m \in DOMAIN queue' : m > 1 => Waiting(queue'[m])
    BY <1>1, <1>7 DEF Ordered
  <2>4. \A k \in Keys : Before(k, calls + 1)'
    <3> TAKE k \in Keys
    <3>1. manifest'[k] # None => manifest'[k].rev < calls + 1 /\ manifest'[k].rev \in Nat
      <4>1. \A h \in Manifest : h.rev \in Nat
        BY BoundsAssumption DEF Manifest, Revs
      <4> QED BY <1>1, <1>2, <4>1 DEF Ordered, Before, Stores
    <3> QED BY <1>1, <1>2, <3>1 DEF Before
  <2>5. \A m \in DOMAIN queue', k \in Keys : m > 1 => Before(k, queue[m].id)'
    <3> SUFFICES ASSUME NEW m \in DOMAIN queue', NEW k \in Keys, m > 1
                 PROVE  Before(k, queue[m].id)'
      OBVIOUS
    <3>1. CASE m \in DOMAIN queue /\ queue'[m] = queue[m]
      BY <1>1, <1>2, <3>1 DEF Ordered, Before
    <3>2. CASE queue'[m] = j
      BY <1>6, <3>2 DEF Before
    <3> QED BY <1>7, <3>1, <3>2
  <2> QED BY <2>1, <2>2, <2>3, <2>4, <2>5 DEF Ordered
<1>9. Lasting' /\ TypeOK'
  <2>1. Stores' /\ Forms'
    BY <1>1, <1>2 DEF Lasting, Stores, Forms
  <2>2. Indexed'
    BY <1>1, <1>2 DEF Lasting, Indexed, ListedStay
  <2>3. Committed'
    BY <1>1, <1>2 DEF Lasting, Committed, Whole, Read
  <2> QED BY <1>2, <1>3, <2>1, <2>2, <2>3 DEF Lasting, Stores, TypeOK
<1>10. queue' # <<>>
  BY <1>3
<1>11. CASE queue = <<>>
  <2>1. queue'[1] = j
    BY <1>3, <1>11
  <2>2. faults' = 0 => Tidy'
    <3>1. faults = 0 => Tidy
      BY <1>11, InvIs
    <3> QED BY <3>1, <1>2 DEF Tidy, Stored, Named, LayoutOf
  <2>3. Serves(j)'
    BY <1>6, <1>9, <2>2, Begins DEF Lasting
  <2>4. Serves(queue[1])' = Serves(j)'
    BY <2>1
  <2> QED BY <1>8, <1>9, <1>10, <2>3, <2>4 DEF Inv, Lasting
<1>12. CASE queue # <<>>
  <2>1. queue'[1] = queue[1] /\ Serves(queue[1])
    BY <1>3, <1>12, InvIs
  <2>2. PICK h : h = queue[1]
    OBVIOUS
  <2>3. Serves(h)'
    <3>1. Serves(h)
      BY <2>1, <2>2
    <3>2. Shaped(h)' /\ Renews(h)' /\ Lists(h)'
      BY <3>1, <1>2 DEF Serves, Shaped, Renews, Lists, Before, Checks, Rewrites
    <3>3. faults' = 0 => TidyBut(h)'
      BY <3>1, <1>2 DEF Serves, TidyBut, Stored, StoredBy, Checks, Named, Spare, LayoutOf
    <3> QED BY <3>2, <3>3 DEF Serves
  <2>4. Serves(queue[1])' = Serves(h)'
    BY <2>1, <2>2
  <2> QED BY <1>8, <1>9, <1>10, <2>3, <2>4 DEF Inv, Lasting
<1> QED BY <1>11, <1>12

-----------------------------------------------------------------------------
(* Steps that store nothing *)

\* Faults are counted.
LEMMA FaultIs ==
  ASSUME Stores, NEW bad \in BOOLEAN, Fault(bad)
  PROVE  /\ faults' \in 0..MaxFaults /\ (faults' = 0 => faults = 0 /\ ~bad)
         /\ bad => faults' # 0
<1>1. faults \in Nat /\ faults <= MaxFaults /\ MaxFaults \in Nat
  BY BoundsAssumption DEF Stores
<1> QED BY <1>1 DEF Fault

\* What the storage holds stays; an index may prove unreadable.
LEMMA Untouched ==
  ASSUME Lasting, UNCHANGED <<chunk, manifest, index, saved, kept, listed>>,
         faults' \in 0..MaxFaults, misread' \in BOOLEAN, misread => misread'
  PROVE  Lasting' /\ Aged
<1>1. Stores' /\ Forms'
  BY DEF Lasting, Stores, Forms
<1>2. Indexed'
  BY DEF Lasting, Indexed, ListedStay
<1>3. Committed'
  BY DEF Lasting, Committed, Whole, Read
<1> QED BY <1>1, <1>2, <1>3 DEF Lasting, Aged

\* A layout has its type.
LEMMA LayoutIs ==
  ASSUME Stores, NEW k \in Keys
  PROVE  LayoutOf(k) \in Layout /\ NoLayout \in Layout
<1>1. 0 \in Revs /\ 0 \in 0..MaxChunks
  BY BoundsAssumption DEF Revs
<1>2. manifest[k] # None => manifest[k].rev \in Revs /\ manifest[k].count \in 0..MaxChunks
  BY DEF Stores, Manifest
<1> QED BY <1>1, <1>2 DEF LayoutOf, NoLayout, Layout

\* The fields of a job, and what kinds of job come to each place.
LEMMA JobIs ==
  ASSUME NEW h \in Job, Shaped(h)
  PROVE  /\ h.id \in 1..MaxCalls /\ h.id \in Nat
         /\ h.op \in {"save", "read", "forget", "remove", "clear"}
         /\ h.key \in Keys \cup {None} /\ h.items \in Messages /\ h.old \in Layout
         /\ h.list \in Seq(Keys) /\ h.todo \subseteq Keys /\ h.changed \in BOOLEAN
         /\ h.pc = "layout" => h.op = "save"
         /\ h.pc \in {"chunks", "manifest", "stale"} => h.op \in {"save", "read", "forget"}
         /\ h.pc = "check" => h.op \in {"read", "forget"}
         /\ h.pc = "evict" => h.op \in {"save", "clear"}
         /\ h.pc = "write" => h.op # "clear"
         /\ h.pc = "remove" => h.op = "remove"
         /\ h.pc = "drop" => h.op = "clear"
<1>1. /\ h.id \in 1..MaxCalls
      /\ h.op \in {"save", "read", "forget", "remove", "clear"}
      /\ h.key \in Keys \cup {None} /\ h.items \in Messages /\ h.old \in Layout
      /\ h.list \in Seq(Keys) /\ h.todo \subseteq Keys /\ h.changed \in BOOLEAN
  BY DEF Job
<1>2. h.id \in Nat
  BY <1>1, BoundsAssumption
<1>3. h.pc \in Places(h.op)
  BY DEF Shaped
<1> QED BY <1>1, <1>2, <1>3 DEF Places

\* A save has read the layout before.
LEMMA ReadLayoutStep ==
  ASSUME Inv, NEW i, NEW bad \in BOOLEAN, ReadLayout(i, bad)
  PROVE  Inv'
<1>1. /\ i = 1 /\ queue # <<>> /\ queue[1] \in Job /\ queue[1].pc = "layout"
      /\ Serves(queue[1])
  BY HeadIs DEF ReadLayout
<1>2. PICK h \in Job : h = queue[1]
  BY <1>1
<1>3. /\ h.op = "save" /\ h.key \in Keys /\ h.items # <<>> /\ Shaped(h) /\ Before(h.key, h.id)
      /\ h.id \in Nat
  BY <1>1, <1>2, JobIs DEF Serves, Shaped, Renews
<1>4. Lasting /\ Stores
  BY InvIs DEF Lasting
<1>5. /\ faults' \in 0..MaxFaults /\ (faults' = 0 => faults = 0 /\ ~bad)
      /\ UNCHANGED <<chunk, manifest, index, calls, misread, saved, kept, listed>>
  BY <1>4, FaultIs DEF ReadLayout, ghosts
<1>6. Lasting' /\ Aged
  BY <1>4, <1>5, Untouched DEF Lasting, Stores
<1> DEFINE v == [h EXCEPT !.pc = "chunks", !.old = IF bad THEN NoLayout ELSE LayoutOf(h.key)]
<1>7. /\ v \in Job /\ v.id = h.id /\ v.op = h.op /\ v.pc = "chunks" /\ v.key = h.key
      /\ v.items = h.items /\ v.old = (IF bad THEN NoLayout ELSE LayoutOf(h.key))
      /\ v.list = h.list /\ v.todo = h.todo /\ v.changed = h.changed
  BY <1>3, <1>4, LayoutIs DEF Job
<1>8. Continue(1, v)
  BY <1>1, <1>2 DEF ReadLayout
<1> HIDE DEF v
<1>9. PICK j \in Job : j = v
  BY <1>7
<1>10. Shaped(j)'
  BY <1>3, <1>7, <1>9 DEF Shaped, Places, Rewrites, Checks
<1>11. Renews(j)'
  <2>1. j.old.count = 0 \/ j.old.rev < j.id
    BY <1>3, <1>7, <1>9 DEF LayoutOf, NoLayout, Before
  <2>2. Before(j.key, j.id)'
    BY <1>3, <1>5, <1>7, <1>9 DEF Before
  <2> QED BY <1>3, <1>7, <1>9, <2>1, <2>2 DEF Renews, Rewrites
<1>12. Lists(j)'
  BY <1>3, <1>7, <1>9 DEF Lists, Checks
<1>13. ASSUME faults' = 0 PROVE TidyBut(j)'
  <2>1. TidyBut(h) /\ ~bad
    BY <1>1, <1>2, <1>5, <1>13 DEF Serves
  <2>2. StoredBy(j)' = ToSet(index) /\ StoredBy(h) = ToSet(index)
    BY <1>1, <1>2, <1>3, <1>5, <1>7, <1>9 DEF StoredBy, Checks
  <2>3. \A k, r, x : ~Spare(j, k, r, x) /\ ~Spare(h, k, r, x)
    BY <1>1, <1>2, <1>7, <1>9 DEF Spare
  <2>4. j.old = LayoutOf(j.key)'
    BY <2>1, <1>5, <1>7, <1>9 DEF LayoutOf
  <2> QED BY <2>1, <2>2, <2>3, <2>4, <1>3, <1>5, <1>7, <1>9
          DEF TidyBut, Stored, Named, LayoutOf, Checks
<1>14. Serves(j)'
  BY <1>10, <1>11, <1>12, <1>13 DEF Serves
<1>15. Continue(1, j)
  BY <1>8, <1>9
<1> QED BY <1>1, <1>2, <1>5, <1>6, <1>7, <1>9, <1>14, <1>15, GoesOn

\* The set of a list of sessions.
LEMMA ToSetIs ==
  ASSUME NEW l \in Seq(Keys)
  PROVE  ToSet(l) \subseteq Keys /\ (l = <<>> <=> ToSet(l) = {})
<1>1. DOMAIN l = 1..Len(l) /\ \A i \in 1..Len(l) : l[i] \in Keys
  OBVIOUS
<1>2. l # <<>> => 1 \in 1..Len(l)
  OBVIOUS
<1>3. l = <<>> => DOMAIN l = {}
  OBVIOUS
<1> QED BY <1>1, <1>2, <1>3 DEF ToSet

\* The empty list.
LEMMA EmptyIs ==
  /\ <<>> \in Seq(Keys) /\ IsInjective(<<>>) /\ ToSet(<<>>) = {} /\ Len(<<>>) <= MaxSessions
<1>1. <<>> \in Seq(Keys) /\ Len(<<>>) = 0 /\ DOMAIN <<>> = {}
  OBVIOUS
<1>2. ToSet(<<>>) = {}
  BY <1>1, ToSetIs
<1>3. IsInjective(<<>>)
  BY <1>1 DEF IsInjective
<1> QED BY <1>1, <1>2, <1>3, BoundsAssumption

\* A job that saves comes to the index.
LEMMA InsertServes ==
  ASSUME Lasting, NEW h \in Job, Serves(h), h.op = "save", h.pc = "index",
         NEW l \in Seq(Keys), IsInjective(l), NEW j \in Job, j = Insert(h, l),
         ~misread' => ~misread /\ ToSet(l) = ToSet(index),
         faults' = 0 => faults = 0 /\ l = index,
         UNCHANGED <<chunk, manifest, index, saved, kept, listed>>
  PROVE  Serves(j)' /\ j.id = h.id
<1>1. /\ h.key \in Keys /\ h.items # <<>> /\ manifest[h.key] # None
  BY DEF Serves, Shaped, Lists
<1>2. /\ j.id = h.id /\ j.op = "save" /\ j.key = h.key /\ j.items = h.items
      /\ j.pc \in {"evict", "write"} /\ (j.pc = "write" => j.todo = {})
      /\ IsInjective(j.list) /\ Len(j.list) <= MaxSessions
      /\ j.key \in ToSet(j.list) /\ j.key \notin j.todo
      /\ ToSet(j.list) \cup j.todo = ToSet(l) \cup {j.key}
      /\ j.todo \cap ToSet(j.list) = {}
  BY <1>1, InsertIs
<1>3. Shaped(j)'
  BY <1>1, <1>2 DEF Shaped, Places, Rewrites, Checks
<1>4. Renews(j)'
  BY <1>2 DEF Renews, Rewrites
<1>5. Lists(j)'
  <2>1. ~misread' => listed' \subseteq ToSet(j.list) \cup j.todo
    BY <1>2 DEF Lasting, Indexed, ListedStay
  <2> QED BY <1>1, <1>2, <2>1 DEF Lists, Checks
<1>6. ASSUME faults' = 0 PROVE TidyBut(j)'
  <2>1. TidyBut(h)
    BY <1>6 DEF Serves
  <2>2. StoredBy(h) = ToSet(index) \cup {h.key}
    BY DEF StoredBy, Checks
  <2>3. StoredBy(j)' = ToSet(j.list) \cup j.todo
    BY <1>2 DEF StoredBy, Checks
  <2>4. \A k, r, x : ~Spare(j, k, r, x)' /\ ~Spare(h, k, r, x)
    BY <1>2 DEF Spare
  <2> QED BY <1>2, <1>6, <2>1, <2>2, <2>3, <2>4
          DEF TidyBut, Stored, Named, LayoutOf, Checks
<1> QED BY <1>2, <1>3, <1>4, <1>5, <1>6 DEF Serves

\* The index is read: what each operation makes of it.
LEMMA ReadIndexStep ==
  ASSUME Inv, NEW i, NEW bad \in BOOLEAN, ReadIndex(i, bad)
  PROVE  Inv'
<1>1. /\ i = 1 /\ queue # <<>> /\ queue[1] \in Job /\ queue[1].pc = "index"
      /\ Serves(queue[1])
  BY HeadIs DEF ReadIndex
<1>2. PICK h \in Job : h = queue[1]
  BY <1>1
<1>3. PICK l : l = IF bad THEN <<>> ELSE index
  OBVIOUS
<1>4. Lasting /\ Stores
  BY InvIs DEF Lasting
<1>5. /\ faults' \in 0..MaxFaults /\ (faults' = 0 => faults = 0 /\ ~bad)
      /\ UNCHANGED <<chunk, manifest, index, calls, saved, kept, listed>>
      /\ misread' = (misread \/ (bad /\ h.op \in {"save", "remove", "clear"} /\ index # <<>>))
  BY <1>1, <1>2, <1>4, FaultIs DEF ReadIndex, ghosts
<1>6. Lasting' /\ Aged
  BY <1>4, <1>5, Untouched DEF Lasting, Stores
<1>7. /\ l \in Seq(Keys) /\ IsInjective(l) /\ Len(l) <= MaxSessions
      /\ ToSet(l) \subseteq Keys /\ (l = <<>> <=> ToSet(l) = {})
      /\ faults' = 0 => l = index /\ faults = 0
      /\ l # <<>> => l = index
  BY <1>3, <1>4, <1>5, EmptyIs, ToSetIs DEF Stores
<1>8. h.op \in {"save", "remove", "clear"} /\ ~misread' => ~misread /\ ToSet(l) = ToSet(index)
  BY <1>3, <1>5, <1>7
<1>9. ~misread' => ~misread /\ listed \subseteq ToSet(index)
  BY <1>4, <1>5 DEF Lasting, Indexed, ListedStay
<1>10. Shaped(h) /\ h.op \in {"save", "read", "forget", "remove", "clear"}
  BY <1>1, <1>2, JobIs DEF Serves
<1>11. ASSUME NEW v, Continue(1, v), v \in Job, v.id = h.id,
              \A j \in Job : j = v => Serves(j)'
       PROVE  Inv'
  <2>1. PICK j \in Job : j = v
    BY <1>11
  <2>2. j.id = queue[1].id /\ Serves(j)' /\ Continue(1, j)
    BY <1>2, <1>11, <2>1
  <2> QED BY <1>1, <1>5, <1>6, <2>2, GoesOn
<1>12. CASE h.op = "save"
  <2> DEFINE v == Insert(h, l)
  <2>1. h.key \in Keys /\ Serves(h) /\ h.pc = "index"
    BY <1>1, <1>2, <1>10, <1>12 DEF Shaped
  <2>2. Continue(1, v)
    BY <1>1, <1>2, <1>3, <1>12 DEF ReadIndex
  <2>3. v \in Job /\ v.id = h.id
    BY <1>7, <2>1, InsertIs
  <2> HIDE DEF v
  <2>4. ASSUME NEW j \in Job, j = v PROVE Serves(j)'
    BY <1>4, <1>5, <1>7, <1>8, <1>12, <2>1, <2>4, InsertServes DEF v
  <2> QED BY <1>11, <2>2, <2>3, <2>4
<1>13. CASE h.op = "remove"
  <2> DEFINE v == [h EXCEPT !.list = Without(l, h.key), !.pc = "write"]
  <2>1. /\ Without(l, h.key) \in Seq(Keys) /\ IsInjective(Without(l, h.key))
        /\ Len(Without(l, h.key)) <= MaxSessions
        /\ ToSet(Without(l, h.key)) = ToSet(l) \ {h.key}
    <3>1. Len(Without(l, h.key)) <= Len(l) /\ Len(l) \in Nat
      BY <1>7, WithoutIs
    <3>2. Without(l, h.key) \in Seq(Keys)
      BY <1>7, WithoutIs
    <3>3. Len(Without(l, h.key)) \in Nat
      BY <3>2
    <3>4. Len(Without(l, h.key)) <= MaxSessions
      BY <3>1, <3>3, <1>7, BoundsAssumption
    <3> QED BY <3>2, <3>4, <1>7, WithoutIs
  <2>2. Continue(1, v)
    BY <1>1, <1>2, <1>3, <1>13 DEF ReadIndex
  <2>3. /\ v \in Job /\ v.id = h.id /\ v.op = "remove" /\ v.pc = "write" /\ v.key = h.key
        /\ v.list = Without(l, h.key) /\ v.todo = h.todo
    BY <2>1, <1>13 DEF Job
  <2>4. h.key \in Keys /\ h.key \notin listed
    BY <1>1, <1>2, <1>10, <1>13 DEF Serves, Shaped, Lists
  <2> HIDE DEF v
  <2>5. ASSUME NEW j \in Job, j = v PROVE Serves(j)'
    <3>1. Shaped(j)'
      BY <2>1, <2>3, <2>4, <2>5 DEF Shaped, Places, Rewrites, Checks
    <3>2. Renews(j)'
      BY <2>3, <2>5 DEF Renews, Rewrites
    <3>3. Lists(j)'
      BY <2>1, <2>3, <2>4, <2>5, <1>5, <1>8, <1>9, <1>13 DEF Lists, Checks
    <3>4. ASSUME faults' = 0 PROVE TidyBut(j)'
      <4>1. TidyBut(h)
        BY <1>1, <1>2, <1>5, <3>4 DEF Serves
      <4>2. StoredBy(h) = ToSet(index) \ {h.key}
        BY <1>1, <1>2, <1>13 DEF StoredBy, Checks
      <4>3. StoredBy(j)' = ToSet(l) \ {h.key}
        BY <2>1, <2>3, <2>5 DEF StoredBy
      <4>4. \A k, r, x : ~Spare(j, k, r, x)' /\ ~Spare(h, k, r, x)
        BY <1>1, <1>2, <2>3, <2>5 DEF Spare
      <4> QED BY <1>5, <1>7, <2>3, <2>5, <3>4, <4>1, <4>2, <4>3, <4>4
              DEF TidyBut, Stored, Named, LayoutOf, Checks
    <3> QED BY <3>1, <3>2, <3>3, <3>4 DEF Serves
  <2> QED BY <1>11, <2>2, <2>3, <2>5
<1>14. CASE h.op = "clear"
  <2> DEFINE v == [h EXCEPT !.todo = ToSet(l), !.pc = "evict"]
  <2>2. Continue(1, v)
    BY <1>1, <1>2, <1>3, <1>14 DEF ReadIndex
  <2>3. /\ v \in Job /\ v.id = h.id /\ v.op = "clear" /\ v.pc = "evict"
        /\ v.list = h.list /\ v.todo = ToSet(l)
    BY <1>7, <1>14 DEF Job
  <2> HIDE DEF v
  <2>5. ASSUME NEW j \in Job, j = v PROVE Serves(j)'
    <3>1. Shaped(j)'
      BY <1>10, <1>14, <2>3, <2>5 DEF Shaped, Places, Rewrites, Checks
    <3>2. Renews(j)'
      BY <2>3, <2>5 DEF Renews, Rewrites
    <3>3. Lists(j)'
      BY <2>3, <2>5, <1>5, <1>8, <1>9, <1>14 DEF Lists, Checks
    <3>4. ASSUME faults' = 0 PROVE TidyBut(j)'
      <4>1. TidyBut(h)
        BY <1>1, <1>2, <1>5, <3>4 DEF Serves
      <4>2. StoredBy(h) = ToSet(index)
        BY <1>1, <1>2, <1>14 DEF StoredBy, Checks
      <4>3. StoredBy(j)' = ToSet(l)
        BY <2>3, <2>5 DEF StoredBy, Checks
      <4>4. \A k, r, x : ~Spare(j, k, r, x)' /\ ~Spare(h, k, r, x)
        BY <1>1, <1>2, <2>3, <2>5 DEF Spare
      <4> QED BY <1>5, <1>7, <2>3, <2>5, <3>4, <4>1, <4>2, <4>3, <4>4
              DEF TidyBut, Stored, Named, LayoutOf, Checks
    <3> QED BY <3>1, <3>2, <3>3, <3>4 DEF Serves
  <2> QED BY <1>11, <2>2, <2>3, <2>5
<1>15. CASE h.op \in {"read", "forget"}
  <2> DEFINE v == [h EXCEPT !.list = l, !.todo = ToSet(l), !.pc = "check"]
  <2>2. Continue(1, v)
    BY <1>1, <1>2, <1>3, <1>15 DEF ReadIndex
  <2>3. /\ v \in Job /\ v.id = h.id /\ v.op = h.op /\ v.pc = "check" /\ v.changed = h.changed
        /\ v.list = l /\ v.todo = ToSet(l)
    BY <1>7, <1>15 DEF Job
  <2>4. ~h.changed /\ \A k \in Keys : Before(k, h.id)
    BY <1>1, <1>2, <1>10, <1>15 DEF Serves, Shaped, Renews
  <2> HIDE DEF v
  <2>5. ASSUME NEW j \in Job, j = v PROVE Serves(j)'
    <3>1. Shaped(j)'
      BY <1>7, <1>15, <2>3, <2>5 DEF Shaped, Places, Rewrites, Checks
    <3>2. Renews(j)'
      BY <1>5, <1>15, <2>3, <2>4, <2>5 DEF Renews, Rewrites, Before
    <3>3. Lists(j)'
      BY <2>3, <2>4, <2>5, <1>5, <1>7, <1>9, <1>15 DEF Lists, Checks
    <3>4. ASSUME faults' = 0 PROVE TidyBut(j)'
      <4>1. TidyBut(h)
        BY <1>1, <1>2, <1>5, <3>4 DEF Serves
      <4>2. StoredBy(h) = ToSet(index)
        BY <1>1, <1>2, <1>15 DEF StoredBy, Checks
      <4>3. StoredBy(j)' = ToSet(l)
        BY <1>15, <2>3, <2>5 DEF StoredBy, Checks
      <4>4. \A k, r, x : ~Spare(j, k, r, x)' /\ ~Spare(h, k, r, x)
        BY <1>1, <1>2, <2>3, <2>5 DEF Spare
      <4> QED BY <1>5, <1>7, <2>3, <2>5, <3>4, <4>1, <4>2, <4>3, <4>4
              DEF TidyBut, Stored, Named, LayoutOf, Checks
    <3> QED BY <3>1, <3>2, <3>3, <3>4 DEF Serves
  <2> QED BY <1>11, <2>2, <2>3, <2>5
<1> QED BY <1>10, <1>12, <1>13, <1>14, <1>15

\* A call is over, or goes on to remove sessions.
LEMMA AfterIndexStep ==
  ASSUME Inv, queue # <<>>, AfterIndex(1), calls' = calls, Lasting', Aged,
         faults' = 0 => Tidy'
  PROVE  Inv'
<1>1. queue[1] \in Job
  BY InvIs
<1>2. PICK h \in Job : h = queue[1]
  BY <1>1
<1>3. h.list \in Seq(Keys) /\ ToSet(h.list) \subseteq Keys
  BY ToSetIs DEF Job
<1>4. <<>> \in Seq(Keys) /\ IsInjective(<<>>) /\ Len(<<>>) <= MaxSessions
  BY EmptyIs
<1>5. ASSUME NEW v, Continue(1, v), v \in Job, v.id = h.id,
             v.op = "remove", v.pc = "remove", v.list = <<>>
      PROVE  Inv'
  <2>1. PICK j \in Job : j = v
    BY <1>5
  <2>2. Shaped(j)'
    BY <1>4, <1>5, <2>1 DEF Shaped, Places, Rewrites, Checks
  <2>3. Renews(j)' /\ Lists(j)'
    BY <1>5, <2>1 DEF Renews, Lists, Rewrites, Checks
  <2>4. ASSUME faults' = 0 PROVE TidyBut(j)'
    <3>1. StoredBy(j)' = ToSet(index)'
      BY <1>5, <2>1 DEF StoredBy, Checks
    <3>2. \A k, r, x : ~Spare(j, k, r, x)'
      BY <1>5, <2>1 DEF Spare
    <3> QED BY <1>5, <2>1, <2>4, <3>1, <3>2 DEF TidyBut, Tidy, Checks
  <2>5. Serves(j)'
    BY <2>2, <2>3, <2>4 DEF Serves
  <2> QED BY <1>2, <1>5, <2>1, <2>5, GoesOn
<1>6. CASE h.op = "forget" /\ h.list # <<>>
  <2> DEFINE v == [h EXCEPT !.op = "remove", !.pc = "remove", !.list = <<>>,
                            !.todo = ToSet(h.list)]
  <2>1. Continue(1, v)
    BY <1>2, <1>6 DEF AfterIndex
  <2>2. v \in Job /\ v.id = h.id /\ v.op = "remove" /\ v.pc = "remove" /\ v.list = <<>>
    BY <1>3, <1>4 DEF Job
  <2> HIDE DEF v
  <2> QED BY <1>5, <2>1, <2>2
<1>7. CASE h.op = "remove" /\ h.todo # {}
  <2> DEFINE v == [h EXCEPT !.pc = "remove", !.key = None, !.list = <<>>]
  <2>1. Continue(1, v)
    BY <1>2, <1>7 DEF AfterIndex
  <2>2. v \in Job /\ v.id = h.id /\ v.op = "remove" /\ v.pc = "remove" /\ v.list = <<>>
    BY <1>4, <1>7 DEF Job
  <2> HIDE DEF v
  <2> QED BY <1>5, <2>1, <2>2
<1>8. CASE ~ (h.op = "forget" /\ h.list # <<>>) /\ ~ (h.op = "remove" /\ h.todo # {})
  <2>1. Done(1)
    BY <1>2, <1>8 DEF AfterIndex
  <2> QED BY <2>1, Ends
<1> QED BY <1>6, <1>7, <1>8

\* Nothing is to be removed any more: the index comes next.
LEMMA EvictedStep ==
  ASSUME Inv, NEW i, Evicted(i)
  PROVE  Inv'
<1>1. /\ i = 1 /\ queue # <<>> /\ queue[1] \in Job /\ queue[1].pc = "evict"
      /\ Serves(queue[1])
  BY HeadIs DEF Evicted
<1>2. PICK h \in Job : h = queue[1]
  BY <1>1
<1>3. Lasting /\ Stores
  BY InvIs DEF Lasting
<1>4. /\ h.op \in {"save", "clear"} /\ h.todo = {} /\ Shaped(h) /\ Lists(h)
      /\ UNCHANGED <<chunk, manifest, index, calls, faults, misread, saved, kept, listed>>
  BY <1>1, <1>2, JobIs DEF Serves, Evicted, ghosts
<1>5. Lasting' /\ Aged
  BY <1>3, <1>4, Untouched DEF Lasting, Stores
<1> DEFINE v == [h EXCEPT !.pc = IF h.op = "clear" THEN "drop" ELSE "write"]
<1>6. /\ v \in Job /\ v.id = h.id /\ v.op = h.op /\ v.key = h.key /\ v.items = h.items
      /\ v.list = h.list /\ v.todo = {}
      /\ v.pc = IF h.op = "clear" THEN "drop" ELSE "write"
  BY <1>4 DEF Job
<1>7. Continue(1, v)
  BY <1>1, <1>2 DEF Evicted
<1> HIDE DEF v
<1>8. PICK j \in Job : j = v
  BY <1>6
<1>9. Shaped(j)'
  BY <1>4, <1>6, <1>8 DEF Shaped, Places, Rewrites, Checks
<1>10. Renews(j)'
  BY <1>4, <1>6, <1>8 DEF Renews, Rewrites
<1>11. Lists(j)'
  BY <1>1, <1>2, <1>4, <1>6, <1>8 DEF Lists, Checks
<1>12. ASSUME faults' = 0 PROVE TidyBut(j)'
  <2>1. TidyBut(h)
    BY <1>1, <1>2, <1>4, <1>12 DEF Serves
  <2>2. StoredBy(j)' = StoredBy(h)
    BY <1>1, <1>2, <1>4, <1>6, <1>8 DEF StoredBy, Checks
  <2>3. \A k, r, x : ~Spare(j, k, r, x)' /\ ~Spare(h, k, r, x)
    BY <1>1, <1>2, <1>4, <1>6, <1>8 DEF Spare
  <2> QED BY <1>4, <1>6, <1>8, <2>1, <2>2, <2>3 DEF TidyBut, Stored, Named, LayoutOf, Checks
<1>13. Serves(j)'
  BY <1>9, <1>10, <1>11, <1>12 DEF Serves
<1>14. Continue(1, j)
  BY <1>7, <1>8
<1> QED BY <1>1, <1>2, <1>4, <1>5, <1>6, <1>8, <1>13, <1>14, GoesOn

\* All sessions are checked.
LEMMA CheckedStep ==
  ASSUME Inv, NEW i, Checked(i)
  PROVE  Inv'
<1>1. /\ i = 1 /\ queue # <<>> /\ queue[1] \in Job /\ queue[1].pc = "check"
      /\ Serves(queue[1])
  BY HeadIs DEF Checked
<1>2. PICK h \in Job : h = queue[1]
  BY <1>1
<1>3. Lasting /\ Stores
  BY InvIs DEF Lasting
<1>4. /\ h.op \in {"read", "forget"} /\ h.todo = {} /\ Shaped(h) /\ Lists(h)
      /\ h.changed \in BOOLEAN
      /\ UNCHANGED <<chunk, manifest, index, calls, faults, misread, saved, kept, listed>>
  BY <1>1, <1>2, JobIs DEF Serves, Checked, ghosts
<1>5. Lasting' /\ Aged
  BY <1>3, <1>4, Untouched DEF Lasting, Stores
<1>6. CASE h.changed
  <2> DEFINE v == [h EXCEPT !.pc = "write"]
  <2>1. /\ v \in Job /\ v.id = h.id /\ v.op = h.op /\ v.key = h.key /\ v.items = h.items
        /\ v.list = h.list /\ v.todo = {} /\ v.pc = "write" /\ v.changed
    BY <1>4, <1>6 DEF Job
  <2>2. Continue(1, v)
    BY <1>1, <1>2, <1>6 DEF Checked
  <2> HIDE DEF v
  <2>3. PICK j \in Job : j = v
    BY <2>1
  <2>4. Shaped(j)'
    BY <1>4, <2>1, <2>3 DEF Shaped, Places, Rewrites, Checks
  <2>5. Renews(j)'
    BY <1>4, <2>1, <2>3 DEF Renews, Rewrites
  <2>6. Lists(j)'
    BY <1>1, <1>2, <1>4, <1>6, <2>1, <2>3 DEF Lists, Checks
  <2>7. ASSUME faults' = 0 PROVE TidyBut(j)'
    <3>1. TidyBut(h)
      BY <1>1, <1>2, <1>4, <2>7 DEF Serves
    <3>2. StoredBy(j)' = StoredBy(h)
      BY <1>1, <1>2, <1>4, <2>1, <2>3 DEF StoredBy, Checks
    <3>3. \A k, r, x : ~Spare(j, k, r, x)' /\ ~Spare(h, k, r, x)
      BY <1>1, <1>2, <2>1, <2>3 DEF Spare
    <3> QED BY <1>4, <2>1, <2>3, <3>1, <3>2, <3>3
            DEF TidyBut, Stored, Named, LayoutOf, Checks
  <2>8. Serves(j)'
    BY <2>4, <2>5, <2>6, <2>7 DEF Serves
  <2>9. Continue(1, j)
    BY <2>2, <2>3
  <2> QED BY <1>1, <1>2, <1>4, <1>5, <2>1, <2>3, <2>8, <2>9, GoesOn
<1>7. CASE ~h.changed
  <2>1. AfterIndex(1)
    BY <1>1, <1>2, <1>7 DEF Checked
  <2>2. ASSUME faults' = 0 PROVE Tidy'
    <3>1. TidyBut(h)
      BY <1>1, <1>2, <1>4, <2>2 DEF Serves
    <3>2. StoredBy(h) = ToSet(index)
      BY <1>1, <1>2, <1>4, <1>7, <3>1 DEF StoredBy, Checks, TidyBut
    <3>3. \A k, r, x : ~Spare(h, k, r, x)
      BY <1>1, <1>2 DEF Spare
    <3> QED BY <1>4, <3>1, <3>2, <3>3 DEF TidyBut, Tidy, Stored, Named, LayoutOf
  <2> QED BY <1>1, <1>4, <1>5, <2>1, <2>2, AfterIndexStep
<1> QED BY <1>4, <1>6, <1>7

\* The index is written, or the call fails.
LEMMA WriteIndexStep ==
  ASSUME Inv, NEW i, NEW bad \in BOOLEAN, WriteIndex(i, bad)
  PROVE  Inv'
<1>1. /\ i = 1 /\ queue # <<>> /\ queue[1] \in Job /\ queue[1].pc = "write"
      /\ Serves(queue[1])
  BY HeadIs DEF WriteIndex
<1>2. PICK h \in Job : h = queue[1]
  BY <1>1
<1>3. Lasting /\ Stores
  BY InvIs DEF Lasting
<1>4. /\ h.op \in {"save", "read", "forget", "remove"} /\ Shaped(h) /\ Lists(h)
      /\ h.list \in Seq(Keys) /\ h.pc = "write"
      /\ Checks(h) => h.changed
  BY <1>1, <1>2, JobIs DEF Serves, Shaped
<1>5. /\ faults' \in 0..MaxFaults /\ (faults' = 0 => faults = 0 /\ ~bad)
      /\ bad => faults' # 0
      /\ UNCHANGED <<chunk, manifest, calls, misread, saved, kept>>
  BY <1>3, FaultIs DEF WriteIndex
<1>6. CASE bad
  <2>1. Done(1) /\ UNCHANGED <<index, listed>>
    BY <1>1, <1>6 DEF WriteIndex, Abort
  <2>2. Lasting' /\ Aged
    BY <1>3, <1>5, <2>1, Untouched DEF Lasting, Stores
  <2> QED BY <1>1, <1>5, <1>6, <2>1, <2>2, Ends
<1>7. CASE ~bad
  <2>1. /\ AfterIndex(1) /\ index' = h.list
        /\ listed' = IF h.op = "save" THEN listed \cup {h.key} ELSE listed
    BY <1>1, <1>2, <1>7 DEF WriteIndex
  <2>2. h.op = "save" => h.key \in Keys /\ manifest[h.key] # None /\ h.key \in ToSet(h.list)
    BY <1>4 DEF Shaped, Lists
  <2>3. Stores' /\ Forms'
    BY <1>3, <1>4, <1>5, <2>1, <2>2 DEF Stores, Shaped, Lasting, Forms
  <2>4. Committed'
    BY <1>3, <1>5 DEF Lasting, Committed, Whole, Read
  <2>5. Indexed'
    <3>1. ~misread => listed \subseteq ToSet(h.list)
      BY <1>4 DEF Lists, Checks
    <3>2. \A k \in listed' : manifest'[k] # None
      BY <1>3, <1>5, <2>1, <2>2 DEF Lasting, Indexed
    <3> QED BY <1>5, <2>1, <2>2, <3>1, <3>2 DEF Indexed, ListedStay
  <2>6. ASSUME faults' = 0 PROVE Tidy'
    <3>1. TidyBut(h)
      BY <1>1, <1>2, <1>5, <2>6 DEF Serves
    <3>2. StoredBy(h) = ToSet(h.list)
      BY <1>4 DEF StoredBy, Checks
    <3>3. \A k, r, x : ~Spare(h, k, r, x)
      BY <1>4 DEF Spare
    <3> QED BY <1>5, <2>1, <3>1, <3>2, <3>3 DEF TidyBut, Tidy, Stored, Named, LayoutOf
  <2>7. Lasting' /\ Aged
    BY <1>5, <2>3, <2>4, <2>5 DEF Lasting, Aged
  <2> QED BY <1>1, <1>5, <2>1, <2>6, <2>7, AfterIndexStep
<1> QED BY <1>6, <1>7

\* The index is dropped, or stays.
LEMMA DropIndexStep ==
  ASSUME Inv, NEW i, NEW bad \in BOOLEAN, DropIndex(i, bad)
  PROVE  Inv'
<1>1. /\ i = 1 /\ queue # <<>> /\ queue[1] \in Job /\ queue[1].pc = "drop"
      /\ Serves(queue[1])
  BY HeadIs DEF DropIndex
<1>2. PICK h \in Job : h = queue[1]
  BY <1>1
<1>3. Lasting /\ Stores
  BY InvIs DEF Lasting
<1>4. h.op = "clear" /\ Lists(h) /\ h.pc = "drop"
  BY <1>1, <1>2, JobIs DEF Serves
<1>5. /\ faults' \in 0..MaxFaults /\ (faults' = 0 => faults = 0 /\ ~bad)
      /\ UNCHANGED <<chunk, manifest, calls, misread, saved, kept, listed>>
      /\ index' = (IF bad THEN index ELSE <<>>)
      /\ Done(1)
  BY <1>1, <1>3, FaultIs DEF DropIndex, ghosts
<1>6. Stores' /\ Forms'
  BY <1>3, <1>5, EmptyIs DEF Stores, Lasting, Forms
<1>7. Committed'
  BY <1>3, <1>5 DEF Lasting, Committed, Whole, Read
<1>8. Indexed'
  BY <1>3, <1>4, <1>5 DEF Lasting, Indexed, ListedStay, Lists
<1>9. ASSUME faults' = 0 PROVE Tidy'
  <2>1. TidyBut(h)
    BY <1>1, <1>2, <1>5, <1>9 DEF Serves
  <2>2. StoredBy(h) = {} /\ ToSet(index') = {}
    BY <1>4, <1>5, <1>9, EmptyIs DEF StoredBy, Checks
  <2>3. \A k, r, x : ~Spare(h, k, r, x)
    BY <1>4 DEF Spare
  <2> QED BY <1>5, <2>1, <2>2, <2>3 DEF TidyBut, Tidy, Stored, Named, LayoutOf
<1>10. Lasting' /\ Aged
  BY <1>5, <1>6, <1>7, <1>8 DEF Lasting, Aged
<1> QED BY <1>1, <1>5, <1>9, <1>10, Ends

-----------------------------------------------------------------------------
(* Calls, and the death of the app *)

\* A new job waits.
LEMMA CallStep ==
  ASSUME Inv, NEW op, NEW pc, NEW k \in Keys \cup {None}, NEW n \in 0..MaxChunks,
         NEW todo \in SUBSET Keys, Call(NewJob(op, pc, k, n, todo)),
         \/ op = "save" /\ pc = "layout" /\ k \in Keys /\ n # 0
         \/ op = "remove" /\ pc = "remove"
         \/ op \in {"read", "forget", "clear"} /\ pc = "index"
  PROVE  Inv'
<1>1. calls \in Nat /\ calls < MaxCalls /\ MaxCalls \in Nat /\ MaxChunks \in Nat
  BY InvIs, BoundsAssumption DEF Call
<1>2. calls + 1 \in 1..MaxCalls /\ calls + 1 \in Revs
  BY <1>1 DEF Revs
<1> DEFINE items == [x \in 1..n |-> <<calls + 1, x>>]
<1>3. n \in Nat /\ n <= MaxChunks
  BY <1>1
<1>4. items \in Messages /\ (n # 0 => items # <<>>)
  <2>1. \A x \in 1..n : <<calls + 1, x>> \in Message
    BY <1>1, <1>2, <1>3 DEF Message
  <2>2. items \in Seq(Message) /\ Len(items) = n
    BY <1>3, <2>1
  <2> HIDE DEF items
  <2> QED BY <1>3, <2>2, MessagesAre
<1>5. NoLayout \in Layout /\ <<>> \in Seq(Keys)
  BY <1>2, EmptyIs, BoundsAssumption DEF NoLayout, Layout, Revs
<1> HIDE DEF items
<1>6. NewJob(op, pc, k, n, todo) =
        [id |-> calls + 1, op |-> op, pc |-> pc, key |-> k, items |-> items,
         old |-> NoLayout, list |-> <<>>, todo |-> todo, changed |-> FALSE]
  BY DEF NewJob, items
<1>7. NewJob(op, pc, k, n, todo) \in Job
  BY <1>2, <1>4, <1>5, <1>6 DEF Job
<1>8. PICK j \in Job : j = NewJob(op, pc, k, n, todo)
  BY <1>7
<1>9. j.id = calls + 1 /\ Waiting(j) /\ Call(j)
  BY <1>4, <1>6, <1>8 DEF Waiting
<1> QED BY <1>9, Joins

\* The app dies: nobody has the lock.
LEMMA CrashStep ==
  ASSUME Inv, Crash
  PROVE  Inv'
<1>1. Lasting /\ Stores /\ Ordered /\ calls \in 0..MaxCalls /\ calls \in Nat
  BY InvIs DEF Lasting
<1>2. /\ faults' \in 0..MaxFaults /\ faults' # 0 /\ queue' = <<>>
      /\ UNCHANGED <<chunk, manifest, index, calls, misread, saved, kept, listed>>
  BY <1>1, FaultIs DEF Crash, ghosts
<1>3. Lasting'
  BY <1>1, <1>2, Untouched DEF Lasting, Stores
<1>4. Ordered'
  BY <1>1, <1>2 DEF Ordered, Before
<1>5. TypeOK'
  BY <1>1, <1>2, <1>3 DEF TypeOK, Lasting, Stores
<1> QED BY <1>2, <1>3, <1>4, <1>5 DEF Inv, Lasting

-----------------------------------------------------------------------------
(* Steps that store *)

\* Sessions whose named chunks stay are read as before.
LEMMA StillCommitted ==
  ASSUME Lasting, saved' = saved, kept' \subseteq kept,
         \A k \in kept' :
           /\ manifest'[k] = manifest[k]
           /\ \A x \in 1..manifest[k].count :
                chunk'[k][manifest[k].rev][x] = chunk[k][manifest[k].rev][x]
  PROVE  Committed'
<1> SUFFICES ASSUME NEW k \in kept' PROVE Whole(k)' /\ Read(k)' = saved'[k]
  BY DEF Committed
<1>1. k \in Keys /\ k \in kept /\ Stores
  BY DEF Lasting, Stores
<1>2. Read(k)' = Read(k) /\ Whole(k)' = Whole(k)
  BY <1>1, SameSession
<1> QED BY <1>1, <1>2 DEF Lasting, Committed

\* A rewrite by a job that reads is over, done or given up.
LEMMA BackToCheck ==
  ASSUME NEW h \in Job, Shaped(h), Lists(h), h.op \in {"read", "forget"}, Rewrites(h),
         \A k \in h.todo : Before(k, h.id)', listed' = listed, misread' = misread,
         faults' = 0 =>
           /\ Stored' = ToSet(h.list)
           /\ \A k \in Keys, r \in Revs, x \in 1..MaxChunks :
                chunk'[k][r][x] # None <=> Named(k, r, x)',
         NEW v, v = [h EXCEPT !.pc = "check", !.key = None, !.items = <<>>, !.old = NoLayout],
         Stores
  PROVE  /\ v \in Job /\ v.id = h.id
         /\ \A j \in Job : j = v => Serves(j)'
<1>1. /\ <<>> \in Messages /\ NoLayout \in Layout
  <2>1. <<>> \in Seq(Message) /\ Len(<<>>) <= MaxChunks
    BY BoundsAssumption
  <2>2. NoLayout \in Layout
    BY BoundsAssumption DEF NoLayout, Layout, Revs
  <2> QED BY <2>1, <2>2, MessagesAre
<1>2. /\ v \in Job /\ v.id = h.id /\ v.op = h.op /\ v.pc = "check" /\ v.key = None
      /\ v.list = h.list /\ v.todo = h.todo /\ v.changed = h.changed
  BY <1>1 DEF Job
<1>3. Checks(h) /\ h.changed /\ h.todo \subseteq ToSet(h.list) /\ h.pc # "check"
  BY DEF Checks, Rewrites, Shaped
<1>4. ASSUME NEW j \in Job, j = v PROVE Serves(j)'
  <2>1. Shaped(j)'
    BY <1>2, <1>3, <1>4 DEF Shaped, Places, Rewrites, Checks
  <2>2. Renews(j)'
    BY <1>2, <1>4 DEF Renews, Rewrites
  <2>3. Lists(j)'
    BY <1>2, <1>3, <1>4 DEF Lists, Checks
  <2>4. ASSUME faults' = 0 PROVE TidyBut(j)'
    <3>1. StoredBy(j)' = ToSet(h.list)
      BY <1>2, <1>4 DEF StoredBy, Checks
    <3>2. \A k, r, x : ~Spare(j, k, r, x)'
      BY <1>2, <1>4 DEF Spare
    <3> QED BY <1>2, <1>3, <1>4, <2>4, <3>1, <3>2 DEF TidyBut, Checks
  <2> QED BY <2>1, <2>2, <2>3, <2>4 DEF Serves
<1> QED BY <1>2, <1>4

\* A job goes on to v.
LEMMA Continued ==
  ASSUME Inv, queue # <<>>, NEW v, v \in Job, v.id = queue[1].id, Continue(1, v),
         calls' = calls, Lasting', Aged, \A j \in Job : j = v => Serves(j)'
  PROVE  Inv'
<1>1. PICK j \in Job : j = v
  OBVIOUS
<1>2. j.id = queue[1].id /\ Continue(1, j) /\ Serves(j)'
  BY <1>1
<1> QED BY <1>2, GoesOn

\* A rewrite fails: a save ends, a reader goes on.
LEMMA GivesUp ==
  ASSUME Inv, queue # <<>>, GiveUp(1), queue[1].pc \in {"chunks", "manifest"},
         calls' = calls, Lasting', Aged, faults' # 0,
         manifest' = manifest, listed' = listed, misread' = misread
  PROVE  Inv'
<1>1. queue[1] \in Job /\ Serves(queue[1]) /\ Stores
  BY InvIs DEF Lasting
<1>2. PICK h \in Job : h = queue[1]
  BY <1>1
<1>3. /\ h.op \in {"save", "read", "forget"} /\ Shaped(h) /\ Lists(h) /\ Renews(h)
      /\ Rewrites(h) /\ h.todo \subseteq Keys
  BY <1>1, <1>2, JobIs DEF Serves, Rewrites
<1>4. CASE h.op = "save"
  <2>1. Done(1)
    BY <1>2, <1>4 DEF GiveUp, Abort
  <2> QED BY <2>1, Ends
<1>5. CASE h.op # "save"
  <2> DEFINE v == [h EXCEPT !.pc = "check", !.key = None, !.items = <<>>, !.old = NoLayout]
  <2>1. Continue(1, v)
    BY <1>2, <1>5 DEF GiveUp, AfterRewrite
  <2>2. \A k \in h.todo : Before(k, h.id)'
    BY <1>3, <1>5 DEF Renews, Before
  <2> HIDE DEF v
  <2>3. v \in Job /\ v.id = h.id /\ \A j \in Job : j = v => Serves(j)'
    BY <1>1, <1>3, <1>5, <2>2, BackToCheck DEF v
  <2> QED BY <1>2, <2>1, <2>3, Continued
<1> QED BY <1>4, <1>5

\* Chunks are written under the revision of the call.
LEMMA WriteChunksStep ==
  ASSUME Inv, NEW i, NEW bad \in BOOLEAN, WriteChunks(i, bad)
  PROVE  Inv'
<1>1. /\ i = 1 /\ queue # <<>> /\ queue[1] \in Job /\ queue[1].pc = "chunks"
      /\ Serves(queue[1])
  BY HeadIs DEF WriteChunks
<1>2. PICK h \in Job : h = queue[1]
  BY <1>1
<1>3. Lasting /\ Stores
  BY InvIs DEF Lasting
<1>4. /\ h.op \in {"save", "read", "forget"} /\ h.pc = "chunks"
      /\ Shaped(h) /\ Renews(h) /\ Lists(h)
      /\ h.key \in Keys /\ h.items \in Messages /\ h.items # <<>> /\ h.id \in Revs
      /\ h.todo \subseteq Keys /\ h.id \in 1..MaxCalls
  <2>1. h.id \in Nat /\ h.id \in 1..MaxCalls
    BY <1>1, <1>2, JobIs DEF Serves
  <2>2. h.id \in Revs
    BY <2>1, BoundsAssumption DEF Revs
  <2> QED BY <2>1, <2>2, <1>1, <1>2, JobIs DEF Serves, Shaped, Rewrites
<1>5. /\ faults' \in 0..MaxFaults /\ (faults' = 0 => faults = 0 /\ ~bad)
      /\ bad => faults' # 0
      /\ UNCHANGED <<manifest, index, calls, misread, saved, kept, listed>>
  BY <1>3, FaultIs DEF WriteChunks, ghosts
<1>6. PICK done \in SUBSET DOMAIN h.items :
         /\ ~bad => done = DOMAIN h.items
         /\ chunk' = [chunk EXCEPT ![h.key][h.id] = [x \in 1..MaxChunks |->
              IF x \in done THEN h.items[x] ELSE chunk[h.key][h.id][x]]]
  <2>1. PICK done \in SUBSET DOMAIN queue[i].items :
         /\ ~bad => done = DOMAIN queue[i].items
         /\ chunk' = [chunk EXCEPT ![queue[i].key][queue[i].id] = [x \in 1..MaxChunks |->
              IF x \in done THEN queue[i].items[x]
              ELSE chunk[queue[i].key][queue[i].id][x]]]
    BY Zenon DEF WriteChunks, Revision
  <2>2. queue[i] = h
    BY <1>1, <1>2
  <2> QED BY <2>1, <2>2, Zenon
<1> DEFINE g == [x \in 1..MaxChunks |->
              IF x \in done THEN h.items[x] ELSE chunk[h.key][h.id][x]]
<1>7. h.items \in Seq(Message) /\ DOMAIN h.items = 1..Len(h.items)
      /\ DOMAIN h.items \subseteq 1..MaxChunks
  <2>1. h.items \in Seq(Message) /\ Len(h.items) <= MaxChunks
    BY <1>4, MessagesAre
  <2>2. Len(h.items) \in Nat /\ MaxChunks \in Nat /\ DOMAIN h.items = 1..Len(h.items)
    BY <2>1, BoundsAssumption
  <2> QED BY <2>1, <2>2
<1>8. \A x \in DOMAIN h.items : h.items[x] \in Message /\ h.items[x] # None
  BY <1>7, NothingAssumption
<1>9. g \in [1..MaxChunks -> Message \cup {None}]
  <2>1. chunk[h.key][h.id] \in [1..MaxChunks -> Message \cup {None}]
    BY <1>3, <1>4 DEF Stores
  <2>2. \A x \in done : h.items[x] \in Message
    BY <1>8
  <2>3. \A x \in 1..MaxChunks : g[x] \in Message \cup {None}
    BY <2>1, <2>2
  <2> QED BY <2>3
<1>10. /\ chunk' \in [Keys -> [Revs -> [1..MaxChunks -> Message \cup {None}]]]
       /\ \A l \in Keys, r \in Revs, x \in 1..MaxChunks :
            chunk'[l][r][x] = IF l = h.key /\ r = h.id /\ x \in done THEN h.items[x]
                              ELSE chunk[l][r][x]
  <2>1. chunk' = [chunk EXCEPT ![h.key][h.id] = g]
    BY <1>6
  <2>2. \A x \in 1..MaxChunks :
          g[x] = IF x \in done THEN h.items[x] ELSE chunk[h.key][h.id][x]
    OBVIOUS
  <2> HIDE DEF g
  <2>3. /\ chunk' \in [Keys -> [Revs -> [1..MaxChunks -> Message \cup {None}]]]
        /\ \A l \in Keys, s \in Revs, x \in 1..MaxChunks :
             chunk'[l][s][x] = IF l = h.key /\ s = h.id THEN g[x] ELSE chunk[l][s][x]
    BY <1>3, <1>4, <1>9, <2>1, RechunkIs
  <2> QED BY <2>2, <2>3
<1> HIDE DEF g
<1>11. Before(h.key, h.id) /\ (h.old.count = 0 \/ h.old.rev < h.id)
  BY <1>4 DEF Renews, Rewrites
<1>12. Committed'
  <2> SUFFICES ASSUME NEW k \in kept
               PROVE  \A x \in 1..manifest[k].count :
                        chunk'[k][manifest[k].rev][x] = chunk[k][manifest[k].rev][x]
    BY <1>3, <1>5, StillCommitted
  <2>1. k \in Keys /\ manifest[k] # None
    BY <1>3 DEF Lasting, Stores, Committed, Whole
  <2>2. manifest[k].rev \in Revs /\ manifest[k].count \in 0..MaxChunks
    BY <1>3, <2>1 DEF Stores, Manifest
  <2>3. 1..manifest[k].count \subseteq 1..MaxChunks
    BY <2>2, BoundsAssumption
  <2>4. k = h.key => manifest[k].rev # h.id
    <3>1. k = h.key => manifest[k].rev < h.id
      BY <1>11, <2>1 DEF Before
    <3>2. manifest[k].rev \in Nat /\ h.id \in Nat
      BY <1>4, <2>2, BoundsAssumption DEF Revs
    <3> QED BY <3>1, <3>2
  <2> QED BY <1>10, <2>1, <2>2, <2>3, <2>4
<1>13. Lasting' /\ Aged
  <2>1. Stores' /\ Forms'
    BY <1>3, <1>5, <1>10 DEF Lasting, Stores, Forms
  <2>2. Indexed'
    BY <1>3, <1>5 DEF Lasting, Indexed, ListedStay
  <2> QED BY <1>5, <1>12, <2>1, <2>2 DEF Lasting, Aged
<1>14. CASE bad
  <2>1. GiveUp(1)
    BY <1>1, <1>14 DEF WriteChunks
  <2> QED BY <1>1, <1>5, <1>13, <1>14, <2>1, GivesUp
<1>15. CASE ~bad
  <2> DEFINE v == [h EXCEPT !.pc = "manifest"]
  <2>1. Continue(1, v)
    BY <1>1, <1>2, <1>15 DEF WriteChunks
  <2>2. /\ v \in Job /\ v.id = h.id /\ v.op = h.op /\ v.pc = "manifest" /\ v.key = h.key
        /\ v.items = h.items /\ v.old = h.old
        /\ v.list = h.list /\ v.todo = h.todo /\ v.changed = h.changed
    BY <1>4 DEF Job
  <2> HIDE DEF v
  <2>3. ASSUME NEW j \in Job, j = v PROVE Serves(j)'
    <3>1. Shaped(j)'
      BY <1>4, <2>2, <2>3 DEF Shaped, Places, Rewrites, Checks
    <3>2. Renews(j)'
      <4>1. \A x \in DOMAIN j.items : chunk'[j.key][j.id][x] = j.items[x]
        BY <1>4, <1>6, <1>7, <1>10, <1>15, <2>2, <2>3
      <4> QED BY <1>4, <1>5, <2>2, <2>3, <4>1 DEF Renews, Rewrites, Before
    <3>3. Lists(j)'
      BY <1>4, <1>5, <2>2, <2>3 DEF Lists, Checks
    <3>4. ASSUME faults' = 0 PROVE TidyBut(j)'
      <4>1. TidyBut(h)
        BY <1>1, <1>2, <1>5, <3>4 DEF Serves
      <4>2. StoredBy(j)' = StoredBy(h)
        BY <1>4, <1>5, <2>2, <2>3 DEF StoredBy, Checks
      <4>3. Stored' = Stored /\ \A k, r, x : Named(k, r, x)' = Named(k, r, x)
        BY <1>5 DEF Stored, Named, LayoutOf
      <4>4. \A k, r, x : ~Spare(h, k, r, x)
        BY <1>4 DEF Spare
      <4>5. \A k, r, x : Spare(j, k, r, x)' =
              (k = h.key /\ r = h.id /\ x \in DOMAIN h.items)
        BY <2>2, <2>3 DEF Spare
      <4>6. ASSUME NEW k \in Keys, NEW r \in Revs, NEW x \in 1..MaxChunks
            PROVE  chunk'[k][r][x] # None <=> Named(k, r, x)' \/ Spare(j, k, r, x)'
        <5>1. chunk[k][r][x] # None <=> Named(k, r, x)
          BY <4>1, <4>4 DEF TidyBut
        <5> QED BY <1>6, <1>8, <1>10, <1>15, <4>3, <4>5, <5>1
      <4>7. j.old = LayoutOf(j.key)'
        BY <1>4, <1>5, <2>2, <2>3, <4>1 DEF TidyBut, LayoutOf
      <4>8. Checks(j) => j.changed
        BY <3>1, <2>2, <2>3 DEF Shaped, Checks
      <4> QED BY <4>1, <4>2, <4>3, <4>6, <4>7, <4>8 DEF TidyBut, Checks
    <3> QED BY <3>1, <3>2, <3>3, <3>4 DEF Serves
  <2> QED BY <1>1, <1>2, <1>5, <1>13, <2>1, <2>2, <2>3, Continued
<1> QED BY <1>14, <1>15


\* The manifest names the new chunks: what was to be written is committed.
LEMMA WriteManifestStep ==
  ASSUME Inv, NEW i, NEW bad \in BOOLEAN, WriteManifest(i, bad)
  PROVE  Inv'
<1>1. /\ i = 1 /\ queue # <<>> /\ queue[1] \in Job /\ queue[1].pc = "manifest"
      /\ Serves(queue[1])
  BY HeadIs DEF WriteManifest
<1>2. PICK h \in Job : h = queue[1]
  BY <1>1
<1>3. Lasting /\ Stores /\ Forms
  BY InvIs DEF Lasting
<1>4. /\ h.op \in {"save", "read", "forget"} /\ h.pc = "manifest"
      /\ Shaped(h) /\ Renews(h) /\ Lists(h)
      /\ h.key \in Keys /\ h.items \in Messages /\ h.items # <<>> /\ h.id \in Revs
      /\ h.todo \subseteq Keys /\ h.id \in 1..MaxCalls /\ h.old \in Layout
  <2>1. h.id \in Nat /\ h.id \in 1..MaxCalls
    BY <1>1, <1>2, JobIs DEF Serves
  <2>2. h.id \in Revs
    BY <2>1, BoundsAssumption DEF Revs
  <2> QED BY <2>1, <2>2, <1>1, <1>2, JobIs DEF Serves, Shaped, Rewrites
<1>5. /\ faults' \in 0..MaxFaults /\ (faults' = 0 => faults = 0 /\ ~bad)
      /\ bad => faults' # 0
      /\ UNCHANGED <<chunk, index, calls, misread>>
  BY <1>3, FaultIs DEF WriteManifest
<1>6. CASE bad
  <2>1. GiveUp(1) /\ UNCHANGED <<manifest, saved, kept, listed>>
    BY <1>1, <1>6 DEF WriteManifest, ghosts
  <2>2. Lasting' /\ Aged
    BY <1>3, <1>5, <2>1, Untouched DEF Lasting, Stores
  <2> QED BY <1>1, <1>5, <1>6, <2>1, <2>2, GivesUp
<1>7. CASE ~bad
  <2> DEFINE m == [rev |-> h.id, count |-> Len(h.items), inline |-> <<>>]
             v == [h EXCEPT !.pc = "stale"]
  <2>1. /\ manifest' = [manifest EXCEPT ![h.key] = m]
        /\ h.op = "save" => saved' = [saved EXCEPT ![h.key] = h.items]
                            /\ kept' = kept \cup {h.key}
        /\ h.op # "save" => saved' = saved /\ kept' = kept
        /\ listed' = listed
        /\ Continue(1, v)
    BY <1>1, <1>2, <1>7 DEF WriteManifest, Revision
  <2>2. /\ h.items \in Seq(Message) /\ Len(h.items) \in 1..MaxChunks
        /\ DOMAIN h.items = 1..Len(h.items)
        /\ h.items = [x \in 1..Len(h.items) |-> h.items[x]]
    <3>1. h.items \in Seq(Message) /\ Len(h.items) <= MaxChunks
      BY <1>4, MessagesAre
    <3>2. Len(h.items) \in Nat /\ Len(h.items) # 0 /\ MaxChunks \in Nat
      BY <3>1, <1>4, BoundsAssumption
    <3> QED BY <3>1, <3>2
  <2>3. m \in Manifest /\ m # None
    <3>1. <<>> \in Seq(Message) /\ Len(<<>>) <= MaxChunks
      BY BoundsAssumption
    <3>2. <<>> \in Messages
      BY <3>1, MessagesAre
    <3>3. Len(h.items) \in 0..MaxChunks
      BY <2>2, BoundsAssumption
    <3>4. m \in Manifest
      BY <3>2, <3>3, <1>4 DEF Manifest
    <3> QED BY <3>4, NothingAssumption
  <2>4. /\ v \in Job /\ v.id = h.id /\ v.op = h.op /\ v.pc = "stale" /\ v.key = h.key
        /\ v.items = h.items /\ v.old = h.old
        /\ v.list = h.list /\ v.todo = h.todo /\ v.changed = h.changed
    BY <1>4 DEF Job
  <2>5. m.rev = h.id /\ m.count = Len(h.items) /\ m.inline = <<>>
    OBVIOUS
  <2> HIDE DEF m, v
  <2>6. /\ manifest' \in [Keys -> Manifest \cup {None}] /\ manifest'[h.key] = m
        /\ \A k \in Keys \ {h.key} : manifest'[k] = manifest[k]
    BY <2>1, <2>3, <1>3, <1>4 DEF Stores
  <2>7. Stores' /\ Forms'
    <3>1. saved' \in [Keys -> Messages] /\ kept' \subseteq Keys
      BY <2>1, <1>3, <1>4 DEF Stores
    <3>2. Stores'
      BY <3>1, <2>1, <2>6, <1>3, <1>5 DEF Stores
    <3>3. Forms'
      BY <2>5, <2>6, <1>3 DEF Forms
    <3> QED BY <3>2, <3>3
  <2>8. /\ Before(h.key, h.id) /\ (h.old.count = 0 \/ h.old.rev < h.id)
        /\ \A x \in 1..Len(h.items) : chunk[h.key][h.id][x] = h.items[x] /\ h.items[x] # None
        /\ h.op # "save" =>
             manifest[h.key] # None /\ (h.key \in kept => saved[h.key] = h.items)
    BY <1>4, <2>2, NothingAssumption DEF Renews, Rewrites
  <2>9. Whole(h.key)' /\ Read(h.key)' = h.items
    <3>1. Whole(h.key)'
      BY <1>5, <2>3, <2>5, <2>6, <2>8 DEF Whole
    <3>2. /\ Read(h.key)' = Reading(m, chunk[h.key])
      BY <1>5, <2>3, <2>6 DEF Read, Reading
    <3>3. chunk[h.key] \in [Revs -> [1..MaxChunks -> Message \cup {None}]]
      BY <1>3, <1>4 DEF Stores
    <3>4. /\ \A x \in 1..m.count : chunk[h.key][m.rev][x] # None
          /\ m.count # 0
      BY <2>2, <2>5, <2>8
    <3>5. Reading(m, chunk[h.key]) = [x \in 1..m.count |-> chunk[h.key][m.rev][x]]
      BY <2>3, <2>5, <3>3, <3>4, ReadingIs
    <3>6. [x \in 1..m.count |-> chunk[h.key][m.rev][x]] = [x \in 1..Len(h.items) |-> h.items[x]]
      BY <2>5, <2>8
    <3> QED BY <2>2, <3>1, <3>2, <3>5, <3>6
  <2>10. Committed'
    <3> SUFFICES ASSUME NEW k \in kept' PROVE Whole(k)' /\ Read(k)' = saved'[k]
      BY DEF Committed
    <3>1. CASE k = h.key
      <4>1. saved'[h.key] = h.items
        BY <1>3, <1>4, <2>1, <2>8, <3>1 DEF Stores
      <4> QED BY <2>9, <3>1, <4>1
    <3>2. CASE k # h.key
      <4>1. k \in kept /\ k \in Keys /\ manifest'[k] = manifest[k] /\ saved'[k] = saved[k]
        BY <1>3, <1>4, <2>1, <2>6, <3>2 DEF Stores
      <4>2. Read(k)' = Read(k) /\ Whole(k)' = Whole(k)
        BY <1>3, <1>5, <4>1, SameSession
      <4> QED BY <1>3, <4>1, <4>2 DEF Lasting, Committed
    <3> QED BY <3>1, <3>2
  <2>11. Lasting' /\ Aged
    <3>1. \A k \in Keys : manifest[k] # None => manifest'[k] # None
      BY <2>3, <2>6
    <3>2. Indexed'
      BY <3>1, <1>3, <1>5, <2>1 DEF Lasting, Stores, Indexed, ListedStay
    <3>3. Aged
      BY <1>2, <2>5, <2>6 DEF Aged
    <3> QED BY <2>7, <2>10, <3>2, <3>3 DEF Lasting
  <2>12. ASSUME NEW j \in Job, j = v PROVE Serves(j)'
    <3>1. Shaped(j)'
      BY <1>4, <2>4, <2>12 DEF Shaped, Places, Rewrites, Checks
    <3>2. Renews(j)'
      <4>1. h.op \in {"read", "forget"} => \A k \in h.todo : k \in Keys \ {h.key} /\ Before(k, h.id)
        BY <1>4 DEF Shaped, Renews, Rewrites, Checks
      <4>2. h.op \in {"read", "forget"} => \A k \in h.todo : Before(k, h.id)'
        BY <4>1, <2>6 DEF Before
      <4> QED BY <2>3, <2>4, <2>5, <2>6, <2>8, <2>12, <4>2 DEF Renews, Rewrites
    <3>3. Lists(j)'
      BY <1>4, <1>5, <2>1, <2>3, <2>4, <2>6, <2>12 DEF Lists, Checks
    <3>4. ASSUME faults' = 0 PROVE TidyBut(j)'
      <4>1. TidyBut(h) /\ h.old = LayoutOf(h.key)
        BY <1>1, <1>2, <1>4, <1>5, <3>4 DEF Serves, TidyBut
      <4>2. Stored' = Stored \cup {h.key}
        BY <1>4, <2>3, <2>6 DEF Stored
      <4>3. ASSUME h.op = "save" PROVE Stored' = StoredBy(j)'
        <5>1. StoredBy(h) = ToSet(index)
          BY <1>4, <4>3 DEF StoredBy, Checks
        <5>2. StoredBy(j)' = ToSet(index) \cup {h.key}
          BY <1>5, <2>4, <2>12, <4>3 DEF StoredBy, Checks
        <5> QED BY <4>1, <4>2, <5>1, <5>2 DEF TidyBut
      <4>4. ASSUME h.op # "save" PROVE Stored' = StoredBy(j)'
        <5>1. StoredBy(h) = ToSet(h.list) /\ StoredBy(j)' = ToSet(h.list)
          BY <1>4, <2>4, <2>12, <4>4 DEF StoredBy, Checks
        <5>2. h.key \in Stored
          BY <1>4, <2>8, <4>4 DEF Stored
        <5> QED BY <4>1, <4>2, <5>1, <5>2 DEF TidyBut
      <4>5. ASSUME NEW k \in Keys, NEW r \in Revs, NEW x \in 1..MaxChunks
            PROVE  chunk'[k][r][x] # None <=> Named(k, r, x)' \/ Spare(j, k, r, x)'
        <5>1. chunk[k][r][x] # None <=> Named(k, r, x) \/ Spare(h, k, r, x)
          BY <4>1 DEF TidyBut
        <5>2. x \in Nat /\ x >= 1 /\ h.old.count \in Nat
          BY <1>4, BoundsAssumption DEF Layout
        <5>3. Spare(h, k, r, x) <=> k = h.key /\ r = h.id /\ x <= Len(h.items)
          BY <1>4, <2>2, <5>2 DEF Spare
        <5>4. Spare(j, k, r, x)' <=> k = h.key /\ r = h.old.rev /\ x <= h.old.count
          BY <2>4, <2>12, <5>2 DEF Spare
        <5>5. CASE k = h.key
          <6>1. Named(k, r, x)' <=> r = h.id /\ x <= Len(h.items)
            BY <2>3, <2>5, <2>6, <5>5 DEF Named, LayoutOf
          <6>2. Named(k, r, x) <=> r = h.old.rev /\ x <= h.old.count
            BY <4>1, <5>5 DEF Named
          <6> QED BY <1>5, <5>1, <5>3, <5>4, <5>5, <6>1, <6>2
        <5>6. CASE k # h.key
          <6>1. Named(k, r, x)' = Named(k, r, x)
            BY <2>6, <5>6 DEF Named, LayoutOf
          <6> QED BY <1>5, <5>1, <5>3, <5>4, <5>6, <6>1
        <5> QED BY <5>5, <5>6
      <4>6. Checks(j) => j.changed
        BY <3>1, <2>4, <2>12 DEF Shaped, Checks
      <4> QED BY <2>4, <2>12, <4>3, <4>4, <4>5, <4>6 DEF TidyBut, Checks
    <3> QED BY <3>1, <3>2, <3>3, <3>4 DEF Serves
  <2> QED BY <1>1, <1>2, <1>5, <2>1, <2>4, <2>11, <2>12, Continued
<1> QED BY <1>6, <1>7

\* The chunks of the layout before are removed.
LEMMA RemoveStaleStep ==
  ASSUME Inv, NEW i, NEW bad \in BOOLEAN, RemoveStale(i, bad)
  PROVE  Inv'
<1>1. /\ i = 1 /\ queue # <<>> /\ queue[1] \in Job /\ queue[1].pc = "stale"
      /\ Serves(queue[1])
  BY HeadIs DEF RemoveStale
<1>2. PICK h \in Job : h = queue[1]
  BY <1>1
<1>3. Lasting /\ Stores /\ Forms
  BY InvIs DEF Lasting
<1>4. /\ h.op \in {"save", "read", "forget"} /\ h.pc = "stale" /\ Rewrites(h)
      /\ Shaped(h) /\ Renews(h) /\ Lists(h)
      /\ h.key \in Keys /\ h.old \in Layout /\ h.todo \subseteq Keys /\ h.id \in Nat
      /\ manifest[h.key] # None /\ manifest[h.key].rev = h.id
      /\ h.old.count = 0 \/ h.old.rev < h.id
  BY <1>1, <1>2, JobIs DEF Serves, Shaped, Rewrites, Renews
<1>5. /\ faults' \in 0..MaxFaults /\ (faults' = 0 => faults = 0 /\ ~bad)
      /\ UNCHANGED <<manifest, index, calls, misread, saved, kept, listed>>
      /\ Continue(1, AfterRewrite(1))
  BY <1>1, <1>3, FaultIs DEF RemoveStale, ghosts
<1>6. h.old.rev \in Revs /\ h.old.count \in Nat /\ h.old.rev \in Nat
  BY <1>4, BoundsAssumption DEF Layout, Revs
<1>7. PICK left \in SUBSET (1..h.old.count) :
         /\ left # {} => bad
         /\ DropChunks(h.key, h.old.rev, (1..h.old.count) \ left)
  <2>1. PICK left \in SUBSET (1..queue[i].old.count) :
         /\ left # {} => bad
         /\ DropChunks(queue[i].key, StaleRevision(queue[i]), (1..queue[i].old.count) \ left)
    BY Zenon DEF RemoveStale
  <2>2. queue[i] = h
    BY <1>1, <1>2
  <2> QED BY <2>1, <2>2, Zenon DEF StaleRevision
<1>8. /\ chunk' \in [Keys -> [Revs -> [1..MaxChunks -> Message \cup {None}]]]
      /\ \A l \in Keys, s \in Revs, x \in 1..MaxChunks :
           chunk'[l][s][x] =
             IF l = h.key /\ s = h.old.rev /\ x \in (1..h.old.count) \ left
             THEN None ELSE chunk[l][s][x]
  BY <1>3, <1>4, <1>6, <1>7, DropIs
<1>9. Committed'
  <2> SUFFICES ASSUME NEW k \in kept
               PROVE  \A x \in 1..manifest[k].count :
                        chunk'[k][manifest[k].rev][x] = chunk[k][manifest[k].rev][x]
    BY <1>3, <1>5, StillCommitted
  <2>1. k \in Keys /\ manifest[k] # None
    BY <1>3 DEF Lasting, Stores, Committed, Whole
  <2>2. manifest[k].rev \in Revs /\ manifest[k].count \in 0..MaxChunks
    BY <1>3, <2>1 DEF Stores, Manifest
  <2>3. 1..manifest[k].count \subseteq 1..MaxChunks
    BY <2>2, BoundsAssumption
  <2>4. k = h.key => manifest[k].rev # h.old.rev \/ 1..h.old.count = {}
    BY <1>4, <1>6
  <2> QED BY <1>8, <2>1, <2>2, <2>3, <2>4
<1>10. Lasting' /\ Aged
  <2>1. Stores' /\ Forms'
    BY <1>3, <1>5, <1>8 DEF Lasting, Stores, Forms
  <2>2. Indexed'
    BY <1>3, <1>5 DEF Lasting, Indexed, ListedStay
  <2> QED BY <1>5, <1>9, <2>1, <2>2 DEF Lasting, Aged
<1>11. ASSUME faults' = 0
       PROVE  /\ Stored' = StoredBy(h)
              /\ \A k \in Keys, r \in Revs, x \in 1..MaxChunks :
                   chunk'[k][r][x] # None <=> Named(k, r, x)'
  <2>1. TidyBut(h) /\ left = {}
    BY <1>1, <1>2, <1>5, <1>7, <1>11 DEF Serves
  <2>2. Stored' = Stored /\ \A k, r, x : Named(k, r, x)' = Named(k, r, x)
    BY <1>5 DEF Stored, Named, LayoutOf
  <2>3. ASSUME NEW k \in Keys, NEW r \in Revs, NEW x \in 1..MaxChunks
        PROVE  chunk'[k][r][x] # None <=> Named(k, r, x)
    <3>1. chunk[k][r][x] # None <=> Named(k, r, x) \/ Spare(h, k, r, x)
      BY <2>1 DEF TidyBut
    <3>2. Spare(h, k, r, x) <=> k = h.key /\ r = h.old.rev /\ x \in 1..h.old.count
      BY <1>4 DEF Spare
    <3>3. Spare(h, k, r, x) => ~Named(k, r, x)
      <4>1. k = h.key => LayoutOf(k).rev = h.id
        BY <1>4 DEF LayoutOf
      <4> QED BY <1>4, <1>6, <3>2, <4>1 DEF Named
    <3> QED BY <1>8, <2>1, <3>1, <3>2, <3>3
  <2> QED BY <2>1, <2>2, <2>3 DEF TidyBut
<1>12. CASE h.op = "save"
  <2> DEFINE v == [h EXCEPT !.pc = "index"]
  <2>1. Continue(1, v)
    BY <1>2, <1>5, <1>12 DEF AfterRewrite
  <2>2. /\ v \in Job /\ v.id = h.id /\ v.op = h.op /\ v.pc = "index" /\ v.key = h.key
        /\ v.items = h.items /\ v.list = h.list /\ v.todo = h.todo
    BY <1>4 DEF Job
  <2> HIDE DEF v
  <2>3. ASSUME NEW j \in Job, j = v PROVE Serves(j)'
    <3>1. Shaped(j)'
      BY <1>4, <1>12, <2>2, <2>3 DEF Shaped, Places, Rewrites, Checks
    <3>2. Renews(j)'
      BY <1>12, <2>2, <2>3 DEF Renews, Rewrites
    <3>3. Lists(j)'
      BY <1>4, <1>5, <1>12, <2>2, <2>3 DEF Lists, Checks
    <3>4. ASSUME faults' = 0 PROVE TidyBut(j)'
      <4>1. StoredBy(j)' = StoredBy(h)
        BY <1>4, <1>5, <1>12, <2>2, <2>3 DEF StoredBy, Checks
      <4>2. \A k, r, x : ~Spare(j, k, r, x)'
        BY <2>2, <2>3 DEF Spare
      <4> QED BY <1>11, <1>12, <2>2, <2>3, <3>4, <4>1, <4>2 DEF TidyBut, Checks
    <3> QED BY <3>1, <3>2, <3>3, <3>4 DEF Serves
  <2> QED BY <1>1, <1>2, <1>5, <1>10, <2>1, <2>2, <2>3, Continued
<1>13. CASE h.op # "save"
  <2> DEFINE v == [h EXCEPT !.pc = "check", !.key = None, !.items = <<>>, !.old = NoLayout]
  <2>1. Continue(1, v)
    BY <1>2, <1>5, <1>13 DEF AfterRewrite
  <2>2. \A k \in h.todo : Before(k, h.id)'
    BY <1>4, <1>5, <1>13 DEF Renews, Before
  <2>3. StoredBy(h) = ToSet(h.list)
    BY <1>4, <1>13 DEF StoredBy, Checks
  <2> HIDE DEF v
  <2>4. v \in Job /\ v.id = h.id /\ \A j \in Job : j = v => Serves(j)'
    BY <1>3, <1>4, <1>5, <1>11, <1>13, <2>2, <2>3, BackToCheck DEF v
  <2> QED BY <1>1, <1>2, <1>5, <1>10, <2>1, <2>4, Continued
<1> QED BY <1>12, <1>13

-----------------------------------------------------------------------------
(* Steps that remove *)

\* What a removal leaves.
LEMMA RemovalIs ==
  ASSUME Stores, NEW k \in Keys, NEW bad \in BOOLEAN, RemoveGeneration(k, bad)
  PROVE  /\ manifest' \in [Keys -> Manifest \cup {None}]
         /\ manifest'[k] = None \/ manifest'[k] = manifest[k]
         /\ \A l \in Keys \ {k} : manifest'[l] = manifest[l]
         /\ chunk' \in [Keys -> [Revs -> [1..MaxChunks -> Message \cup {None}]]]
         /\ \A l \in Keys \ {k}, s \in Revs, x \in 1..MaxChunks :
              chunk'[l][s][x] = chunk[l][s][x]
         /\ kept' = kept \ {k} /\ listed' = listed \ {k} /\ saved' = saved
         /\ ~bad => /\ manifest'[k] = None
                    /\ \A s \in Revs, x \in 1..MaxChunks :
                         chunk'[k][s][x] = IF Named(k, s, x) THEN None ELSE chunk[k][s][x]
<1> DEFINE n == LayoutOf(k).count
           r == LayoutOf(k).rev
<1>1. PICK left \in SUBSET (0..n) :
        /\ left # {} => bad
        /\ manifest' = [manifest EXCEPT ![k] = IF 0 \in left THEN manifest[k] ELSE None]
        /\ DropChunks(k, r, 1..n \ left)
        /\ kept' = kept \ {k} /\ listed' = listed \ {k} /\ saved' = saved
  BY DEF RemoveGeneration
<1>2. r \in Revs /\ n \in 0..MaxChunks
  <2>1. LayoutOf(k) \in Layout
    BY LayoutIs
  <2> QED BY <2>1 DEF Layout
<1> HIDE DEF n, r
<1>3. /\ chunk' \in [Keys -> [Revs -> [1..MaxChunks -> Message \cup {None}]]]
      /\ \A l \in Keys, s \in Revs, x \in 1..MaxChunks :
           chunk'[l][s][x] = IF l = k /\ s = r /\ x \in (1..n \ left)
                             THEN None ELSE chunk[l][s][x]
  BY <1>1, <1>2, DropIs
<1>4. /\ manifest' \in [Keys -> Manifest \cup {None}]
      /\ manifest'[k] = IF 0 \in left THEN manifest[k] ELSE None
      /\ \A l \in Keys \ {k} : manifest'[l] = manifest[l]
  BY <1>1 DEF Stores
<1>5. ASSUME ~bad
      PROVE  /\ manifest'[k] = None
             /\ \A s \in Revs, x \in 1..MaxChunks :
                  chunk'[k][s][x] = IF Named(k, s, x) THEN None ELSE chunk[k][s][x]
  <2>1. left = {}
    BY <1>1, <1>5
  <2>2. \A s \in Revs, x \in 1..MaxChunks :
          Named(k, s, x) <=> s = r /\ x \in (1..n \ left)
    <3>1. n \in Nat /\ \A x \in 1..MaxChunks : x \in Nat /\ x >= 1
      BY <1>2, BoundsAssumption
    <3> QED BY <2>1, <3>1 DEF Named, n, r
  <2> QED BY <1>3, <1>4, <2>1, <2>2
<1>6. \A l \in Keys \ {k}, s \in Revs, x \in 1..MaxChunks : chunk'[l][s][x] = chunk[l][s][x]
  BY <1>3
<1>7. manifest'[k] = None \/ manifest'[k] = manifest[k]
  BY <1>4
<1> QED BY <1>1, <1>3, <1>4, <1>5, <1>6, <1>7

\* The other sessions stay as they are.
LEMMA Removed ==
  ASSUME Lasting, NEW k \in Keys, NEW bad \in BOOLEAN, RemoveGeneration(k, bad),
         index' = index, misread' = misread, faults' \in 0..MaxFaults
  PROVE  /\ Lasting' /\ Aged /\ kept' = kept \ {k} /\ listed' = listed \ {k}
         /\ \A l \in Keys \ {k} : manifest'[l] = manifest[l]
         /\ \A l \in Keys : \A n : Before(l, n) => Before(l, n)'
         /\ ~bad /\ (\A l \in Keys, r \in Revs, x \in 1..MaxChunks :
                       chunk[l][r][x] # None <=> Named(l, r, x)) =>
              /\ Stored' = Stored \ {k}
              /\ \A l \in Keys, r \in Revs, x \in 1..MaxChunks :
                   chunk'[l][r][x] # None <=> Named(l, r, x)'
<1>1. Stores /\ Forms /\ Indexed
  BY DEF Lasting
<1>2. /\ manifest' \in [Keys -> Manifest \cup {None}]
      /\ manifest'[k] = None \/ manifest'[k] = manifest[k]
      /\ \A l \in Keys \ {k} : manifest'[l] = manifest[l]
      /\ chunk' \in [Keys -> [Revs -> [1..MaxChunks -> Message \cup {None}]]]
      /\ \A l \in Keys \ {k}, s \in Revs, x \in 1..MaxChunks :
           chunk'[l][s][x] = chunk[l][s][x]
      /\ kept' = kept \ {k} /\ listed' = listed \ {k} /\ saved' = saved
      /\ ~bad => /\ manifest'[k] = None
                 /\ \A s \in Revs, x \in 1..MaxChunks :
                      chunk'[k][s][x] = IF Named(k, s, x) THEN None ELSE chunk[k][s][x]
  BY <1>1, RemovalIs
<1>3. Stores' /\ Forms'
  BY <1>1, <1>2 DEF Stores, Forms
<1>4. Committed'
  <2> SUFFICES ASSUME NEW l \in kept'
               PROVE  /\ manifest'[l] = manifest[l]
                      /\ \A x \in 1..manifest[l].count :
                           chunk'[l][manifest[l].rev][x] = chunk[l][manifest[l].rev][x]
    BY <1>2, StillCommitted
  <2>1. l \in Keys \ {k} /\ manifest[l] # None
    BY <1>1, <1>2 DEF Lasting, Stores, Committed, Whole
  <2>2. manifest[l].rev \in Revs /\ manifest[l].count \in 0..MaxChunks
    BY <1>1, <2>1 DEF Stores, Manifest
  <2>3. 1..manifest[l].count \subseteq 1..MaxChunks
    BY <2>2, BoundsAssumption
  <2> QED BY <1>2, <2>1, <2>2, <2>3
<1>5. Indexed'
  <2>1. \A l \in listed' : l \in Keys \ {k} /\ manifest[l] # None
    BY <1>1, <1>2 DEF Stores, Indexed
  <2> QED BY <1>1, <1>2, <2>1 DEF Indexed, ListedStay
<1>6. Aged /\ \A l \in Keys : \A n : Before(l, n) => Before(l, n)'
  BY <1>2 DEF Aged, Before
<1>7. ASSUME ~bad, \A l \in Keys, r \in Revs, x \in 1..MaxChunks :
                     chunk[l][r][x] # None <=> Named(l, r, x)
      PROVE  /\ Stored' = Stored \ {k}
             /\ \A l \in Keys, r \in Revs, x \in 1..MaxChunks :
                  chunk'[l][r][x] # None <=> Named(l, r, x)'
  <2>1. Stored' = Stored \ {k}
    BY <1>2, <1>7 DEF Stored
  <2>2. ASSUME NEW l \in Keys, NEW r \in Revs, NEW x \in 1..MaxChunks
        PROVE  chunk'[l][r][x] # None <=> Named(l, r, x)'
    <3>1. CASE l = k
      <4>1. ~Named(l, r, x)'
        <5>1. LayoutOf(l)'.count = 0
          BY <1>2, <1>7, <3>1 DEF LayoutOf, NoLayout
        <5>2. x \in Nat /\ x >= 1
          BY BoundsAssumption
        <5> QED BY <5>1, <5>2 DEF Named
      <4>2. chunk'[l][r][x] = None
        BY <1>2, <1>7, <3>1
      <4> QED BY <4>1, <4>2
    <3>2. CASE l # k
      <4>1. Named(l, r, x)' = Named(l, r, x)
        BY <1>2, <3>2 DEF Named, LayoutOf
      <4> QED BY <1>2, <1>7, <3>2, <4>1
    <3> QED BY <3>1, <3>2
  <2> QED BY <2>1, <2>2
<1> QED BY <1>2, <1>3, <1>4, <1>5, <1>6, <1>7 DEF Lasting

\* The messages of a session that leaves the index are removed.
LEMMA EvictStep ==
  ASSUME Inv, NEW i, NEW k \in Keys, NEW bad \in BOOLEAN, Evict(i, k, bad)
  PROVE  Inv'
<1>1. /\ i = 1 /\ queue # <<>> /\ queue[1] \in Job /\ queue[1].pc = "evict"
      /\ Serves(queue[1])
  BY HeadIs DEF Evict
<1>2. PICK h \in Job : h = queue[1]
  BY <1>1
<1>3. Lasting /\ Stores
  BY InvIs DEF Lasting
<1>4. /\ h.op \in {"save", "clear"} /\ h.pc = "evict" /\ k \in h.todo /\ h.todo \subseteq Keys
      /\ Shaped(h) /\ Lists(h)
  BY <1>1, <1>2, JobIs DEF Serves, Evict
<1>5. /\ faults' \in 0..MaxFaults /\ (faults' = 0 => faults = 0 /\ ~bad)
      /\ UNCHANGED <<index, calls, misread>> /\ RemoveGeneration(k, bad)
  BY <1>3, FaultIs DEF Evict
<1>6. /\ Lasting' /\ Aged /\ listed' = listed \ {k}
      /\ \A l \in Keys \ {k} : manifest'[l] = manifest[l]
      /\ ~bad /\ (\A l \in Keys, r \in Revs, x \in 1..MaxChunks :
                    chunk[l][r][x] # None <=> Named(l, r, x)) =>
           /\ Stored' = Stored \ {k}
           /\ \A l \in Keys, r \in Revs, x \in 1..MaxChunks :
                chunk'[l][r][x] # None <=> Named(l, r, x)'
  BY <1>3, <1>5, Removed
<1> DEFINE v == [h EXCEPT !.todo = h.todo \ {k}]
<1>7. Continue(1, v)
  BY <1>1, <1>2 DEF Evict
<1>8. /\ v \in Job /\ v.id = h.id /\ v.op = h.op /\ v.pc = "evict" /\ v.key = h.key
      /\ v.items = h.items /\ v.list = h.list /\ v.todo = h.todo \ {k}
  BY <1>4 DEF Job
<1> HIDE DEF v
<1>9. ASSUME NEW j \in Job, j = v PROVE Serves(j)'
  <2>1. Shaped(j)'
    BY <1>4, <1>8, <1>9 DEF Shaped, Places, Rewrites, Checks
  <2>2. Renews(j)'
    BY <1>4, <1>8, <1>9 DEF Renews, Rewrites
  <2>3. Lists(j)'
    <3>1. h.op = "save" => h.key \in Keys \ {k} /\ manifest[h.key] # None
      BY <1>4 DEF Shaped, Lists
    <3> QED BY <1>4, <1>5, <1>6, <1>8, <1>9, <3>1 DEF Lists, Checks
  <2>4. ASSUME faults' = 0 PROVE TidyBut(j)'
    <3>1. TidyBut(h) /\ ~bad
      BY <1>1, <1>2, <1>5, <2>4 DEF Serves
    <3>2. \A l, r, x : ~Spare(h, l, r, x) /\ ~Spare(j, l, r, x)'
      BY <1>4, <1>8, <1>9 DEF Spare
    <3>3. /\ Stored' = Stored \ {k}
          /\ \A l \in Keys, r \in Revs, x \in 1..MaxChunks :
               chunk'[l][r][x] # None <=> Named(l, r, x)'
      BY <1>6, <3>1, <3>2 DEF TidyBut
    <3>4. StoredBy(j)' = StoredBy(h) \ {k}
      <4>1. CASE h.op = "save"
        <5>1. StoredBy(h) = ToSet(h.list) \cup h.todo
          BY <1>4, <4>1 DEF StoredBy, Checks
        <5>2. StoredBy(j)' = ToSet(h.list) \cup (h.todo \ {k})
          BY <1>8, <1>9, <4>1 DEF StoredBy, Checks
        <5>3. k \notin ToSet(h.list)
          BY <1>4, <4>1 DEF Shaped
        <5> QED BY <5>1, <5>2, <5>3
      <4>2. CASE h.op = "clear"
        <5>1. StoredBy(h) = h.todo /\ StoredBy(j)' = h.todo \ {k}
          BY <1>4, <1>8, <1>9, <4>2 DEF StoredBy, Checks
        <5> QED BY <5>1
      <4> QED BY <1>4, <4>1, <4>2
    <3> QED BY <1>4, <1>8, <1>9, <3>1, <3>2, <3>3, <3>4 DEF TidyBut, Checks
  <2> QED BY <2>1, <2>2, <2>3, <2>4 DEF Serves
<1> QED BY <1>1, <1>2, <1>5, <1>6, <1>7, <1>8, <1>9, Continued

\* A session is removed before the index is read.
LEMMA RemoveSessionStep ==
  ASSUME Inv, NEW i, NEW k \in Keys, NEW bad \in BOOLEAN, RemoveSession(i, k, bad)
  PROVE  Inv'
<1>1. /\ i = 1 /\ queue # <<>> /\ queue[1] \in Job /\ queue[1].pc = "remove"
      /\ Serves(queue[1])
  BY HeadIs DEF RemoveSession
<1>2. PICK h \in Job : h = queue[1]
  BY <1>1
<1>3. Lasting /\ Stores
  BY InvIs DEF Lasting
<1>4. /\ h.op = "remove" /\ h.pc = "remove" /\ k \in h.todo /\ h.todo \subseteq Keys
      /\ Shaped(h)
  BY <1>1, <1>2, JobIs DEF Serves, RemoveSession
<1>5. /\ faults' \in 0..MaxFaults /\ (faults' = 0 => faults = 0 /\ ~bad)
      /\ UNCHANGED <<index, calls, misread>> /\ RemoveGeneration(k, bad)
  BY <1>3, FaultIs DEF RemoveSession
<1>6. /\ Lasting' /\ Aged /\ listed' = listed \ {k}
      /\ ~bad /\ (\A l \in Keys, r \in Revs, x \in 1..MaxChunks :
                    chunk[l][r][x] # None <=> Named(l, r, x)) =>
           /\ Stored' = Stored \ {k}
           /\ \A l \in Keys, r \in Revs, x \in 1..MaxChunks :
                chunk'[l][r][x] # None <=> Named(l, r, x)'
  BY <1>3, <1>5, Removed
<1> DEFINE v == [h EXCEPT !.todo = h.todo \ {k}, !.key = k, !.pc = "index"]
<1>7. Continue(1, v)
  BY <1>1, <1>2 DEF RemoveSession
<1>8. /\ v \in Job /\ v.id = h.id /\ v.op = "remove" /\ v.pc = "index" /\ v.key = k
      /\ v.list = h.list /\ v.todo = h.todo \ {k}
  BY <1>4 DEF Job
<1> HIDE DEF v
<1>9. ASSUME NEW j \in Job, j = v PROVE Serves(j)'
  <2>1. Shaped(j)'
    BY <1>4, <1>8, <1>9 DEF Shaped, Places, Rewrites, Checks
  <2>2. Renews(j)'
    BY <1>4, <1>8, <1>9 DEF Renews, Rewrites
  <2>3. Lists(j)'
    BY <1>5, <1>6, <1>8, <1>9 DEF Lists, Checks
  <2>4. ASSUME faults' = 0 PROVE TidyBut(j)'
    <3>1. TidyBut(h) /\ ~bad
      BY <1>1, <1>2, <1>5, <2>4 DEF Serves
    <3>2. \A l, r, x : ~Spare(h, l, r, x) /\ ~Spare(j, l, r, x)'
      BY <1>4, <1>8, <1>9 DEF Spare
    <3>3. /\ Stored' = Stored \ {k}
          /\ \A l \in Keys, r \in Revs, x \in 1..MaxChunks :
               chunk'[l][r][x] # None <=> Named(l, r, x)'
      BY <1>6, <3>1, <3>2 DEF TidyBut
    <3>4. StoredBy(h) = ToSet(index)
      BY <1>4 DEF StoredBy, Checks
    <3>5. StoredBy(j)' = ToSet(index) \ {k}
      BY <1>5, <1>8, <1>9 DEF StoredBy, Checks
    <3> QED BY <1>8, <1>9, <3>1, <3>2, <3>3, <3>4, <3>5 DEF TidyBut, Checks
  <2> QED BY <2>1, <2>2, <2>3, <2>4 DEF Serves
<1> QED BY <1>1, <1>2, <1>5, <1>6, <1>7, <1>8, <1>9, Continued

\* A session is checked: it leaves, is written anew, or stays.
LEMMA CheckStep ==
  ASSUME Inv, NEW i, NEW k \in Keys, NEW bad \in BOOLEAN, Check(i, k, bad)
  PROVE  Inv'
<1>1. /\ i = 1 /\ queue # <<>> /\ queue[1] \in Job /\ queue[1].pc = "check"
      /\ Serves(queue[1])
  BY HeadIs DEF Check
<1>2. PICK h \in Job : h = queue[1]
  BY <1>1
<1>3. Lasting /\ Stores /\ Forms /\ Indexed /\ Committed
  BY InvIs DEF Lasting
<1>4. /\ h.op \in {"read", "forget"} /\ h.pc = "check" /\ k \in h.todo
      /\ h.todo \subseteq Keys /\ h.list \in Seq(Keys) /\ h.id \in Nat
      /\ Shaped(h) /\ Lists(h) /\ Renews(h) /\ Checks(h)
  BY <1>1, <1>2, JobIs DEF Serves, Check, Checks
<1>5. /\ faults' \in 0..MaxFaults /\ (faults' = 0 => faults = 0 /\ ~bad)
      /\ UNCHANGED <<index, calls, misread>>
  BY <1>3, FaultIs DEF Check
<1>6. /\ IsInjective(h.list) /\ Len(h.list) <= MaxSessions /\ h.todo \subseteq ToSet(h.list)
      /\ \A l \in h.todo : Before(l, h.id)
      /\ ~misread => listed \subseteq ToSet(h.list)
  BY <1>4 DEF Shaped, Renews, Lists
<1>7. faults' = 0 =>
        /\ Stored = ToSet(h.list) /\ (~h.changed => h.list = index)
        /\ \A l \in Keys, r \in Revs, x \in 1..MaxChunks :
             chunk[l][r][x] # None <=> Named(l, r, x)
  <2>1. StoredBy(h) = ToSet(h.list)
    BY <1>4 DEF StoredBy
  <2>2. \A l, r, x : ~Spare(h, l, r, x)
    BY <1>4 DEF Spare
  <2> QED BY <1>1, <1>2, <1>4, <1>5, <2>1, <2>2 DEF Serves, TidyBut
<1>8. ASSUME NEW v, Continue(1, v), Lasting', Aged,
             v = [h EXCEPT !.todo = h.todo \ {k}, !.list = Without(h.list, k), !.changed = TRUE],
             \A l \in Keys : \A n : Before(l, n) => Before(l, n)',
             listed' \subseteq listed \ {k},
             faults' = 0 =>
               /\ Stored' = Stored \ {k}
               /\ \A l \in Keys, r \in Revs, x \in 1..MaxChunks :
                    chunk'[l][r][x] # None <=> Named(l, r, x)'
      PROVE  Inv'
  <2>1. /\ Without(h.list, k) \in Seq(Keys) /\ IsInjective(Without(h.list, k))
        /\ Len(Without(h.list, k)) <= MaxSessions
        /\ ToSet(Without(h.list, k)) = ToSet(h.list) \ {k}
    <3>1. /\ Without(h.list, k) \in Seq(Keys) /\ IsInjective(Without(h.list, k))
          /\ Len(Without(h.list, k)) <= Len(h.list)
          /\ ToSet(Without(h.list, k)) = ToSet(h.list) \ {k}
      BY <1>4, <1>6, WithoutIs
    <3>2. Len(Without(h.list, k)) \in Nat /\ Len(h.list) \in Nat /\ MaxSessions \in Nat
      BY <1>4, <3>1, BoundsAssumption
    <3>3. Len(Without(h.list, k)) <= MaxSessions
      BY <1>6, <3>1, <3>2
    <3> QED BY <3>1, <3>3
  <2>2. /\ v \in Job /\ v.id = h.id /\ v.op = h.op /\ v.pc = "check" /\ v.changed
        /\ v.list = Without(h.list, k) /\ v.todo = h.todo \ {k}
    BY <1>4, <1>8, <2>1 DEF Job
  <2>3. ASSUME NEW j \in Job, j = v PROVE Serves(j)'
    <3>1. Shaped(j)'
      BY <1>4, <1>6, <2>1, <2>2, <2>3 DEF Shaped, Places, Rewrites, Checks
    <3>2. Renews(j)'
      BY <1>4, <1>6, <1>8, <2>2, <2>3 DEF Renews, Rewrites
    <3>3. Lists(j)'
      BY <1>4, <1>5, <1>6, <1>8, <2>1, <2>2, <2>3 DEF Lists, Checks
    <3>4. ASSUME faults' = 0 PROVE TidyBut(j)'
      <4>1. StoredBy(j)' = ToSet(h.list) \ {k}
        BY <1>4, <2>1, <2>2, <2>3 DEF StoredBy, Checks
      <4>2. \A l, r, x : ~Spare(j, l, r, x)'
        BY <2>2, <2>3 DEF Spare
      <4> QED BY <1>7, <1>8, <2>2, <2>3, <3>4, <4>1, <4>2 DEF TidyBut, Checks
    <3> QED BY <3>1, <3>2, <3>3, <3>4 DEF Serves
  <2> QED BY <1>1, <1>2, <1>5, <1>8, <2>2, <2>3, Continued
<1>9. ASSUME UNCHANGED <<chunk, manifest, ghosts>>
      PROVE  /\ Lasting' /\ Aged /\ UNCHANGED <<chunk, manifest, saved, kept, listed>>
             /\ \A l \in Keys : \A n : Before(l, n)' = Before(l, n)
             /\ Stored' = Stored /\ \A l, r, x : Named(l, r, x)' = Named(l, r, x)
  <2>1. UNCHANGED <<chunk, manifest, saved, kept, listed>>
    BY <1>9 DEF ghosts
  <2>2. Lasting' /\ Aged
    BY <1>3, <1>5, <2>1, Untouched DEF Stores
  <2> QED BY <2>1, <2>2 DEF Before, Stored, Named, LayoutOf
<1> DEFINE left == [h EXCEPT !.todo = h.todo \ {k}, !.list = Without(h.list, k), !.changed = TRUE]
<1>10. CASE RemoveGeneration(k, bad) /\ Continue(1, left)
  <2>1. /\ Lasting' /\ Aged /\ listed' = listed \ {k}
        /\ \A l \in Keys : \A n : Before(l, n) => Before(l, n)'
        /\ ~bad /\ (\A l \in Keys, r \in Revs, x \in 1..MaxChunks :
                      chunk[l][r][x] # None <=> Named(l, r, x)) =>
             /\ Stored' = Stored \ {k}
             /\ \A l \in Keys, r \in Revs, x \in 1..MaxChunks :
                  chunk'[l][r][x] # None <=> Named(l, r, x)'
    BY <1>3, <1>5, <1>10, Removed
  <2>2. PICK v : v = left
    OBVIOUS
  <2>3. Continue(1, v)
    BY <1>10, <2>2
  <2> HIDE DEF left
  <2>4. faults' = 0 =>
          /\ Stored' = Stored \ {k}
          /\ \A l \in Keys, r \in Revs, x \in 1..MaxChunks :
               chunk'[l][r][x] # None <=> Named(l, r, x)'
    BY <1>5, <1>7, <2>1
  <2> QED BY <1>8, <2>1, <2>2, <2>3, <2>4 DEF left
<1>11. CASE manifest[k] = None /\ Continue(1, left) /\ UNCHANGED <<chunk, manifest, ghosts>>
  <2>1. k \notin listed /\ k \notin Stored
    BY <1>3, <1>11 DEF Indexed, Stored
  <2>2. PICK v : v = left
    OBVIOUS
  <2>3. Continue(1, v)
    BY <1>11, <2>2
  <2> HIDE DEF left
  <2>4. /\ Lasting' /\ Aged /\ listed' \subseteq listed \ {k} /\ Stored' = Stored \ {k}
        /\ \A l \in Keys : \A n : Before(l, n) => Before(l, n)'
    BY <1>9, <1>11, <2>1
  <2>5. faults' = 0 =>
          \A l \in Keys, r \in Revs, x \in 1..MaxChunks :
            chunk'[l][r][x] # None <=> Named(l, r, x)'
    BY <1>7, <1>9, <1>11
  <2> QED BY <1>8, <2>2, <2>3, <2>4, <2>5 DEF left
<1> DEFINE fine == [h EXCEPT !.todo = h.todo \ {k}]
           anew == [h EXCEPT !.todo = h.todo \ {k}, !.changed = TRUE, !.pc = "chunks",
                             !.key = k, !.items = Read(k), !.old = LayoutOf(k)]
<1>12. CASE /\ Read(k) # <<>> /\ UNCHANGED <<chunk, manifest, ghosts>>
            /\ Continue(1, anew)
  <2>1. /\ manifest[k] # None /\ Read(k) \in Messages /\ LayoutOf(k) \in Layout
        /\ k \in kept => saved[k] = Read(k)
    BY <1>3, <1>12, ReadIs, LayoutIs DEF Read, Committed
  <2>2. /\ anew \in Job /\ anew.id = h.id /\ anew.op = h.op /\ anew.pc = "chunks"
        /\ anew.changed /\ anew.key = k /\ anew.items = Read(k) /\ anew.old = LayoutOf(k)
        /\ anew.list = h.list /\ anew.todo = h.todo \ {k}
    BY <1>4, <2>1 DEF Job
  <2>3. LayoutOf(k).rev < h.id
    BY <1>4, <1>6, <2>1 DEF LayoutOf, Before
  <2> HIDE DEF anew, left, fine
  <2>4. /\ Lasting' /\ Aged /\ UNCHANGED <<chunk, manifest, saved, kept, listed>>
        /\ \A l \in Keys : \A n : Before(l, n)' = Before(l, n)
        /\ Stored' = Stored /\ \A l, r, x : Named(l, r, x)' = Named(l, r, x)
    BY <1>9, <1>12
  <2>5. ASSUME NEW j \in Job, j = anew PROVE Serves(j)'
    <3>1. Shaped(j)'
      BY <1>4, <1>6, <1>12, <2>2, <2>5 DEF Shaped, Places, Rewrites, Checks
    <3>2. Renews(j)'
      BY <1>4, <1>6, <2>1, <2>2, <2>3, <2>4, <2>5 DEF Renews, Rewrites
    <3>3. Lists(j)'
      BY <1>4, <1>5, <1>6, <2>2, <2>4, <2>5 DEF Lists, Checks
    <3>4. ASSUME faults' = 0 PROVE TidyBut(j)'
      <4>1. StoredBy(j)' = ToSet(h.list)
        BY <1>4, <2>2, <2>5 DEF StoredBy, Checks
      <4>2. \A l, r, x : ~Spare(j, l, r, x)'
        BY <2>2, <2>5 DEF Spare
      <4>3. LayoutOf(j.key)' = j.old
        BY <2>2, <2>4, <2>5 DEF LayoutOf
      <4> QED BY <1>7, <2>2, <2>4, <2>5, <3>4, <4>1, <4>2, <4>3 DEF TidyBut, Checks
    <3> QED BY <3>1, <3>2, <3>3, <3>4 DEF Serves
  <2> QED BY <1>1, <1>2, <1>5, <1>12, <2>2, <2>4, <2>5, Continued
<1>13. CASE UNCHANGED <<chunk, manifest, ghosts>> /\ Continue(1, fine)
  <2>1. /\ fine \in Job /\ fine.id = h.id /\ fine.op = h.op /\ fine.pc = "check"
        /\ fine.changed = h.changed /\ fine.list = h.list /\ fine.todo = h.todo \ {k}
    BY <1>4 DEF Job
  <2> HIDE DEF anew, left, fine
  <2>2. /\ Lasting' /\ Aged /\ UNCHANGED <<chunk, manifest, saved, kept, listed>>
        /\ \A l \in Keys : \A n : Before(l, n)' = Before(l, n)
        /\ Stored' = Stored /\ \A l, r, x : Named(l, r, x)' = Named(l, r, x)
    BY <1>9, <1>13
  <2>3. ASSUME NEW j \in Job, j = fine PROVE Serves(j)'
    <3>1. Shaped(j)'
      BY <1>4, <1>6, <2>1, <2>3 DEF Shaped, Places, Rewrites, Checks
    <3>2. Renews(j)'
      BY <1>4, <1>6, <2>1, <2>2, <2>3 DEF Renews, Rewrites
    <3>3. Lists(j)'
      BY <1>4, <1>5, <1>6, <2>1, <2>2, <2>3 DEF Lists, Checks
    <3>4. ASSUME faults' = 0 PROVE TidyBut(j)'
      <4>1. StoredBy(j)' = ToSet(h.list)
        BY <1>4, <2>1, <2>3 DEF StoredBy, Checks
      <4>2. \A l, r, x : ~Spare(j, l, r, x)'
        BY <2>1, <2>3 DEF Spare
      <4> QED BY <1>5, <1>7, <2>1, <2>2, <2>3, <3>4, <4>1, <4>2 DEF TidyBut, Checks
    <3> QED BY <3>1, <3>2, <3>3, <3>4 DEF Serves
  <2> QED BY <1>1, <1>2, <1>5, <1>13, <2>1, <2>2, <2>3, Continued
<1>14. \/ RemoveGeneration(k, bad) /\ Continue(1, left)
       \/ manifest[k] = None /\ Continue(1, left) /\ UNCHANGED <<chunk, manifest, ghosts>>
       \/ /\ Read(k) # <<>> /\ UNCHANGED <<chunk, manifest, ghosts>>
          /\ Continue(1, IF NeedsRewrite(k) THEN anew ELSE fine)
  <2>1. queue[i] = h /\ i = 1
    BY <1>1, <1>2
  <2>2. \/ RemoveGeneration(k, bad)
           /\ Continue(i, [queue[i] EXCEPT !.todo = queue[i].todo \ {k},
                             !.list = Without(queue[i].list, k), !.changed = TRUE])
        \/ manifest[k] = None
           /\ Continue(i, [queue[i] EXCEPT !.todo = queue[i].todo \ {k},
                             !.list = Without(queue[i].list, k), !.changed = TRUE])
           /\ UNCHANGED <<chunk, manifest, ghosts>>
        \/ Read(k) # <<>> /\ UNCHANGED <<chunk, manifest, ghosts>>
           /\ Continue(i, IF NeedsRewrite(k)
                          THEN [queue[i] EXCEPT !.todo = queue[i].todo \ {k},
                                  !.changed = TRUE, !.pc = "chunks",
                                  !.key = k, !.items = Read(k), !.old = LayoutOf(k)]
                          ELSE [queue[i] EXCEPT !.todo = queue[i].todo \ {k}])
    BY DEF Check
  <2> QED BY <2>1, <2>2
<1>15. CASE /\ Read(k) # <<>> /\ UNCHANGED <<chunk, manifest, ghosts>>
            /\ Continue(1, IF NeedsRewrite(k) THEN anew ELSE fine)
  <2> HIDE DEF anew, fine
  <2>1. Continue(1, anew) \/ Continue(1, fine)
    BY <1>15
  <2> QED BY <1>12, <1>13, <1>15, <2>1
<1> HIDE DEF anew, fine, left
<1> QED BY <1>10, <1>11, <1>14, <1>15

-----------------------------------------------------------------------------
(* The theorems *)

\* A list of a finite set has all its elements, each once.
LEMMA OrderedSet ==
  ASSUME NEW S, IsFiniteSet(S), NEW l \in SetToSeqs(S)
  PROVE  l \in Seq(S) /\ IsInjective(l) /\ ToSet(l) = S
<1> DEFINE n == Cardinality(S)
<1>1. n \in Nat /\ IsFiniteSet(1..n) /\ Cardinality(1..n) = n
  BY FS_CardinalityType, FS_Interval
<1>2. l \in [1..n -> S] /\ \A i, j \in 1..n : i # j => l[i] # l[j]
  BY DEF SetToSeqs
<1> HIDE DEF n
<1>3. IsInjective(l)
  BY <1>2 DEF IsInjective
<1>4. l \in Injection(1..n, S)
  BY <1>2, <1>3 DEF Injection
<1>5. Cardinality(1..n) = Cardinality(S)
  BY <1>1 DEF n
<1>6. l \in Surjection(1..n, S)
  BY <1>1, <1>4, <1>5, FS_Injection
<1>7. DOMAIN l = 1..n /\ \A s \in S : \E i \in 1..n : l[i] = s
  BY <1>2, <1>6 DEF Surjection
<1>8. ToSet(l) = S
  BY <1>2, <1>7 DEF ToSet
<1>9. l \in Seq(S)
  BY <1>1, <1>2
<1> QED BY <1>3, <1>8, <1>9

\* What is found at the start is tidy and whole.
LEMMA InitInv == Init => Inv
<1> SUFFICES ASSUME Init PROVE Inv
  OBVIOUS
<1>1. /\ MaxChunks \in Nat /\ MaxChunks >= 1 /\ MaxCalls \in Nat /\ MaxFaults \in Nat
      /\ MaxSessions \in Nat
      /\ 0 \in Revs /\ 1 \in 1..MaxChunks /\ 0 \in 0..MaxChunks /\ 1 \in 0..MaxChunks
  BY BoundsAssumption DEF Revs
<1>2. <<0, 1>> \in Message /\ <<0, 1>> # None
  <2>1. <<0, 1>> \in Message
    BY <1>1 DEF Message
  <2> QED BY <2>1, NothingAssumption
<1>3. <<>> \in Messages /\ <<<<0, 1>>>> \in Messages
  <2>1. <<>> \in Seq(Message) /\ Len(<<>>) <= MaxChunks
    BY <1>1
  <2>2. <<<<0, 1>>>> \in Seq(Message) /\ Len(<<<<0, 1>>>>) <= MaxChunks
    BY <1>1, <1>2
  <2> QED BY <2>1, <2>2, MessagesAre
<1>4. \A m \in Found : m = None \/
        /\ m \in Manifest /\ m # None /\ m.rev = 0 /\ m.count \in 0..MaxChunks
        /\ m.inline = <<>> \/ m.count = 0
  <2>1. \A m \in Found : m = None \/
          /\ m \in Manifest /\ m.rev = 0 /\ m.count \in 0..MaxChunks
          /\ m.inline = <<>> \/ m.count = 0
    BY <1>1, <1>3 DEF Found, Manifest
  <2> QED BY <2>1, NothingAssumption
<1>5. /\ manifest \in [Keys -> Manifest \cup {None}]
      /\ \A k \in Keys : manifest[k] # None =>
           /\ manifest[k] \in Manifest
           /\ manifest[k].rev = 0 /\ manifest[k].count \in 0..MaxChunks
           /\ manifest[k].inline = <<>> \/ manifest[k].count = 0
  <2>1. manifest \in [Keys -> Found]
    BY DEF Init
  <2> HIDE DEF Found
  <2> QED BY <1>4, <2>1
<1>6. /\ chunk \in [Keys -> [Revs -> [1..MaxChunks -> Message \cup {None}]]]
      /\ \A k \in Keys, r \in Revs, x \in 1..MaxChunks :
           chunk[k][r][x] = IF manifest[k] # None /\ r = 0 /\ x <= manifest[k].count
                            THEN <<0, 1>> ELSE None
  <2>1. chunk = [k \in Keys |-> [r \in Revs |-> [x \in 1..MaxChunks |->
                  IF manifest[k] # None /\ r = 0 /\ x <= manifest[k].count
                  THEN <<0, 1>> ELSE None]]]
    BY DEF Init
  <2> QED BY <1>2, <2>1
<1>7. Forms
  BY <1>5 DEF Forms
<1>8. /\ index \in Seq(Keys) /\ IsInjective(index) /\ Len(index) <= MaxSessions
      /\ ToSet(index) = Stored
  <2>1. index \in SetToSeqs(Stored) /\ Len(index) <= MaxSessions
    BY DEF Init, Stored
  <2>2. Stored \subseteq Keys /\ IsFiniteSet(Stored)
    BY KeysAssumption, FS_Subset DEF Stored
  <2>3. index \in Seq(Stored) /\ IsInjective(index) /\ ToSet(index) = Stored
    BY <2>1, <2>2, OrderedSet
  <2>4. index \in Seq(Keys)
    BY <2>2, <2>3
  <2> QED BY <2>1, <2>3, <2>4
<1>9. \A k \in Keys : Read(k) \in Messages /\ (Read(k) # <<>> => manifest[k] # None)
  <2> TAKE k \in Keys
  <2>1. CASE manifest[k] = None
    BY <1>3, <2>1 DEF Read
  <2>2. CASE manifest[k] # None
    <3>1. Read(k) = Reading(manifest[k], chunk[k])
      BY <2>2 DEF Read, Reading
    <3>2. chunk[k] \in [Revs -> [1..MaxChunks -> Message \cup {None}]]
      BY <1>6
    <3> QED BY <1>5, <2>2, <3>1, <3>2, ReadingIs
  <2> QED BY <2>1, <2>2
<1>10. /\ saved = [k \in Keys |-> Read(k)] /\ kept = {k \in Keys : Read(k) # <<>>}
       /\ listed = kept /\ misread = FALSE /\ queue = <<>> /\ calls = 0 /\ faults = 0
  BY DEF Init
<1>11. TypeOK
  <2>1. saved \in [Keys -> Messages] /\ kept \subseteq Keys /\ listed \subseteq Keys
    BY <1>9, <1>10
  <2>2. calls \in 0..MaxCalls /\ faults \in 0..MaxFaults
    <3>1. 0 \in 0..MaxCalls /\ 0 \in 0..MaxFaults
      BY <1>1
    <3> QED BY <1>10, <3>1
  <2>4. misread \in BOOLEAN
    BY <1>10
  <2>3. queue \in Seq(Job)
    BY <1>10
  <2> QED BY <1>5, <1>6, <1>8, <2>1, <2>2, <2>3, <2>4 DEF TypeOK
<1>12. Committed
  <2> SUFFICES ASSUME NEW k \in kept PROVE Whole(k) /\ Read(k) = saved[k]
    BY DEF Committed
  <2>1. k \in Keys /\ manifest[k] # None /\ Read(k) = saved[k]
    BY <1>9, <1>10
  <2>2. \A x \in 1..manifest[k].count : x \in 1..MaxChunks /\ x <= manifest[k].count
    BY <1>1, <1>5, <2>1
  <2>3. \A x \in 1..manifest[k].count : chunk[k][manifest[k].rev][x] # None
    BY <1>1, <1>2, <1>5, <1>6, <2>1, <2>2
  <2> QED BY <1>5, <2>1, <2>3 DEF Whole
<1>13. Indexed
  BY <1>8, <1>9, <1>10 DEF Indexed, ListedStay, Stored
<1>14. Ordered
  <2>1. \A k \in Keys : Before(k, calls + 1)
    BY <1>5, <1>10 DEF Before
  <2> QED BY <1>10, <2>1 DEF Ordered
<1>15. Tidy
  <2> SUFFICES ASSUME NEW k \in Keys, NEW r \in Revs, NEW x \in 1..MaxChunks
               PROVE  chunk[k][r][x] # None <=> Named(k, r, x)
    BY <1>8 DEF Tidy
  <2>1. x \in Nat /\ x >= 1
    BY <1>1
  <2>2. CASE manifest[k] = None
    BY <1>6, <2>1, <2>2 DEF Named, LayoutOf, NoLayout
  <2>3. CASE manifest[k] # None
    BY <1>2, <1>5, <1>6, <2>3 DEF Named, LayoutOf
  <2> QED BY <2>2, <2>3
<1> QED BY <1>7, <1>10, <1>11, <1>12, <1>13, <1>14, <1>15 DEF Inv

\* A step that changes nothing.
LEMMA StutterInv ==
  ASSUME Inv, UNCHANGED vars
  PROVE  Inv'
<1>1. /\ UNCHANGED <<chunk, manifest, index, queue, calls, faults, misread>>
      /\ UNCHANGED <<saved, kept, listed>>
  BY DEF vars
<1>2. TypeOK' /\ Forms' /\ Committed' /\ Indexed' /\ Ordered'
  BY <1>1 DEF Inv, TypeOK, Forms, Committed, Indexed, ListedStay, Ordered, Whole, Read,
              Before, Waiting
<1>3. CASE queue = <<>>
  BY <1>1, <1>2, <1>3 DEF Inv, Tidy, Stored, Named, LayoutOf
<1>4. CASE queue # <<>>
  <2>1. PICK h : h = queue[1]
    OBVIOUS
  <2>2. Serves(h)
    BY <1>4, <2>1 DEF Inv
  <2>3. Shaped(h)' /\ Renews(h)' /\ Lists(h)'
    BY <1>1, <2>2 DEF Serves, Shaped, Renews, Lists, Before, Checks, Rewrites
  <2>4. faults' = 0 => TidyBut(h)'
    BY <1>1, <2>2 DEF Serves, TidyBut, Stored, StoredBy, Checks, Named, Spare, LayoutOf
  <2>5. Serves(h)'
    BY <2>3, <2>4 DEF Serves
  <2> QED BY <1>1, <1>2, <1>4, <2>1, <2>5 DEF Inv
<1> QED BY <1>3, <1>4

\* Every step keeps the invariant.
LEMMA NextInv ==
  ASSUME Inv, [Next]_vars
  PROVE  Inv'
<1>1. CASE UNCHANGED vars
  BY <1>1, StutterInv
<1>2. CASE Step
  <2>1. PICK i \in DOMAIN queue, bad \in BOOLEAN :
          \/ ReadLayout(i, bad) \/ WriteChunks(i, bad) \/ WriteManifest(i, bad)
          \/ RemoveStale(i, bad) \/ ReadIndex(i, bad) \/ WriteIndex(i, bad) \/ DropIndex(i, bad)
          \/ \E k \in Keys : Evict(i, k, bad) \/ Check(i, k, bad) \/ RemoveSession(i, k, bad)
          \/ Evicted(i) \/ Checked(i)
    BY <1>2 DEF Step
  <2>2. CASE ReadLayout(i, bad) \/ WriteChunks(i, bad) \/ WriteManifest(i, bad)
             \/ RemoveStale(i, bad)
    BY <2>2, ReadLayoutStep, WriteChunksStep, WriteManifestStep, RemoveStaleStep
  <2>3. CASE ReadIndex(i, bad) \/ WriteIndex(i, bad) \/ DropIndex(i, bad)
    BY <2>3, ReadIndexStep, WriteIndexStep, DropIndexStep
  <2>4. ASSUME NEW k \in Keys, Evict(i, k, bad) \/ Check(i, k, bad) \/ RemoveSession(i, k, bad)
        PROVE  Inv'
    BY <2>4, EvictStep, CheckStep, RemoveSessionStep
  <2>5. CASE Evicted(i) \/ Checked(i)
    BY <2>5, EvictedStep, CheckedStep
  <2> QED BY <2>1, <2>2, <2>3, <2>4, <2>5
<1>3. CASE Crash
  BY <1>3, CrashStep
<1>4. 0 \in 0..MaxChunks /\ {} \in SUBSET Keys /\ None \in Keys \cup {None}
  BY BoundsAssumption
<1>5. ASSUME NEW k \in Keys, DeleteSession(k) PROVE Inv'
  <2>1. {k} \in SUBSET Keys
    OBVIOUS
  <2> QED BY <1>4, <1>5, <2>1, CallStep DEF DeleteSession
<1>6. ASSUME NEW k \in Keys, NEW n \in 1..MaxChunks, SaveMessages(k, n) PROVE Inv'
  <2>1. n \in 0..MaxChunks /\ n # 0
    BY BoundsAssumption
  <2> QED BY <1>4, <1>6, <2>1, CallStep DEF SaveMessages
<1>7. CASE ReadSessions \/ DeleteMessages \/ ClearAll
  BY <1>4, <1>7, CallStep DEF ReadSessions, DeleteMessages, ClearAll
<1> QED BY <1>1, <1>2, <1>3, <1>5, <1>6, <1>7 DEF Next

\* The invariant holds always.
LEMMA Invariance == Spec => []Inv
<1>1. Inv /\ [Next]_vars => Inv'
  BY NextInv
<1> QED BY InitInv, <1>1, PTL DEF Spec

\* Stored values and jobs keep their types; the index keeps its limit and lists no
\* session twice.
THEOREM CacheTypeCorrect == Spec => []TypeOK
<1>1. Inv => TypeOK
  BY DEF Inv
<1> QED BY <1>1, Invariance, PTL

\* Whatever fails or dies while a session is saved anew, checked or rewritten, the messages
\* that were committed are read back whole (writeGenerationMessages).
THEOREM CommittedRead == Spec => []CommittedReadable
<1>1. Inv => CommittedReadable
  BY DEF Inv, Committed, CommittedReadable, Whole
<1> QED BY <1>1, Invariance, PTL

\* Only a failing read that makes the index look empty drops a session from it before its
\* removal begins (runWithIndexLock, readIndex).
THEOREM ListedKept == Spec => []ListedStay
<1>1. Inv => ListedStay
  BY DEF Inv, Indexed
<1> QED BY <1>1, Invariance, PTL

\* As long as nothing fails, no chunk and no session is left behind by calls that are over.
THEOREM NothingLeft == Spec => []NothingLeftBehind
<1>1. Inv => NothingLeftBehind
  BY DEF Inv, Tidy, Stored, Named, NothingLeftBehind
<1> QED BY <1>1, Invariance, PTL

\* Of all steps only the write of a manifest stores one where there was none, and then its
\* job is a save: a reader rewrites a session that is there (sanitizeIndexedSession).
THEOREM RemovedKept == Spec => RemovedStaysRemoved
<1> DEFINE Restored(k) == (manifest[k] = None /\ manifest'[k] # None) =>
             \E i \in DOMAIN queue : queue[i].op = "save" /\ queue[i].key = k
<1>1. ASSUME Inv, [Next]_vars, NEW k \in Keys PROVE Restored(k)
  <2> SUFFICES ASSUME manifest[k] = None, manifest'[k] # None
               PROVE  \E i \in DOMAIN queue : queue[i].op = "save" /\ queue[i].key = k
    OBVIOUS
  <2>1. Stores
    BY <1>1, InvIs DEF Lasting
  <2>2. manifest' # manifest
    OBVIOUS
  <2>3. ~UNCHANGED vars /\ ~Crash /\ \A j : ~Call(j)
    BY <2>2 DEF vars, Crash, Call
  <2>4. Step
    BY <1>1, <2>3 DEF Next, DeleteSession, SaveMessages, ReadSessions, DeleteMessages, ClearAll
  <2>5. PICK i \in DOMAIN queue, bad \in BOOLEAN :
          \/ ReadLayout(i, bad) \/ WriteChunks(i, bad) \/ WriteManifest(i, bad)
          \/ RemoveStale(i, bad) \/ ReadIndex(i, bad) \/ WriteIndex(i, bad) \/ DropIndex(i, bad)
          \/ \E l \in Keys : Evict(i, l, bad) \/ Check(i, l, bad) \/ RemoveSession(i, l, bad)
          \/ Evicted(i) \/ Checked(i)
    BY <2>4 DEF Step
  <2>6. \A l \in Keys : ~RemoveGeneration(l, bad)
    <3>1. \A l \in Keys : RemoveGeneration(l, bad) =>
            \/ manifest'[l] = None \/ manifest'[l] = manifest[l]
      BY <2>1, RemovalIs
    <3>2. \A l \in Keys : RemoveGeneration(l, bad) =>
            \A m \in Keys \ {l} : manifest'[m] = manifest[m]
      BY <2>1, RemovalIs
    <3> QED BY <3>1, <3>2
  <2>7. WriteManifest(i, bad)
    BY <2>2, <2>5, <2>6 DEF ReadLayout, WriteChunks, RemoveStale, ReadIndex, WriteIndex,
         DropIndex, Evict, Check, RemoveSession, Evicted, Checked
  <2>8. i = 1 /\ queue[1] \in Job /\ queue[1].pc = "manifest" /\ Serves(queue[1])
    BY <1>1, <2>7, HeadIs DEF WriteManifest
  <2>9. manifest'[k] = manifest[k] \/ k = queue[i].key
    BY <2>1, <2>2, <2>7 DEF WriteManifest, Stores
  <2>10. queue[1].op = "save" \/ manifest[queue[1].key] # None
    BY <2>8 DEF Serves, Renews
  <2> QED BY <2>8, <2>9, <2>10
<1>2. Inv /\ [Next]_vars => \A k \in Keys : Restored(k)
  BY <1>1
<1>3. Inv /\ [Next]_vars => [\A k \in Keys : Restored(k)]_vars
  BY <1>2
<1> QED BY <1>3, Invariance, PTL DEF Spec, RemovedStaysRemoved
=============================================================================
