---------------------- MODULE PairingRegistryProofs ----------------------
(***************************************************************************)
(* What holds of PairingRegistry for every set of codes, tokens, workers   *)
(* and connects, and every token limit, with requests overlapping in any   *)
(* way and dying at any await.                                             *)
(***************************************************************************)
EXTENDS PairingRegistry, SequenceTheorems, TLAPS

Tally == {s \in Seq(Tokens) : Len(s) <= TokenMax}

(* A new token is in front, no other token is new, and the limit is kept. *)
LEMMA WithTokenBounded ==
    ASSUME NEW s \in Tally, NEW t \in Tokens
    PROVE  /\ WithToken(s, t) \in Tally
           /\ ToSet(WithToken(s, t)) \subseteq {t} \cup ToSet(s)
  <1> DEFINE n == IF Len(s) < TokenMax THEN Len(s) + 1 ELSE TokenMax
             w == <<t>> \o s
  <1>1. n \in Nat /\ 1 <= n /\ n <= Len(s) + 1 /\ n <= TokenMax
    BY TokenMaxAssumption DEF Tally
  <1>2. /\ w \in Seq(Tokens) /\ Len(w) = Len(s) + 1
        /\ \A i \in 1..Len(w) : w[i] = IF i = 1 THEN t ELSE s[i - 1]
    BY DEF Tally
  <1>3. /\ SubSeq(w, 1, n) \in Seq(Tokens)
        /\ Len(SubSeq(w, 1, n)) = n
        /\ \A i \in 1..n : SubSeq(w, 1, n)[i] = w[i]
    BY <1>1, <1>2
  <1>4. WithToken(s, t) = SubSeq(w, 1, n)
    BY DEF WithToken
  <1>5. \A i \in 1..n : w[i] \in {t} \cup ToSet(s)
    BY <1>1, <1>2 DEF ToSet, Tally
  <1>6. DOMAIN SubSeq(w, 1, n) = 1..n
    BY <1>3
  <1>7. ToSet(SubSeq(w, 1, n)) \subseteq {t} \cup ToSet(s)
    BY <1>3, <1>5, <1>6 DEF ToSet
  <1> QED
    BY <1>1, <1>3, <1>4, <1>7 DEF Tally

(* Putting a token in front of a sequence adds it to the elements. *)
LEMMA ToSetCons ==
    ASSUME NEW s \in Seq(Tokens), NEW t \in Tokens
    PROVE  /\ <<t>> \o s \in Seq(Tokens)
           /\ ToSet(<<t>> \o s) = {t} \cup ToSet(s)
  <1> DEFINE w == <<t>> \o s
  <1>1. /\ w \in Seq(Tokens) /\ Len(w) = Len(s) + 1 /\ DOMAIN w = 1..(Len(s) + 1)
        /\ DOMAIN s = 1..Len(s) /\ Len(s) \in Nat
        /\ w[1] = t /\ \A i \in 1..Len(s) : w[i + 1] = s[i]
    OBVIOUS
  <1>2. \A i \in 1..(Len(s) + 1) : i = 1 \/ (i - 1 \in 1..Len(s) /\ w[i] = s[i - 1])
    BY <1>1
  <1> HIDE DEF w
  <1>3. ASSUME NEW i \in DOMAIN w PROVE w[i] \in {t} \cup ToSet(s)
    <2>1. i = 1 \/ (i - 1 \in DOMAIN s /\ w[i] = s[i - 1])
      BY <1>1, <1>2
    <2> QED BY <1>1, <2>1 DEF ToSet
  <1>4. t \in ToSet(w)
    BY <1>1 DEF ToSet
  <1>5. ASSUME NEW i \in 1..Len(s) PROVE s[i] \in ToSet(w)
    <2>1. i + 1 \in DOMAIN w /\ w[i + 1] = s[i]
      BY <1>1
    <2> QED BY <2>1 DEF ToSet
  <1>6. ToSet(w) \subseteq {t} \cup ToSet(s)
    BY <1>3 DEF ToSet
  <1>7. {t} \cup ToSet(s) \subseteq ToSet(w)
    BY <1>1, <1>4, <1>5 DEF ToSet
  <1> QED BY <1>1, <1>6, <1>7 DEF w

-----------------------------------------------------------------------------
(* Type correctness *)

(* A check whose held flag is weakened, or that is given another stage once *)
(* it has begun, is still a check. *)
LEMMA CheckUpdates ==
    ASSUME NEW k \in Check
    PROVE  /\ \A b \in BOOLEAN : [k EXCEPT !.held = k.held /\ b] \in Check
           /\ \A s \in {"accepted", "rejected", "verifying", "unverified"} :
                k.stage # "idle" => [k EXCEPT !.stage = s] \in Check
  <1> DEFINE none == [stage: {"idle"}, token: {None}, mirrored: {{}}, held: {FALSE}]
             begun == [stage: {"reading", "verifying", "accepted", "rejected", "unverified"},
                       token: Tokens \cup {Secret}, mirrored: SUBSET Tokens,
                       held: BOOLEAN]
  <1>1. /\ k \in none \/ k \in begun
        /\ none \subseteq Check /\ begun \subseteq Check
    BY DEF Check
  <1>2. CASE k \in none
    <2>1. k.held = FALSE /\ k.stage = "idle"
      BY <1>2
    <2>2. \A b \in BOOLEAN : (k.held /\ b) = FALSE
      BY <2>1
    <2>3. [k EXCEPT !.held = FALSE] \in none
      BY <1>2
    <2> QED BY <1>1, <2>1, <2>2, <2>3
  <1>3. CASE k \in begun
    <2>1. \A b \in BOOLEAN : [k EXCEPT !.held = b] \in begun
      BY <1>3
    <2>2. \A b \in BOOLEAN : (k.held /\ b) \in BOOLEAN
      BY <1>3
    <2>3. \A s \in {"accepted", "rejected", "verifying", "unverified"} :
            [k EXCEPT !.stage = s] \in begun
      BY <1>3
    <2> HIDE DEF begun, none
    <2> QED BY <1>1, <2>1, <2>2, <2>3
  <1> QED BY <1>1, <1>2, <1>3

(* What a put does to the checks keeps their type. *)
LEMMA PutType ==
    ASSUME TypeOK, NEW r \in Record, Put(r)
    PROVE  /\ record' \in Record \cup {None}
           /\ older' \subseteq Record \cup {None}
           /\ check' \in [Checks -> Check]
  <1>1. ASSUME NEW c \in Checks
        PROVE  [check[c] EXCEPT !.held = @ /\ Holds(r, check[c].token)] \in Check
    <2>1. check[c] \in Check
      BY DEF TypeOK
    <2>2. Holds(r, check[c].token) \in BOOLEAN
      BY DEF Holds
    <2> QED BY <2>1, <2>2, CheckUpdates
  <1> QED BY <1>1 DEF TypeOK, Put

(* A check given another stage is still a check. *)
LEMMA OutcomeType ==
    ASSUME TypeOK, NEW c \in Checks,
           check[c].stage # "idle",
           NEW stage \in {"accepted", "rejected", "verifying", "unverified"},
           Outcome(c, stage)
    PROVE  TypeOK'
  <1>1. check[c] \in Check
    BY DEF TypeOK
  <1>2. [check[c] EXCEPT !.stage = stage] \in Check
    BY <1>1, CheckUpdates
  <1> QED BY <1>2 DEF TypeOK, Outcome

(* The initial state is well typed. *)
LEMMA TypeInit == Init => TypeOK
  BY NamesAssumption DEF Init, TypeOK, Idle, NoCheck, Request, Check

(* Every step of a request keeps the types. *)
LEMMA TypeRequest ==
    ASSUME TypeOK, NEW q \in Workers, RegistryStep(q)
    PROVE  TypeOK'
  <1>1. CASE \E k \in Codes : StartRefresh(q, k)
    <2>1. PICK k \in Codes : StartRefresh(q, k)
      BY <1>1
    <2>2. Refreshed(record, k) \in Record
      BY <2>1 DEF StartRefresh, Refreshed, TypeOK, Record
    <2>3. [Idle EXCEPT !.stage = "writing", !.code = k, !.next = Refreshed(record, k)] \in Request
      BY <2>2 DEF Idle, Request
    <2>4. request' \in [Workers -> Request]
      BY <2>1, <2>3 DEF StartRefresh, TypeOK
    <2> QED BY <2>1, <2>4 DEF StartRefresh, TypeOK
  <1>2. CASE \E k \in Codes, t \in Tokens : StartClaim(q, k, t)
    <2>1. PICK k \in Codes, t \in Tokens : StartClaim(q, k, t)
      BY <1>2
    <2>2. record.tokens \in Tally
      BY <2>1 DEF StartClaim, TypeOK, Record, Tally
    <2>3. WithToken(record.tokens, t) \in Tally
      BY <2>2, WithTokenBounded
    <2>4. Claimed(record, t) \in Record
      BY <2>3 DEF Claimed, Record, Tally
    <2>5. [Idle EXCEPT !.stage = "writing", !.code = k, !.token = t,
                       !.next = Claimed(record, t)] \in Request
      BY <2>4 DEF Idle, Request
    <2>6. request' \in [Workers -> Request]
      BY <2>1, <2>5 DEF StartClaim, TypeOK
    <2> QED BY <2>1, <2>6 DEF StartClaim, TypeOK
  <1>3. CASE WriteRefresh(q)
    <2>1. Put(request[q].next) /\ request[q].next \in Record
      BY <1>3 DEF WriteRefresh, TypeOK, Request, Idle
    <2>2. /\ record' \in Record \cup {None}
          /\ older' \subseteq Record \cup {None}
          /\ check' \in [Checks -> Check]
      BY <2>1, PutType
    <2>3. [request[q] EXCEPT !.stage = "answering"] \in Request
      BY <1>3 DEF WriteRefresh, TypeOK, Request, Idle
    <2>4. request' \in [Workers -> Request]
      BY <1>3, <2>3 DEF WriteRefresh, TypeOK
    <2> QED BY <1>3, <2>2, <2>4 DEF WriteRefresh, TypeOK
  <1>4. CASE WriteClaim(q)
    <2>1. /\ Put(request[q].next) /\ request[q].next \in Record
          /\ request[q].token \in Tokens /\ request[q].code \in Codes
      BY <1>4 DEF WriteClaim, TypeOK, Request, Idle
    <2>2. /\ record' \in Record \cup {None}
          /\ older' \subseteq Record \cup {None}
          /\ check' \in [Checks -> Check]
      BY <2>1, PutType
    <2>3. [request[q] EXCEPT !.stage = "syncing"] \in Request
      BY <1>4 DEF WriteClaim, TypeOK, Request, Idle
    <2>4. request' \in [Workers -> Request]
      BY <1>4, <2>3 DEF WriteClaim, TypeOK
    <2>5. <<request[q].token>> \o history.written \in Seq(Tokens)
      BY <2>1, ToSetCons DEF TypeOK
    <2> QED BY <1>4, <2>1, <2>2, <2>4, <2>5 DEF WriteClaim, TypeOK
  <1>5. CASE Sync(q)
    <2>1. request[q].next.tokens \in Seq(Tokens)
      BY <1>5 DEF Sync, TypeOK, Request, Idle, Record
    <2>2. ToSet(request[q].next.tokens) \subseteq Tokens
      BY <2>1 DEF ToSet
    <2>3. [request[q] EXCEPT !.stage = "answering", !.synced = TRUE] \in Request
      <3>1. request[q] \in [stage: {"writing", "syncing", "answering"}, code: Codes,
                           token: Tokens \cup {None}, next: Record, synced: BOOLEAN]
        BY <1>5 DEF Sync, TypeOK, Request, Idle
      <3>2. [request[q] EXCEPT !.stage = "answering", !.synced = TRUE]
               \in [stage: {"writing", "syncing", "answering"}, code: Codes,
                   token: Tokens \cup {None}, next: Record, synced: BOOLEAN]
        BY <3>1
      <3> QED BY <3>2 DEF Request
    <2>4. request' \in [Workers -> Request]
      BY <1>5, <2>3 DEF Sync, TypeOK
    <2> QED BY <1>5, <2>2, <2>4 DEF Sync, TypeOK
  <1>6. CASE SyncFailed(q)
    <2>1. [request[q] EXCEPT !.stage = "answering"] \in Request
      BY <1>6 DEF SyncFailed, TypeOK, Request, Idle
    <2> QED BY <1>6, <2>1 DEF SyncFailed, TypeOK
  <1>7. CASE Answer(q)
    <2>1. /\ request[q].code \in Codes
          /\ request[q].token \in Tokens \cup {None}
      BY <1>7 DEF Answer, TypeOK, Request, Idle
    <2>2. request' \in [Workers -> Request]
      BY <1>7 DEF Answer, TypeOK, Request
    <2>3. CASE request[q].token = None
      BY <1>7, <2>1, <2>2, <2>3 DEF Answer, TypeOK
    <2>4. CASE request[q].token # None
      BY <1>7, <2>1, <2>2, <2>4 DEF Answer, TypeOK
    <2> QED BY <2>3, <2>4
  <1>8. CASE Die(q)
    <2>1. request' \in [Workers -> Request]
      BY <1>8 DEF Die, TypeOK, Request
    <2> QED BY <1>8, <2>1 DEF Die, TypeOK
  <1> QED BY <1>1, <1>2, <1>3, <1>4, <1>5, <1>6, <1>7, <1>8 DEF RegistryStep

(* Every step of a check keeps the types. *)
LEMMA TypeCheck ==
    ASSUME TypeOK, NEW c \in Checks, CheckStep(c)
    PROVE  TypeOK'
  <1>1. CASE \E credential \in Tokens \cup {Secret} : StartCheck(c, credential)
    <2>1. PICK credential \in Tokens \cup {Secret} : StartCheck(c, credential)
      BY <1>1
    <2>2. Holds(record, credential) \in BOOLEAN
      BY DEF Holds
    <2>3. [stage |-> "reading", token |-> credential, mirrored |-> mirror,
           held |-> Holds(record, credential)] \in Check
      BY <2>2 DEF Check, TypeOK
    <2>4. check' \in [Checks -> Check]
      BY <2>1, <2>3 DEF StartCheck, TypeOK
    <2> QED BY <2>1, <2>4 DEF StartCheck, TypeOK
  <1>2. CASE ReadRecord(c)
    <2>1. \/ Outcome(c, "accepted")
          \/ Outcome(c, "verifying")
      BY <1>2 DEF ReadRecord
    <2>2. check[c].stage # "idle"
      BY <1>2 DEF ReadRecord
    <2> QED BY <2>1, <2>2, OutcomeType
  <1>3. CASE Verify(c)
    <2>1. \/ Outcome(c, "accepted")
          \/ Outcome(c, "rejected")
      BY <1>3 DEF Verify
    <2>2. check[c].stage # "idle"
      BY <1>3 DEF Verify
    <2> QED BY <2>1, <2>2, OutcomeType
  <1>4. CASE VerifyFailed(c)
    <2>1. Outcome(c, "unverified") /\ check[c].stage # "idle"
      BY <1>4 DEF VerifyFailed
    <2> QED BY <2>1, OutcomeType
  <1>5. CASE EndCheck(c)
    <2>1. check' \in [Checks -> Check]
      BY <1>5 DEF EndCheck, TypeOK, Check, NoCheck
    <2> QED BY <1>5, <2>1 DEF EndCheck, TypeOK
  <1> QED BY <1>1, <1>2, <1>3, <1>4, <1>5 DEF CheckStep

(* Every step keeps the types. *)
LEMMA TypeStep == TypeOK /\ [Next]_vars => TypeOK'
  <1> SUFFICES ASSUME TypeOK, [Next]_vars PROVE TypeOK'
    OBVIOUS
  <1>1. CASE \E k \in Codes : Register(k)
    <2>1. PICK k \in Codes : Register(k)
      BY <1>1
    <2>2. [code |-> k, tokens |-> <<>>] \in Record
      BY TokenMaxAssumption DEF Record
    <2>3. /\ record' \in Record \cup {None}
          /\ older' \subseteq Record \cup {None}
          /\ check' \in [Checks -> Check]
      BY <2>1, <2>2, PutType DEF Register
    <2> QED BY <2>1, <2>3 DEF Register, TypeOK
  <1>2. CASE \E k \in Codes : Expire(k)
    BY <1>2 DEF Expire, TypeOK
  <1>3. CASE \E r \in older : Propagate(r)
    BY <1>3 DEF Propagate, TypeOK
  <1>4. CASE Restart
    BY <1>4 DEF Restart, LoadMirror, TypeOK, Check, NoCheck
  <1>5. CASE \E q \in Workers : RegistryStep(q)
    BY <1>5, TypeRequest
  <1>6. CASE \E c \in Checks : CheckStep(c)
    BY <1>6, TypeCheck
  <1>7. CASE UNCHANGED vars
    BY <1>7 DEF vars, TypeOK
  <1> QED BY <1>1, <1>2, <1>3, <1>4, <1>5, <1>6, <1>7 DEF Next

(* The variables keep their types. *)
THEOREM PairingTypeCorrect == Spec => []TypeOK
  BY TypeInit, TypeStep, PTL DEF Spec

-----------------------------------------------------------------------------
(* Claimed codes *)

Refreshing(q) == request[q].stage # "idle" /\ request[q].token = None
Claiming(q) == request[q].stage # "idle" /\ request[q].token # None

(* Codes are drawn before they are printed and printed before they are        *)
(* claimed; no two refreshes draw the same code; a code that a refresh has    *)
(* yet to put is not printed. A claimed code is therefore never put again.    *)
CodesInv ==
    /\ history.spent \subseteq history.printed
    /\ history.printed \subseteq drawn
    /\ \A q \in Workers :
          /\ Claiming(q) => request[q].code \in history.printed /\ request[q].next.code = None
          /\ Refreshing(q) => request[q].code \in drawn /\ request[q].next.code = request[q].code
          /\ Refreshing(q) /\ request[q].stage = "writing" => request[q].code \notin history.printed
    /\ \A p, q \in Workers :
          p # q /\ Refreshing(p) /\ Refreshing(q) => request[p].code # request[q].code
    /\ SpentCodeStaysSpent

(* Steps that leave the requests, the codes and the record alone. *)
LEMMA CodesElsewhere ==
    ASSUME CodesInv, UNCHANGED <<record, drawn, request, history>>
    PROVE  CodesInv'
  BY DEF CodesInv, SpentCodeStaysSpent, Refreshing, Claiming

(* A request that ends, or moves on without a put, prints no code. *)
LEMMA CodesMove ==
    ASSUME TypeOK, CodesInv, NEW q \in Workers, NEW stage \in {"idle", "answering"},
           NEW r \in Request, r.stage = stage,
           stage = "idle" \/ (/\ request[q].stage # "idle" /\ r.code = request[q].code
                             /\ r.token = request[q].token /\ r.next = request[q].next),
           request' = [request EXCEPT ![q] = r],
           UNCHANGED <<record, drawn, history>>
    PROVE  CodesInv'
  <1>1. \A p \in Workers : p # q => request'[p] = request[p]
    BY DEF TypeOK
  <1>2. request'[q] = r
    BY DEF TypeOK
  <1>3. ASSUME NEW p \in Workers
        PROVE  /\ Refreshing(p)' => /\ Refreshing(p)
                                   /\ request'[p].code = request[p].code
                                   /\ request'[p].next = request[p].next
               /\ Claiming(p)' => /\ Claiming(p)
                                 /\ request'[p].code = request[p].code
                                 /\ request'[p].next = request[p].next
               /\ request'[p].stage = "writing" => request[p].stage = "writing"
    BY <1>1, <1>2 DEF Refreshing, Claiming
  <1> QED BY <1>3 DEF CodesInv, SpentCodeStaysSpent

(* Every step of a request keeps the invariant of the codes. *)
LEMMA CodesRequest ==
    ASSUME TypeOK, CodesInv, NEW q \in Workers, RegistryStep(q)
    PROVE  CodesInv'
  <1>1. CASE \E k \in Codes : StartRefresh(q, k)
    <2>1. PICK k \in Codes : StartRefresh(q, k)
      BY <1>1
    <2>2. /\ request'[q].stage = "writing" /\ request'[q].token = None
          /\ request'[q].code = k /\ request'[q].next.code = k
          /\ k \notin drawn /\ drawn' = drawn \cup {k}
          /\ \A p \in Workers : p # q => request'[p] = request[p]
      BY <2>1 DEF StartRefresh, Refreshed, Idle, TypeOK, Record
    <2>3. UNCHANGED <<record, history>>
      BY <2>1 DEF StartRefresh
    <2> QED BY <2>2, <2>3 DEF CodesInv, SpentCodeStaysSpent, Refreshing, Claiming
  <1>2. CASE \E k \in Codes, t \in Tokens : StartClaim(q, k, t)
    <2>1. PICK k \in Codes, t \in Tokens : StartClaim(q, k, t)
      BY <1>2
    <2>2. /\ request'[q].stage = "writing" /\ request'[q].token # None
          /\ request'[q].code = k /\ request'[q].next.code = None
          /\ k \in history.printed /\ drawn' = drawn \cup {t}
          /\ \A p \in Workers : p # q => request'[p] = request[p]
      BY <2>1, NamesAssumption DEF StartClaim, Claimed, Idle, TypeOK
    <2>3. UNCHANGED <<record, history>>
      BY <2>1 DEF StartClaim
    <2> QED BY <2>2, <2>3 DEF CodesInv, SpentCodeStaysSpent, Refreshing, Claiming
  <1>3. CASE WriteRefresh(q)
    <2>1. /\ record' = request[q].next
          /\ request'[q] = [request[q] EXCEPT !.stage = "answering"]
          /\ \A p \in Workers : p # q => request'[p] = request[p]
          /\ UNCHANGED <<drawn, history.printed, history.spent>>
      BY <1>3 DEF WriteRefresh, Put, TypeOK
    <2>2. /\ request'[q].stage = "answering" /\ request'[q].token = request[q].token
          /\ request'[q].code = request[q].code /\ request'[q].next = request[q].next
      BY <2>1, <1>3 DEF WriteRefresh, TypeOK, Request, Idle
    <2>3. Refreshing(q) /\ request[q].stage = "writing"
      BY <1>3 DEF WriteRefresh, Refreshing
    <2>4. record'.code \notin history.spent
      BY <2>1, <2>3 DEF CodesInv
    <2>5. \A p \in Workers :
             /\ Refreshing(p)' => Refreshing(p) /\ request'[p].code = request[p].code
                                 /\ request'[p].next = request[p].next
             /\ Claiming(p)' => Claiming(p) /\ request'[p].code = request[p].code
                               /\ request'[p].next = request[p].next
             /\ request'[p].stage = "writing" => request[p].stage = "writing"
      BY <2>1, <2>2, <2>3 DEF Refreshing, Claiming
    <2> QED BY <2>1, <2>4, <2>5 DEF CodesInv, SpentCodeStaysSpent
  <1>4. CASE WriteClaim(q)
    <2>1. /\ record' = request[q].next
          /\ request'[q] = [request[q] EXCEPT !.stage = "syncing"]
          /\ \A p \in Workers : p # q => request'[p] = request[p]
          /\ UNCHANGED <<drawn, history.printed>>
          /\ history'.spent = history.spent \cup {request[q].code}
      BY <1>4 DEF WriteClaim, Put, TypeOK
    <2>2. /\ request'[q].stage = "syncing" /\ request'[q].token = request[q].token
          /\ request'[q].code = request[q].code /\ request'[q].next = request[q].next
      BY <2>1, <1>4 DEF WriteClaim, TypeOK, Request, Idle
    <2>3. Claiming(q)
      BY <1>4 DEF WriteClaim, Claiming
    <2>4. request[q].code \in history.printed /\ record'.code = None
      BY <2>1, <2>3 DEF CodesInv
    <2>5. None \notin history'.printed
      BY <2>1, NamesAssumption DEF TypeOK
    <2>6. \A p \in Workers :
             /\ Refreshing(p)' => Refreshing(p) /\ request'[p].code = request[p].code
                                 /\ request'[p].next = request[p].next
             /\ Claiming(p)' => Claiming(p) /\ request'[p].code = request[p].code
                               /\ request'[p].next = request[p].next
             /\ request'[p].stage = "writing" => request[p].stage = "writing"
      BY <2>1, <2>2, <2>3 DEF Refreshing, Claiming
    <2> QED BY <2>1, <2>4, <2>5, <2>6 DEF CodesInv, SpentCodeStaysSpent
  <1>5. CASE Sync(q)
    <2> DEFINE r == [request[q] EXCEPT !.stage = "answering", !.synced = TRUE]
    <2>1. request' = [request EXCEPT ![q] = r]
      BY <1>5 DEF Sync, TypeOK
    <2>2. /\ r.stage = "answering" /\ r.code = request[q].code
          /\ r.token = request[q].token /\ r.next = request[q].next
          /\ request[q].stage # "idle"
      BY <1>5 DEF Sync, TypeOK, Request, Idle
    <2>3. r \in Request
      <3>1. request'[q] \in Request
        BY <1>5, TypeRequest DEF TypeOK
      <3> QED BY <2>1, <3>1 DEF TypeOK
    <2>4. UNCHANGED <<record, drawn, history>>
      BY <1>5 DEF Sync
    <2> HIDE DEF r
    <2> QED BY <2>1, <2>2, <2>3, <2>4, CodesMove
  <1>6. CASE SyncFailed(q)
    <2> DEFINE r == [request[q] EXCEPT !.stage = "answering"]
    <2>1. request' = [request EXCEPT ![q] = r]
      BY <1>6 DEF SyncFailed, TypeOK
    <2>2. /\ r.stage = "answering" /\ r.code = request[q].code
          /\ r.token = request[q].token /\ r.next = request[q].next
          /\ request[q].stage # "idle"
      BY <1>6 DEF SyncFailed, TypeOK, Request, Idle
    <2>3. r \in Request
      <3>1. request'[q] \in Request
        BY <1>6, TypeRequest DEF TypeOK
      <3> QED BY <2>1, <3>1 DEF TypeOK
    <2>4. UNCHANGED <<record, drawn, history>>
      BY <1>6 DEF SyncFailed
    <2> HIDE DEF r
    <2> QED BY <2>1, <2>2, <2>3, <2>4, CodesMove
  <1>7. CASE Answer(q)
    <2>1. /\ request'[q].stage = "idle"
          /\ \A p \in Workers : p # q => request'[p] = request[p]
          /\ UNCHANGED <<record, drawn, history.spent>>
      BY <1>7 DEF Answer, TypeOK, Idle
    <2>2. CASE request[q].token = None
      <3>1. history'.printed = history.printed \cup {request[q].code}
        BY <1>7, <2>2 DEF Answer, TypeOK
      <3>2. Refreshing(q)
        BY <1>7, <2>2 DEF Answer, Refreshing
      <3> QED BY <2>1, <3>1, <3>2 DEF CodesInv, SpentCodeStaysSpent, Refreshing, Claiming
    <2>3. CASE request[q].token # None
      <3>1. history'.printed = history.printed
        BY <1>7, <2>3 DEF Answer, TypeOK
      <3> QED BY <2>1, <3>1 DEF CodesInv, SpentCodeStaysSpent, Refreshing, Claiming
    <2> QED BY <2>2, <2>3
  <1>8. CASE Die(q)
    <2>1. /\ request' = [request EXCEPT ![q] = Idle]
          /\ UNCHANGED <<record, drawn, history>>
      BY <1>8 DEF Die
    <2>2. Idle \in Request /\ Idle.stage = "idle"
      BY DEF Request, Idle
    <2> QED BY <2>1, <2>2, CodesMove
  <1> QED BY <1>1, <1>2, <1>3, <1>4, <1>5, <1>6, <1>7, <1>8 DEF RegistryStep

(* Every step keeps the invariant of the codes. *)
LEMMA CodesStep == TypeOK /\ CodesInv /\ [Next]_vars => CodesInv'
  <1> SUFFICES ASSUME TypeOK, CodesInv, [Next]_vars PROVE CodesInv'
    OBVIOUS
  <1>1. CASE \E k \in Codes : Register(k)
    <2>1. PICK k \in Codes : Register(k)
      BY <1>1
    <2>2. /\ record' = [code |-> k, tokens |-> <<>>]
          /\ k \notin drawn /\ drawn' = drawn \cup {k}
          /\ history'.printed = history.printed \cup {k}
          /\ UNCHANGED <<request, history.spent>>
      BY <2>1 DEF Register, Put, TypeOK
    <2> QED BY <2>2 DEF CodesInv, SpentCodeStaysSpent, Refreshing, Claiming
  <1>2. CASE \E k \in Codes : Expire(k)
    BY <1>2, CodesElsewhere DEF Expire
  <1>3. CASE \E r \in older : Propagate(r)
    BY <1>3, CodesElsewhere DEF Propagate
  <1>4. CASE Restart
    BY <1>4, CodesElsewhere DEF Restart
  <1>5. CASE \E q \in Workers : RegistryStep(q)
    BY <1>5, CodesRequest
  <1>6. CASE \E c \in Checks : CheckStep(c)
    BY <1>6, CodesElsewhere
       DEF CheckStep, StartCheck, ReadRecord, Verify, VerifyFailed, EndCheck, Outcome
  <1>7. CASE UNCHANGED vars
    BY <1>7, CodesElsewhere DEF vars
  <1> QED BY <1>1, <1>2, <1>3, <1>4, <1>5, <1>6, <1>7 DEF Next

(* A claimed code is never active again, however requests overlap. *)
THEOREM SpentCodes == Spec => []SpentCodeStaysSpent
  <1>1. Init => CodesInv
    BY DEF Init, CodesInv, SpentCodeStaysSpent, Refreshing, Claiming, Idle
  <1>2. CodesInv => SpentCodeStaysSpent
    BY DEF CodesInv
  <1> QED BY <1>1, <1>2, CodesStep, PairingTypeCorrect, PTL DEF Spec

-----------------------------------------------------------------------------
(* Mirrored hashes *)

(* The tokens put so far. *)
Written == ToSet(history.written)

(* The record, the hashes of the room and the records about to be put hold    *)
(* tokens that were put, but for the one a claim has minted.                  *)
MirrorInv ==
    /\ MirrorFollowsRecord
    /\ stored \subseteq Written
    /\ record # None => ToSet(record.tokens) \subseteq Written
    /\ \A q \in Workers :
          /\ request[q].stage = "writing" =>
                ToSet(request[q].next.tokens) \subseteq {request[q].token} \cup Written
          /\ request[q].stage = "writing" /\ request[q].token = None =>
                ToSet(request[q].next.tokens) \subseteq Written
          /\ request[q].stage = "syncing" => ToSet(request[q].next.tokens) \subseteq Written

(* Every step of a request keeps the invariant of the mirrored hashes. *)
LEMMA MirrorRequest ==
    ASSUME TypeOK, MirrorInv, NEW q \in Workers, RegistryStep(q)
    PROVE  MirrorInv'
  <1> USE DEF MirrorInv, MirrorFollowsRecord, Written
  <1>1. CASE \E k \in Codes : StartRefresh(q, k)
    <2>1. PICK k \in Codes : StartRefresh(q, k)
      BY <1>1
    <2>2. /\ request'[q].stage = "writing" /\ request'[q].token = None
          /\ request'[q].next.tokens = record.tokens /\ record # None
          /\ \A p \in Workers : p # q => request'[p] = request[p]
      BY <2>1 DEF StartRefresh, Refreshed, Idle, TypeOK, Record
    <2>3. UNCHANGED <<record, history, mirror, stored>>
      BY <2>1 DEF StartRefresh
    <2> QED BY <2>2, <2>3
  <1>2. CASE \E k \in Codes, t \in Tokens : StartClaim(q, k, t)
    <2>1. PICK k \in Codes, t \in Tokens : StartClaim(q, k, t)
      BY <1>2
    <2>2. record.tokens \in Tally /\ record # None
      BY <2>1 DEF StartClaim, TypeOK, Record, Tally
    <2>3. /\ request'[q].stage = "writing" /\ request'[q].token = t
          /\ request'[q].next.tokens = WithToken(record.tokens, t)
          /\ \A p \in Workers : p # q => request'[p] = request[p]
      BY <2>1 DEF StartClaim, Claimed, Idle, TypeOK
    <2>4. ToSet(request'[q].next.tokens) \subseteq {t} \cup Written
      BY <2>2, <2>3, WithTokenBounded
    <2>5. UNCHANGED <<record, history, mirror, stored>>
      BY <2>1 DEF StartClaim
    <2>6. t # None
      BY NamesAssumption
    <2> QED BY <2>3, <2>4, <2>5, <2>6
  <1>3. CASE WriteRefresh(q)
    <2>1. /\ record' = request[q].next
          /\ request'[q].stage = "answering"
          /\ \A p \in Workers : p # q => request'[p] = request[p]
          /\ UNCHANGED <<mirror, stored, history.written>>
      BY <1>3 DEF WriteRefresh, Put, TypeOK, Request, Idle
    <2>2. request[q].stage = "writing" /\ request[q].token = None
      BY <1>3 DEF WriteRefresh
    <2> QED BY <2>1, <2>2
  <1>4. CASE WriteClaim(q)
    <2> DEFINE t == request[q].token
    <2>1. t \in Tokens /\ request[q].stage = "writing"
      BY <1>4 DEF WriteClaim, TypeOK, Request, Idle
    <2>2. /\ record' = request[q].next
          /\ request'[q].stage = "syncing" /\ request'[q].next = request[q].next
          /\ \A p \in Workers : p # q => request'[p] = request[p]
          /\ UNCHANGED <<mirror, stored>>
          /\ history'.written = <<t>> \o history.written
      BY <1>4 DEF WriteClaim, Put, TypeOK, Request, Idle
    <2>3. Written' = {t} \cup Written
      BY <2>1, <2>2, ToSetCons DEF TypeOK
    <2>4. ToSet(request[q].next.tokens) \subseteq Written'
      BY <2>1, <2>3
    <2> QED BY <2>2, <2>3, <2>4
  <1>5. CASE Sync(q)
    <2>1. /\ mirror' = ToSet(request[q].next.tokens) /\ stored' = mirror'
          /\ request[q].stage = "syncing" /\ request'[q].stage = "answering"
          /\ \A p \in Workers : p # q => request'[p] = request[p]
          /\ UNCHANGED <<record, history>>
      BY <1>5 DEF Sync, TypeOK, Request, Idle
    <2> QED BY <2>1
  <1>6. CASE SyncFailed(q)
    <2>1. /\ request'[q].stage = "answering"
          /\ \A p \in Workers : p # q => request'[p] = request[p]
          /\ UNCHANGED <<record, mirror, stored, history>>
      BY <1>6 DEF SyncFailed, TypeOK, Request, Idle
    <2> QED BY <2>1
  <1>7. CASE Answer(q)
    <2>1. /\ request'[q].stage = "idle"
          /\ \A p \in Workers : p # q => request'[p] = request[p]
          /\ UNCHANGED <<record, mirror, stored, history.written>>
      BY <1>7 DEF Answer, TypeOK, Idle
    <2> QED BY <2>1
  <1>8. CASE Die(q)
    <2>1. /\ request'[q].stage = "idle"
          /\ \A p \in Workers : p # q => request'[p] = request[p]
          /\ UNCHANGED <<record, mirror, stored, history>>
      BY <1>8 DEF Die, TypeOK, Idle
    <2> QED BY <2>1
  <1> QED BY <1>1, <1>2, <1>3, <1>4, <1>5, <1>6, <1>7, <1>8 DEF RegistryStep

(* Every step keeps the invariant of the mirrored hashes. *)
LEMMA MirrorStep == TypeOK /\ MirrorInv /\ [Next]_vars => MirrorInv'
  <1> SUFFICES ASSUME TypeOK, MirrorInv, [Next]_vars PROVE MirrorInv'
    OBVIOUS
  <1> USE DEF MirrorInv, MirrorFollowsRecord, Written
  <1>1. CASE \E k \in Codes : Register(k)
    <2>1. /\ record'.tokens = <<>>
          /\ UNCHANGED <<request, mirror, stored, history.written>>
      BY <1>1 DEF Register, Put, TypeOK
    <2>2. ToSet(record'.tokens) = {}
      BY <2>1 DEF ToSet
    <2> QED BY <2>1, <2>2
  <1>2. CASE \E k \in Codes : Expire(k)
    BY <1>2 DEF Expire
  <1>3. CASE \E r \in older : Propagate(r)
    BY <1>3 DEF Propagate
  <1>4. CASE Restart
    BY <1>4 DEF Restart, LoadMirror
  <1>5. CASE \E q \in Workers : RegistryStep(q)
    BY <1>5, MirrorRequest
  <1>6. CASE \E c \in Checks : CheckStep(c)
    BY <1>6 DEF CheckStep, StartCheck, ReadRecord, Verify, VerifyFailed, EndCheck, Outcome
  <1>7. CASE UNCHANGED vars
    BY <1>7 DEF vars
  <1> QED BY <1>1, <1>2, <1>3, <1>4, <1>5, <1>6, <1>7 DEF Next

(* The relay mirrors only tokens the registry has put. *)
THEOREM MirrorBehindRecord == Spec => []MirrorFollowsRecord
  <1>1. Init => MirrorInv
    BY DEF Init, MirrorInv, MirrorFollowsRecord, Written, Idle
  <1>2. MirrorInv => MirrorFollowsRecord
    BY DEF MirrorInv
  <1> QED BY <1>1, <1>2, MirrorStep, PairingTypeCorrect, PTL DEF Spec

-----------------------------------------------------------------------------
(* Authorisation of a held token *)

(* "held" means that the record holds the token now: a put that loses the     *)
(* token clears it. The registry, asked last, then rejects no held token.     *)
HeldInv ==
    /\ \A c \in Checks : check[c].held => Holds(record, check[c].token)
    /\ ValidTokenAccepted

(* A put keeps the checks' invariant. *)
LEMMA HeldPut ==
    ASSUME TypeOK, HeldInv, NEW r \in Record, Put(r)
    PROVE  HeldInv'
  <1>1. \A c \in Checks :
           /\ check'[c].stage = check[c].stage /\ check'[c].token = check[c].token
           /\ check'[c].held <=> check[c].held /\ Holds(r, check[c].token)
    BY DEF Put, TypeOK, Check
  <1>2. record' = r
    BY DEF Put
  <1>3. ASSUME NEW c \in Checks, check'[c].held
        PROVE  Holds(record', check'[c].token)
    BY <1>1, <1>2, <1>3
  <1>4. ValidTokenAccepted'
    BY <1>1 DEF HeldInv, ValidTokenAccepted
  <1> QED BY <1>3, <1>4 DEF HeldInv, Holds

(* Every step of a check keeps it. *)
LEMMA HeldCheck ==
    ASSUME TypeOK, HeldInv, NEW c \in Checks, CheckStep(c)
    PROVE  HeldInv'
  <1>1. CASE \E credential \in Tokens \cup {Secret} : StartCheck(c, credential)
    <2>1. PICK credential \in Tokens \cup {Secret} : StartCheck(c, credential)
      BY <1>1
    <2>2. /\ check'[c].stage = "reading" /\ check'[c].token = credential
          /\ check'[c].held = Holds(record, credential)
          /\ \A d \in Checks : d # c => check'[d] = check[d]
          /\ UNCHANGED record
      BY <2>1 DEF StartCheck, TypeOK
    <2> QED BY <2>2 DEF HeldInv, ValidTokenAccepted, Holds
  <1>2. ASSUME NEW stage, Outcome(c, stage), check[c].stage # "idle",
               stage = "rejected" => ~Holds(record, check[c].token)
        PROVE  HeldInv'
    <2>1. /\ check'[c].stage = stage /\ check'[c].token = check[c].token
          /\ check'[c].held = check[c].held
          /\ \A d \in Checks : d # c => check'[d] = check[d]
          /\ UNCHANGED record
      BY <1>2 DEF Outcome, TypeOK, Check
    <2> QED BY <1>2, <2>1 DEF HeldInv, ValidTokenAccepted, Holds
  <1>3. CASE ReadRecord(c)
    <2>1. check[c].stage # "idle" /\ (Outcome(c, "accepted") \/ Outcome(c, "verifying"))
      BY <1>3 DEF ReadRecord
    <2> QED BY <1>2, <2>1
  <1>4. CASE Verify(c)
    <2>1. /\ check[c].stage # "idle"
          /\ \/ Outcome(c, "accepted")
             \/ Outcome(c, "rejected") /\ ~Holds(record, check[c].token)
      BY <1>4 DEF Verify
    <2> QED BY <1>2, <2>1
  <1>5. CASE VerifyFailed(c)
    <2>1. check[c].stage # "idle" /\ Outcome(c, "unverified")
      BY <1>5 DEF VerifyFailed
    <2> QED BY <1>2, <2>1
  <1>6. CASE EndCheck(c)
    <2>1. /\ check'[c] = NoCheck
          /\ \A d \in Checks : d # c => check'[d] = check[d]
          /\ UNCHANGED record
      BY <1>6 DEF EndCheck, TypeOK
    <2> QED BY <2>1 DEF HeldInv, ValidTokenAccepted, Holds, NoCheck
  <1> QED BY <1>1, <1>3, <1>4, <1>5, <1>6 DEF CheckStep

(* Every step keeps it. *)
LEMMA HeldStep == TypeOK /\ HeldInv /\ [Next]_vars => HeldInv'
  <1> SUFFICES ASSUME TypeOK, HeldInv, [Next]_vars PROVE HeldInv'
    OBVIOUS
  <1>1. ASSUME UNCHANGED <<record, check>> PROVE HeldInv'
    BY <1>1 DEF HeldInv, ValidTokenAccepted, Holds
  <1>2. CASE \E k \in Codes : Register(k)
    <2>1. PICK k \in Codes : Register(k)
      BY <1>2
    <2>2. [code |-> k, tokens |-> <<>>] \in Record
      BY TokenMaxAssumption DEF Record
    <2> QED BY <2>1, <2>2, HeldPut DEF Register
  <1>3. CASE \E q \in Workers : WriteRefresh(q) \/ WriteClaim(q)
    <2>1. PICK q \in Workers : WriteRefresh(q) \/ WriteClaim(q)
      BY <1>3
    <2>2. request[q].next \in Record /\ Put(request[q].next)
      BY <2>1 DEF WriteRefresh, WriteClaim, TypeOK, Request, Idle
    <2> QED BY <2>2, HeldPut
  <1>4. CASE Restart
    BY <1>4 DEF Restart, HeldInv, ValidTokenAccepted, NoCheck
  <1>5. CASE \E c \in Checks : CheckStep(c)
    BY <1>5, HeldCheck
  <1>6. CASE \E k \in Codes : Expire(k)
    BY <1>1, <1>6 DEF Expire
  <1>7. CASE \E r \in older : Propagate(r)
    BY <1>1, <1>7 DEF Propagate
  <1>8. CASE \E q \in Workers : RegistryStep(q) /\ ~WriteRefresh(q) /\ ~WriteClaim(q)
    BY <1>1, <1>8 DEF RegistryStep, StartRefresh, StartClaim, Sync, SyncFailed, Answer, Die
  <1>9. CASE UNCHANGED vars
    BY <1>1, <1>9 DEF vars
  <1> QED BY <1>2, <1>3, <1>4, <1>5, <1>6, <1>7, <1>8, <1>9 DEF Next

(* A token held from the start of a connect to its end is not rejected. *)
THEOREM HeldTokensAccepted == Spec => []ValidTokenAccepted
  <1>1. Init => HeldInv
    BY DEF Init, HeldInv, ValidTokenAccepted, NoCheck
  <1>2. HeldInv => ValidTokenAccepted
    BY DEF HeldInv
  <1> QED BY <1>1, <1>2, HeldStep, PairingTypeCorrect, PTL DEF Spec
-----------------------------------------------------------------------------
(* One request at a time *)

OneAtATime == \A p, q \in Workers : p = q

(* The tokens s of the record are the newest of the tokens w put.             *)
Newest(s, w) ==
    /\ Len(s) = IF Len(w) < TokenMax THEN Len(w) ELSE TokenMax
    /\ \A i \in 1..Len(s) : s[i] = w[i]

(* What a request in progress read is still what the record holds, and what   *)
(* it put is the record.                                                      *)
UpToDate(q) ==
    LET r == request[q] IN
    /\ r.stage # "idle" => record # None
    /\ r.stage = "writing" /\ r.token = None => r.next.tokens = record.tokens
    /\ r.stage = "writing" /\ r.token # None =>
          /\ r.next.tokens = WithToken(record.tokens, r.token)
          /\ r.code = record.code
          /\ r.token \in drawn \ Written
    /\ r.stage = "writing" \/ r.stage = "syncing" => ~r.synced
    /\ r.stage = "syncing" => r.next = record /\ r.token \in Written
    /\ r.stage = "answering" /\ r.token = None => r.code = record.code
    /\ r.stage = "answering" /\ r.token # None => r.token \in Written
    /\ r.synced /\ Holds(record, r.token) => r.token \in mirror

(* Before the gateway is registered nothing was answered; afterwards the      *)
(* record has the newest tokens. The mirrored hashes survive a restart.       *)
AloneInv ==
    /\ record = None => history.written = <<>> /\ history.printed = {}
    /\ record # None => Newest(record.tokens, history.written)
    /\ history.synced \subseteq history.handed
    /\ history.handed \subseteq Written
    /\ Written \subseteq drawn
    /\ stored = mirror
    /\ PrintedCodeClaimable
    /\ SyncedTokenMirrored
    /\ \A q \in Workers : UpToDate(q)

(* A new token in front of both keeps the newest in the record.               *)
LEMMA NewestCons ==
    ASSUME NEW s \in Tally, NEW w \in Seq(Tokens), NEW t \in Tokens, Newest(s, w)
    PROVE  Newest(WithToken(s, t), <<t>> \o w)
  <1> DEFINE n == IF Len(s) < TokenMax THEN Len(s) + 1 ELSE TokenMax
             u == <<t>> \o s
             v == <<t>> \o w
  <1>1. /\ Len(s) \in Nat /\ Len(w) \in Nat /\ TokenMax \in Nat /\ TokenMax >= 1
        /\ Len(s) = IF Len(w) < TokenMax THEN Len(w) ELSE TokenMax
    BY TokenMaxAssumption DEF Tally, Newest
  <1>2. /\ n \in Nat /\ 1 <= n /\ n <= Len(s) + 1
        /\ n = IF Len(w) + 1 < TokenMax THEN Len(w) + 1 ELSE TokenMax
    BY <1>1
  <1>3. /\ u \in Seq(Tokens) /\ Len(u) = Len(s) + 1
        /\ v \in Seq(Tokens) /\ Len(v) = Len(w) + 1
        /\ \A i \in 1..Len(u) : u[i] = IF i = 1 THEN t ELSE s[i - 1]
        /\ \A i \in 1..Len(v) : v[i] = IF i = 1 THEN t ELSE w[i - 1]
    BY DEF Tally
  <1>4. /\ Len(SubSeq(u, 1, n)) = n
        /\ \A i \in 1..n : SubSeq(u, 1, n)[i] = u[i]
    BY <1>2, <1>3
  <1>5. WithToken(s, t) = SubSeq(u, 1, n)
    BY DEF WithToken
  <1>6. ASSUME NEW i \in 1..n PROVE u[i] = v[i]
    <2>1. i \in 1..Len(u) /\ i \in 1..Len(v)
      BY <1>1, <1>2, <1>3
    <2>2. i # 1 => i - 1 \in 1..Len(s)
      BY <1>1, <1>2
    <2> HIDE DEF u, v
    <2> QED BY <1>3, <2>1, <2>2 DEF Newest
  <1> HIDE DEF n, u, v
  <1>7. Newest(SubSeq(u, 1, n), v)
    BY <1>2, <1>3, <1>4, <1>6 DEF Newest
  <1> QED BY <1>5, <1>7 DEF v

(* The limit apart, a token that was put is in the record.                    *)
LEMMA NewestHolds ==
    ASSUME NEW r \in Record, NEW w \in Seq(Tokens), Newest(r.tokens, w),
           NEW t \in ToSet(w)
    PROVE  Holds(r, t) \/ \E i \in (TokenMax + 1)..Len(w) : w[i] = t
  <1> DEFINE s == r.tokens
  <1>1. s \in Seq(Tokens) /\ r # None
    BY NamesAssumption, RecordAssumption DEF Record
  <1>2. PICK i \in 1..Len(w) : w[i] = t
    BY DEF ToSet
  <1>3. /\ Len(w) \in Nat /\ Len(s) \in Nat /\ TokenMax \in Nat
        /\ Len(s) = IF Len(w) < TokenMax THEN Len(w) ELSE TokenMax
        /\ \A j \in 1..Len(s) : s[j] = w[j]
    BY <1>1, TokenMaxAssumption DEF Newest
  <1> HIDE DEF s
  <1>4. CASE i <= TokenMax
    <2>1. i \in 1..Len(s)
      BY <1>3, <1>4
    <2>2. t \in ToSet(s)
      BY <1>1, <1>2, <1>3, <2>1 DEF ToSet
    <2> QED BY <1>1, <2>2 DEF Holds, s
  <1>5. CASE i > TokenMax
    BY <1>2, <1>3, <1>5
  <1> QED BY <1>3, <1>4, <1>5

(* Whatever leaves the requests, the store and the mirrored hashes alone.     *)
LEMMA AloneElsewhere ==
    ASSUME AloneInv, UNCHANGED <<record, drawn, request, history, mirror, stored>>
    PROVE  AloneInv'
  BY DEF AloneInv, UpToDate, Written, PrintedCodeClaimable, SyncedTokenMirrored

(* A request that begins, goes on or ends with no put and no answer.          *)
LEMMA AloneMove ==
    ASSUME AloneInv, OneAtATime, NEW q \in Workers, UpToDate(q)',
           UNCHANGED <<record, history, mirror, stored>>, drawn \subseteq drawn'
    PROVE  AloneInv'
  <1>1. \A p \in Workers : UpToDate(p)'
    BY DEF OneAtATime
  <1> QED BY <1>1 DEF AloneInv, Written, PrintedCodeClaimable, SyncedTokenMirrored

(* Steps that leave the tokens of the record as they are.                     *)
LEMMA AloneTokens ==
    ASSUME TypeOK, AloneInv, OneAtATime, NEW q \in Workers, UpToDate(q)',
           record # None, record' # None, record'.tokens = record.tokens,
           history'.written = history.written, PrintedCodeClaimable',
           history'.synced \subseteq history'.handed, history'.handed \subseteq Written,
           \A t \in history'.synced : Holds(record, t) => t \in mirror,
           drawn' = drawn, UNCHANGED <<mirror, stored>>
    PROVE  AloneInv'
  <1>1. \A p \in Workers : UpToDate(p)'
    BY DEF OneAtATime
  <1>2. \A t : Holds(record', t) <=> Holds(record, t)
    BY DEF Holds
  <1>3. SyncedTokenMirrored'
    BY <1>2 DEF SyncedTokenMirrored
  <1> QED BY <1>1, <1>3 DEF AloneInv, Written

(* A put of the bridge's request: only the code is another.                   *)
LEMMA AloneRefresh ==
    ASSUME TypeOK, CodesInv, AloneInv, OneAtATime, NEW q \in Workers, WriteRefresh(q)
    PROVE  AloneInv'
  <1> DEFINE r == request[q]
  <1>1. /\ r.stage = "writing" /\ r.token = None /\ r.code \in Codes
        /\ r.next \in Record /\ record \in Record /\ record # None
        /\ r.next.tokens = record.tokens /\ ~r.synced /\ r.next # None
    BY RecordAssumption DEF WriteRefresh, TypeOK, Request, Idle, AloneInv, UpToDate
  <1>2. /\ record' = r.next
        /\ history' = [history EXCEPT !.superseded = @ \cup (Codes \cap {record.code})]
        /\ UNCHANGED <<drawn, mirror, stored>>
        /\ request' = [request EXCEPT ![q].stage = "answering"]
    BY DEF WriteRefresh, Put
  <1>3. r.next.code = r.code
    BY <1>1 DEF CodesInv, Refreshing
  <1>4. /\ request'[q].stage = "answering" /\ request'[q].token = None
        /\ request'[q].code = r.code /\ ~request'[q].synced
    BY <1>1, <1>2 DEF TypeOK, Request, Idle
  <1>5. /\ history'.written = history.written /\ history'.printed = history.printed
        /\ history'.spent = history.spent /\ history.printed \subseteq Codes
        /\ history'.handed = history.handed /\ history'.synced = history.synced
        /\ history'.superseded = history.superseded \cup (Codes \cap {record.code})
    BY <1>2 DEF TypeOK
  <1> HIDE DEF r
  <1>6. UpToDate(q)'
    BY <1>1, <1>2, <1>3, <1>4 DEF UpToDate
  <1>7. PrintedCodeClaimable'
    BY <1>5 DEF AloneInv, PrintedCodeClaimable
  <1>8. /\ history.synced \subseteq history.handed /\ history.handed \subseteq Written
        /\ \A t \in history.synced : Holds(record, t) => t \in mirror
    BY DEF AloneInv, SyncedTokenMirrored
  <1> QED BY <1>1, <1>2, <1>5, <1>6, <1>7, <1>8, AloneTokens

(* A put of the app's request: its token is the newest, and its code spent.   *)
LEMMA AloneClaim ==
    ASSUME TypeOK, CodesInv, AloneInv, OneAtATime, NEW q \in Workers, WriteClaim(q)
    PROVE  AloneInv'
  <1> DEFINE r == request[q]
             t == r.token
  <1>1. /\ r.stage = "writing" /\ t \in Tokens /\ t # None /\ r.code \in Codes
        /\ r.next \in Record /\ record \in Record /\ record # None
        /\ ~r.synced /\ r.next # None
    BY RecordAssumption, NamesAssumption
       DEF WriteClaim, TypeOK, Request, Idle, AloneInv, UpToDate
  <1>2. /\ r.next.tokens = WithToken(record.tokens, t)
        /\ r.code = record.code /\ t \in drawn \ Written
    BY <1>1 DEF AloneInv, UpToDate
  <1>3. /\ record' = r.next
        /\ history' = [history EXCEPT !.spent = @ \cup {r.code},
                                      !.written = <<t>> \o @]
        /\ UNCHANGED <<drawn, mirror, stored>>
        /\ request' = [request EXCEPT ![q].stage = "syncing"]
    BY DEF WriteClaim, Put
  <1>4. /\ request'[q].stage = "syncing" /\ request'[q].token = t
        /\ request'[q].next = r.next /\ ~request'[q].synced
    BY <1>1, <1>3 DEF TypeOK, Request, Idle
  <1>5. /\ history'.written = <<t>> \o history.written
        /\ history'.printed = history.printed
        /\ history'.spent = history.spent \cup {r.code}
        /\ history'.handed = history.handed /\ history'.synced = history.synced
        /\ history'.superseded = history.superseded
        /\ history.written \in Seq(Tokens)
    BY <1>3 DEF TypeOK
  <1> HIDE DEF r
  <1>6. Written' = {t} \cup Written
    BY <1>1, <1>5, ToSetCons DEF Written
  <1>7. record.tokens \in Tally
    BY <1>1 DEF Record, Tally
  <1>8. Newest(record'.tokens, history'.written)
    BY <1>1, <1>2, <1>3, <1>5, <1>7, NewestCons DEF AloneInv
  <1>9. \A x : Holds(record', x) => x = t \/ Holds(record, x)
    BY <1>1, <1>2, <1>3, <1>7, WithTokenBounded DEF Holds
  <1>10. SyncedTokenMirrored'
    BY <1>2, <1>3, <1>5, <1>9 DEF AloneInv, SyncedTokenMirrored
  <1>11. PrintedCodeClaimable'
    BY <1>2, <1>5 DEF AloneInv, PrintedCodeClaimable
  <1>12. \A p \in Workers : UpToDate(p)'
    BY <1>1, <1>3, <1>4, <1>6 DEF UpToDate, OneAtATime
  <1> QED
    BY <1>1, <1>2, <1>3, <1>5, <1>6, <1>8, <1>10, <1>11, <1>12 DEF AloneInv

(* The hashes pushed are those of the record.                                 *)
LEMMA AloneSync ==
    ASSUME TypeOK, AloneInv, OneAtATime, NEW q \in Workers, Sync(q)
    PROVE  AloneInv'
  <1> DEFINE r == request[q]
  <1>1. /\ r.stage = "syncing" /\ r.next = record /\ record # None
        /\ r.token \in Written /\ Written \subseteq Tokens
        /\ record \in Record /\ r.token \in Tokens \cup {None}
    BY DEF Sync, TypeOK, Request, Idle, AloneInv, UpToDate, Written, ToSet
  <1>2. /\ mirror' = ToSet(record.tokens) /\ stored' = mirror'
        /\ UNCHANGED <<record, drawn, history>>
        /\ request' = [request EXCEPT ![q].stage = "answering", ![q].synced = TRUE]
    BY <1>1 DEF Sync
  <1>3. /\ request'[q].stage = "answering" /\ request'[q].token = r.token
        /\ request'[q].synced
    BY <1>1, <1>2 DEF TypeOK, Request, Idle
  <1> HIDE DEF r
  <1>4. \A t \in Tokens : Holds(record, t) => t \in mirror'
    BY <1>2, NamesAssumption DEF Holds
  <1>5. r.token \in Tokens /\ r.token # None
    BY <1>1, NamesAssumption
  <1>6. UpToDate(q)'
    BY <1>1, <1>2, <1>3, <1>4, <1>5 DEF UpToDate, Written
  <1>7. \A p \in Workers : UpToDate(p)'
    BY <1>6 DEF OneAtATime
  <1>8. history.synced \subseteq Tokens
    BY DEF TypeOK
  <1>9. SyncedTokenMirrored'
    BY <1>2, <1>4, <1>8 DEF SyncedTokenMirrored
  <1> QED BY <1>2, <1>7, <1>9 DEF AloneInv, Written, PrintedCodeClaimable

(* The answer: a printed code is active, a token handed over was put.         *)
LEMMA AloneAnswer ==
    ASSUME TypeOK, AloneInv, OneAtATime, NEW q \in Workers, Answer(q)
    PROVE  AloneInv'
  <1> DEFINE r == request[q]
  <1>1. /\ r.stage = "answering" /\ record # None /\ r.synced \in BOOLEAN
        /\ r.token = None => r.code = record.code
        /\ r.token # None => r.token \in Written
        /\ r.synced /\ Holds(record, r.token) => r.token \in mirror
    BY DEF Answer, AloneInv, UpToDate, TypeOK, Request, Idle
  <1>2. /\ request' = [request EXCEPT ![q] = Idle]
        /\ UNCHANGED <<record, drawn, mirror, stored>>
    BY DEF Answer
  <1>3. request'[q] = Idle
    BY <1>2 DEF TypeOK
  <1>4. UpToDate(q)'
    BY <1>3 DEF UpToDate, Idle
  <1>5. /\ history.synced \subseteq history.handed /\ history.handed \subseteq Written
        /\ \A t \in history.synced : Holds(record, t) => t \in mirror
        /\ PrintedCodeClaimable
    BY DEF AloneInv, SyncedTokenMirrored
  <1>6. CASE r.token = None
    <2>1. /\ history'.printed = history.printed \cup {r.code}
          /\ history'.written = history.written
          /\ history'.handed = history.handed /\ history'.synced = history.synced
          /\ history'.spent = history.spent
          /\ history'.superseded = history.superseded
      BY <1>6 DEF Answer, TypeOK
    <2> HIDE DEF r
    <2>2. PrintedCodeClaimable'
      BY <1>1, <1>2, <1>5, <1>6, <2>1 DEF PrintedCodeClaimable
    <2> QED BY <1>1, <1>2, <1>4, <1>5, <2>1, <2>2, AloneTokens
  <1>7. CASE r.token # None
    <2>1. /\ history'.printed = history.printed
          /\ history'.written = history.written
          /\ history'.handed = history.handed \cup {r.token}
          /\ history'.synced = IF r.synced THEN history.synced \cup {r.token}
                               ELSE history.synced
          /\ history'.spent = history.spent
          /\ history'.superseded = history.superseded
      BY <1>7 DEF Answer, TypeOK
    <2> HIDE DEF r
    <2>2. PrintedCodeClaimable'
      BY <1>2, <1>5, <2>1 DEF PrintedCodeClaimable
    <2>3. /\ history'.synced \subseteq history'.handed /\ history'.handed \subseteq Written
          /\ \A t \in history'.synced : Holds(record, t) => t \in mirror
      BY <1>1, <1>5, <1>7, <2>1
    <2> QED BY <1>1, <1>2, <1>4, <2>1, <2>2, <2>3, AloneTokens
  <1> QED BY <1>6, <1>7

(* Every step of a request keeps it.                                          *)
LEMMA AloneRequest ==
    ASSUME TypeOK, CodesInv, AloneInv, OneAtATime, NEW q \in Workers, RegistryStep(q)
    PROVE  AloneInv'
  <1>1. CASE \E k \in Codes : StartRefresh(q, k)
    <2>1. PICK k \in Codes : StartRefresh(q, k)
      BY <1>1
    <2>2. /\ request'[q].stage = "writing" /\ request'[q].token = None
          /\ request'[q].next.tokens = record.tokens /\ ~request'[q].synced
          /\ record # None /\ drawn' = drawn \cup {k}
          /\ UNCHANGED <<record, history, mirror, stored>>
      BY <2>1 DEF StartRefresh, Refreshed, Idle, TypeOK, Record
    <2>3. UpToDate(q)'
      BY <2>2 DEF UpToDate
    <2> QED BY <2>2, <2>3, AloneMove
  <1>2. CASE \E k \in Codes, t \in Tokens : StartClaim(q, k, t)
    <2>1. PICK k \in Codes, t \in Tokens : StartClaim(q, k, t)
      BY <1>2
    <2>2. /\ request'[q].stage = "writing" /\ request'[q].token = t
          /\ request'[q].next.tokens = WithToken(record.tokens, t)
          /\ request'[q].code = record.code /\ ~request'[q].synced
          /\ record # None /\ t \notin drawn /\ drawn' = drawn \cup {t}
          /\ UNCHANGED <<record, history, mirror, stored>>
      BY <2>1 DEF StartClaim, Claimed, Idle, TypeOK
    <2>3. t # None /\ Written \subseteq drawn
      BY NamesAssumption DEF AloneInv
    <2>4. t \in drawn' \ Written /\ Written' = Written
      BY <2>2, <2>3 DEF Written
    <2>5. UpToDate(q)'
      BY <2>2, <2>3, <2>4 DEF UpToDate
    <2> QED BY <2>2, <2>5, AloneMove
  <1>3. CASE WriteRefresh(q)
    BY <1>3, AloneRefresh
  <1>4. CASE WriteClaim(q)
    BY <1>4, AloneClaim
  <1>5. CASE Sync(q)
    BY <1>5, AloneSync
  <1>6. CASE SyncFailed(q)
    <2>1. /\ request[q].stage = "syncing" /\ ~request[q].synced /\ record # None
          /\ request[q].token \in Written
          /\ UNCHANGED <<record, drawn, history, mirror, stored>>
      BY <1>6 DEF SyncFailed, AloneInv, UpToDate
    <2>2. /\ request'[q].stage = "answering" /\ request'[q].token = request[q].token
          /\ request'[q].synced = request[q].synced
      BY <1>6 DEF SyncFailed, TypeOK, Request, Idle
    <2>3. request[q].token # None
      BY <2>1, NamesAssumption DEF TypeOK, Written, ToSet
    <2>4. UpToDate(q)'
      BY <2>1, <2>2, <2>3 DEF UpToDate, Written
    <2> QED BY <2>1, <2>4, AloneMove
  <1>7. CASE Answer(q)
    BY <1>7, AloneAnswer
  <1>8. CASE Die(q)
    <2>1. request'[q] = Idle /\ UNCHANGED <<record, drawn, history, mirror, stored>>
      BY <1>8 DEF Die, TypeOK
    <2>2. UpToDate(q)'
      BY <2>1 DEF UpToDate, Idle
    <2> QED BY <2>1, <2>2, AloneMove
  <1> QED BY <1>1, <1>2, <1>3, <1>4, <1>5, <1>6, <1>7, <1>8 DEF RegistryStep

(* Registering starts with no tokens and one printed code.                    *)
LEMMA AloneRegister ==
    ASSUME TypeOK, AloneInv, NEW k \in Codes, Register(k)
    PROVE  AloneInv'
  <1> DEFINE n == [code |-> k, tokens |-> <<>>]
  <1>1. n \in Record /\ n.tokens = <<>> /\ n.code = k
    BY TokenMaxAssumption DEF Record
  <1>2. /\ record = None /\ record' = n /\ drawn' = drawn \cup {k}
        /\ UNCHANGED <<request, mirror, stored>>
        /\ history'.printed = history.printed \cup {k}
        /\ history'.written = history.written /\ history'.handed = history.handed
        /\ history'.synced = history.synced /\ history'.spent = history.spent
        /\ history'.superseded = history.superseded
    BY DEF Register, Put, TypeOK
  <1> HIDE DEF n
  <1>3. /\ history.written = <<>> /\ history.printed = {}
        /\ history.handed \subseteq Written /\ history.synced \subseteq history.handed
    BY <1>2 DEF AloneInv
  <1>4. Written = {} /\ Written' = {}
    BY <1>2, <1>3 DEF Written, ToSet
  <1>5. record' # None
    BY <1>1, <1>2, RecordAssumption
  <1>6. ASSUME NEW q \in Workers PROVE UpToDate(q)'
    <2>1. request[q] = Idle
      BY <1>2 DEF AloneInv, UpToDate, TypeOK, Request, Idle
    <2> QED BY <1>2, <2>1 DEF UpToDate, Idle
  <1>7. Newest(record'.tokens, history'.written)
    BY <1>1, <1>2, <1>3, TokenMaxAssumption DEF Newest
  <1>8. PrintedCodeClaimable'
    BY <1>1, <1>2, <1>3 DEF PrintedCodeClaimable
  <1> QED
    BY <1>2, <1>3, <1>4, <1>5, <1>6, <1>7, <1>8 DEF AloneInv, SyncedTokenMirrored

(* Every step keeps it.                                                       *)
LEMMA AloneStep ==
    ASSUME OneAtATime
    PROVE  TypeOK /\ CodesInv /\ AloneInv /\ [Next]_vars => AloneInv'
  <1> SUFFICES ASSUME TypeOK, CodesInv, AloneInv, [Next]_vars PROVE AloneInv'
    OBVIOUS
  <1>1. CASE \E k \in Codes : Register(k)
    BY <1>1, AloneRegister
  <1>2. CASE \E k \in Codes : Expire(k)
    BY <1>2, AloneElsewhere DEF Expire
  <1>3. CASE \E r \in older : Propagate(r)
    BY <1>3, AloneElsewhere DEF Propagate
  <1>4. CASE Restart
    BY <1>4, AloneElsewhere DEF Restart, LoadMirror, AloneInv
  <1>5. CASE \E q \in Workers : RegistryStep(q)
    BY <1>5, AloneRequest
  <1>6. CASE \E c \in Checks : CheckStep(c)
    BY <1>6, AloneElsewhere
       DEF CheckStep, StartCheck, ReadRecord, Verify, VerifyFailed, EndCheck, Outcome
  <1>7. CASE UNCHANGED vars
    BY <1>7, AloneElsewhere DEF vars
  <1> QED BY <1>1, <1>2, <1>3, <1>4, <1>5, <1>6, <1>7 DEF Next

(* While requests come one at a time the invariant holds; the run             *)
(* PairingRegistry_lost_token shows that it does not when they overlap.       *)
LEMMA AloneAlways ==
    ASSUME OneAtATime
    PROVE  Spec => [](TypeOK /\ AloneInv)
  <1>1. Init => AloneInv
    BY DEF Init, AloneInv, UpToDate, Idle, Written, ToSet, PrintedCodeClaimable,
           SyncedTokenMirrored
  <1>2. Init => CodesInv
    BY DEF Init, CodesInv, SpentCodeStaysSpent, Refreshing, Claiming, Idle
  <1> QED BY <1>1, <1>2, CodesStep, AloneStep, PairingTypeCorrect, PTL DEF Spec

(* A token an app was handed is in the record until as many newer ones were   *)
(* issued as the limit allows, if requests come one at a time.                *)
THEOREM HandedTokensKept == OneAtATime => (Spec => []HandedTokenKept)
  <1> SUFFICES ASSUME OneAtATime PROVE Spec => []HandedTokenKept
    OBVIOUS
  <1>1. ASSUME TypeOK, AloneInv PROVE HandedTokenKept
    <2>1. SUFFICES ASSUME NEW t \in history.handed
                   PROVE  Holds(record, t) \/ Displaced(t)
      BY DEF HandedTokenKept
    <2>2. t \in Written /\ history.written \in Seq(Tokens)
      BY <1>1, <2>1 DEF AloneInv, TypeOK
    <2>3. record # None
      BY <1>1, <2>2 DEF AloneInv, Written, ToSet
    <2>4. record \in Record /\ Newest(record.tokens, history.written)
      BY <1>1, <2>3 DEF AloneInv, TypeOK
    <2> QED BY <2>2, <2>4, NewestHolds DEF Written, Displaced
  <1> QED BY <1>1, AloneAlways, PTL

(* A printed code is the active one until it is claimed or replaced, if       *)
(* requests come one at a time.                                               *)
THEOREM PrintedCodes == OneAtATime => (Spec => []PrintedCodeClaimable)
  <1> SUFFICES ASSUME OneAtATime PROVE Spec => []PrintedCodeClaimable
    OBVIOUS
  <1>1. AloneInv => PrintedCodeClaimable
    BY DEF AloneInv
  <1> QED BY <1>1, AloneAlways, PTL

(* A token whose push succeeded is mirrored for as long as the record holds   *)
(* it, if requests come one at a time.                                        *)
THEOREM SyncedTokens == OneAtATime => (Spec => []SyncedTokenMirrored)
  <1> SUFFICES ASSUME OneAtATime PROVE Spec => []SyncedTokenMirrored
    OBVIOUS
  <1>1. AloneInv => SyncedTokenMirrored
    BY DEF AloneInv
  <1> QED BY <1>1, AloneAlways, PTL
=============================================================================
