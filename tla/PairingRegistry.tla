-------------------------- MODULE PairingRegistry --------------------------
(***************************************************************************)
(* The pairing record of one gateway: the registry worker that issues and  *)
(* verifies its credentials (apps/relay-registry), the key-value store it  *)
(* keeps the record in, and the two places where the relay looks a token   *)
(* up (apps/relay-worker): the hashes mirrored into the gateway's room,    *)
(* and its own, possibly old, view of the store.                           *)
(*                                                                         *)
(* A request runs in a worker of its own. It reads the record, awaits the  *)
(* hashes, and puts a record back: the store has no compare-and-put, so    *)
(* what another request wrote in between is not seen. A worker may die at  *)
(* any await.                                                              *)
(***************************************************************************)
EXTENDS Naturals, Sequences, SequencesExt

CONSTANTS
    Codes,      \* access codes the registry may draw
    Tokens,     \* client tokens the registry may draw
    Workers,    \* registry requests that may be in progress at once
    Checks,     \* relay connects that may be in authorisation at once
    TokenMax,   \* PAIR_CLIENT_TOKEN_MAX
    Secret,     \* the relay secret of the gateway
    None

ASSUME TokenMaxAssumption == TokenMax \in Nat \ {0}
ASSUME NamesAssumption ==
    /\ None \notin Codes \cup Tokens \cup {Secret}
    /\ Secret \notin Tokens

VARIABLES
    record,     \* the pairing record last put, or None
    older,      \* earlier values a relay may still read from the store
    expired,    \* the codes whose accessCodeExpiresAt has passed
    drawn,      \* the codes and tokens generated so far
    request,    \* request[q]: the registry request worker q serves
    mirror,     \* mirroredClientTokenHashes of the room's object
    stored,     \* the hashes in the storage of the room's object
    check,      \* check[c]: the relay connect being authorised
    history     \* what was put, and what the bridge and the apps were answered

vars == <<record, older, expired, drawn, request, mirror, stored, check, history>>

-----------------------------------------------------------------------------
(* PairGatewayRecord: the active code and the tokens, newest first. *)
Record ==
    [code: Codes \cup {None}, tokens: {s \in Seq(Tokens) : Len(s) <= TokenMax}]

ASSUME RecordAssumption == None \notin Record

(* The stages of a request: "writing" before its put, "syncing" before the  *)
(* relay has answered the push of the hashes, "answering" after its last    *)
(* await.                                                                   *)
Idle == [stage |-> "idle", code |-> None, token |-> None, next |-> None, synced |-> FALSE]

Request ==
    {Idle} \cup
    [stage: {"writing", "syncing", "answering"}, code: Codes, token: Tokens \cup {None},
     next: Record, synced: BOOLEAN]

(* A connect in authorisation: the hashes it was given, and whether its      *)
(* token was in the record from the start until now. "unverified": the       *)
(* registry could not be asked.                                              *)
NoCheck == [stage |-> "idle", token |-> None, mirrored |-> {}, held |-> FALSE]

Check ==
    [stage: {"idle"}, token: {None}, mirrored: {{}}, held: {FALSE}] \cup
    [stage: {"reading", "verifying", "accepted", "rejected", "unverified"},
     token: Tokens \cup {Secret}, mirrored: SUBSET Tokens, held: BOOLEAN]

(* handleVerify: the credential is the gateway's secret or one of the tokens. *)
Holds(r, credential) ==
    /\ r # None
    /\ credential = Secret \/ credential \in ToSet(r.tokens)

\* Mutant: a token over the limit is not recorded.
WithTokenIfRoom(tokens, t) == IF Len(tokens) < TokenMax THEN <<t>> \o tokens ELSE tokens

(* mintClientToken: the new token first, the oldest beyond the limit dropped. *)
WithToken(tokens, t) ==
    SubSeq(<<t>> \o tokens, 1, IF Len(tokens) < TokenMax THEN Len(tokens) + 1 ELSE TokenMax)

(* The record an access-code request puts: everything but the code is kept. *)
Refreshed(r, k) == [r EXCEPT !.code = k]

\* Mutant: the code stays active.
ClaimedCodeKept(r, t) == [r EXCEPT !.tokens = WithToken(@, t)]

(* The record a claim puts: a token is minted and the code is cleared. *)
Claimed(r, t) == [code |-> None, tokens |-> WithToken(r.tokens, t)]

-----------------------------------------------------------------------------
(* putPairGateway, and what the checks in progress can still rely on. *)
Put(r) ==
    /\ older' = older \cup {record}
    /\ record' = r
    /\ check' = [c \in Checks |->
                    [check[c] EXCEPT !.held = @ /\ Holds(r, check[c].token)]]

(* handlePairRegister. *)
Register(k) ==
    /\ record = None
    /\ k \notin drawn
    /\ Put([code |-> k, tokens |-> <<>>])
    /\ drawn' = drawn \cup {k}
    /\ history' = [history EXCEPT !.printed = @ \cup {k}]
    /\ UNCHANGED <<expired, request, mirror, stored>>

(* handlePairAccessCode, up to the put. *)
StartRefresh(q, k) ==
    /\ request[q].stage = "idle"
    /\ record # None
    /\ k \notin drawn
    /\ drawn' = drawn \cup {k}
    /\ request' = [request EXCEPT ![q] =
                      [Idle EXCEPT !.stage = "writing", !.code = k,
                                   !.next = Refreshed(record, k)]]
    /\ UNCHANGED <<record, older, expired, mirror, stored, check, history>>

(* handlePairClaim, up to the put: the code an app scanned must be the      *)
(* active one and not expired.                                              *)
StartClaim(q, k, t) ==
    /\ request[q].stage = "idle"
    /\ record # None
    /\ k \in history.printed
    /\ record.code = k
    /\ k \notin expired
    /\ t \notin drawn
    /\ drawn' = drawn \cup {t}
    /\ request' = [request EXCEPT ![q] =
                      [Idle EXCEPT !.stage = "writing", !.code = k, !.token = t,
                                   !.next = Claimed(record, t)]]
    /\ UNCHANGED <<record, older, expired, mirror, stored, check, history>>

\* Mutant: the put is not awaited, and lost when the worker ends.
WriteRefreshNotAwaited(q) ==
    /\ request[q].stage = "writing"
    /\ request[q].token = None
    /\ request' = [request EXCEPT ![q].stage = "answering"]
    /\ UNCHANGED <<record, older, expired, drawn, mirror, stored, check, history>>

(* The put of an access-code request. *)
WriteRefresh(q) ==
    /\ request[q].stage = "writing"
    /\ request[q].token = None
    /\ Put(request[q].next)
    /\ request' = [request EXCEPT ![q].stage = "answering"]
    /\ history' = [history EXCEPT !.superseded = @ \cup (Codes \cap {record.code})]
    /\ UNCHANGED <<expired, drawn, mirror, stored>>

(* The put of a claim, after which the hashes are pushed to the relay. *)
WriteClaim(q) ==
    /\ request[q].stage = "writing"
    /\ request[q].token # None
    /\ Put(request[q].next)
    /\ request' = [request EXCEPT ![q].stage = "syncing"]
    /\ history' = [history EXCEPT !.spent = @ \cup {request[q].code},
                                  !.written = <<request[q].token>> \o @]
    /\ UNCHANGED <<expired, drawn, mirror, stored>>

\* Mutant: the hashes are pushed before the put.
SyncBeforePut(q) ==
    /\ request[q].stage \in {"writing", "syncing"}
    /\ request[q].token # None
    /\ mirror' = ToSet(request[q].next.tokens)
    /\ stored' = mirror'
    /\ request' = [request EXCEPT ![q].synced = TRUE,
                      ![q].stage = IF @ = "writing" THEN "writing" ELSE "answering"]
    /\ UNCHANGED <<record, older, expired, drawn, check, history>>

(* storeMirroredClientTokenHashes, reached through syncClientTokensToRelay:  *)
(* the hashes pushed replace those mirrored, whatever came before.           *)
Sync(q) ==
    /\ request[q].stage = "syncing"
    /\ mirror' = ToSet(request[q].next.tokens)
    /\ stored' = mirror'
    /\ request' = [request EXCEPT ![q].stage = "answering", ![q].synced = TRUE]
    /\ UNCHANGED <<record, older, expired, drawn, check, history>>

(* The push fails, or no secret or relay URL is configured: only logged. *)
SyncFailed(q) ==
    /\ request[q].stage = "syncing"
    /\ request' = [request EXCEPT ![q].stage = "answering"]
    /\ UNCHANGED <<record, older, expired, drawn, mirror, stored, check, history>>

(* The response arrives: the bridge prints the code, the app has the token. *)
Answer(q) ==
    /\ request[q].stage = "answering"
    /\ request' = [request EXCEPT ![q] = Idle]
    /\ history' =
           IF request[q].token = None
           THEN [history EXCEPT !.printed = @ \cup {request[q].code}]
           ELSE [history EXCEPT
                    !.handed = @ \cup {request[q].token},
                    !.synced = IF request[q].synced THEN @ \cup {request[q].token} ELSE @]
    /\ UNCHANGED <<record, older, expired, drawn, mirror, stored, check>>

(* The worker dies at an await, or its response is lost. *)
Die(q) ==
    /\ request[q].stage # "idle"
    /\ request' = [request EXCEPT ![q] = Idle]
    /\ UNCHANGED <<record, older, expired, drawn, mirror, stored, check, history>>

(* Time passes the expiry of a code. *)
Expire(k) ==
    /\ k \in drawn \ expired
    /\ expired' = expired \cup {k}
    /\ UNCHANGED <<record, older, drawn, request, mirror, stored, check, history>>

(* The relay's location no longer returns an earlier value. *)
Propagate(r) ==
    /\ r \in older
    /\ older' = older \ {r}
    /\ UNCHANGED <<record, expired, drawn, request, mirror, stored, check, history>>

-----------------------------------------------------------------------------
\* Mutant: the constructor does not load the hashes.
LoadNoMirror == {}

(* loadMirroredClientTokenHashes, in the constructor of the room's object. *)
LoadMirror == stored

(* The room's object is evicted and constructed again; connects in progress *)
(* fail.                                                                    *)
Restart ==
    /\ mirror' = LoadMirror
    /\ check' = [c \in Checks |-> NoCheck]
    /\ UNCHANGED <<record, older, expired, drawn, request, stored, history>>

(* A connect of the bridge (with the secret) or of an app (with a token it  *)
(* was handed): isRelayTokenAuthorized is given the hashes mirrored now.    *)
StartCheck(c, credential) ==
    /\ check[c].stage = "idle"
    /\ record # None
    /\ credential \in history.handed \cup {Secret}
    /\ check' = [check EXCEPT ![c] =
                    [stage |-> "reading", token |-> credential, mirrored |-> mirror,
                     held |-> Holds(record, credential)]]
    /\ UNCHANGED <<record, older, expired, drawn, request, mirror, stored, history>>

Outcome(c, stage) ==
    /\ check' = [check EXCEPT ![c].stage = stage]
    /\ UNCHANGED <<record, older, expired, drawn, request, mirror, stored, history>>

\* Mutant: the registry is asked only when there is no record.
ReadRecordTrusted(c) ==
    /\ check[c].stage = "reading"
    /\ \E seen \in older \cup {record} :
          LET t == check[c].token IN
          Outcome(c, IF t \in check[c].mirrored \/ Holds(seen, t) THEN "accepted"
                     ELSE IF seen = None THEN "verifying" ELSE "rejected")

(* A mirrored hash is accepted as it is; otherwise the record is read from   *)
(* the relay's view of the store, and the registry asked when that does not  *)
(* hold the token.                                                           *)
ReadRecord(c) ==
    /\ check[c].stage = "reading"
    /\ \E seen \in older \cup {record} :
          LET t == check[c].token IN
          Outcome(c, IF t \in check[c].mirrored \/ Holds(seen, t)
                     THEN "accepted" ELSE "verifying")

(* verifyViaRegistry: any status but 200 rejects the token. *)
Verify(c) ==
    /\ check[c].stage = "verifying"
    /\ Outcome(c, IF Holds(record, check[c].token) THEN "accepted" ELSE "rejected")

VerifyFailed(c) ==
    /\ check[c].stage = "verifying"
    /\ Outcome(c, "unverified")

EndCheck(c) ==
    /\ check[c].stage \in {"accepted", "rejected", "unverified"}
    /\ check' = [check EXCEPT ![c] = NoCheck]
    /\ UNCHANGED <<record, older, expired, drawn, request, mirror, stored, history>>

-----------------------------------------------------------------------------
Init ==
    /\ record = None
    /\ older = {}
    /\ expired = {}
    /\ drawn = {}
    /\ request = [q \in Workers |-> Idle]
    /\ mirror = {}
    /\ stored = {}
    /\ check = [c \in Checks |-> NoCheck]
    /\ history = [printed |-> {}, spent |-> {}, superseded |-> {}, written |-> <<>>,
                  handed |-> {}, synced |-> {}]

RegistryStep(q) ==
    \/ \E k \in Codes : StartRefresh(q, k)
    \/ \E k \in Codes, t \in Tokens : StartClaim(q, k, t)
    \/ WriteRefresh(q)
    \/ WriteClaim(q)
    \/ Sync(q)
    \/ SyncFailed(q)
    \/ Answer(q)
    \/ Die(q)

CheckStep(c) ==
    \/ \E credential \in Tokens \cup {Secret} : StartCheck(c, credential)
    \/ ReadRecord(c)
    \/ Verify(c)
    \/ VerifyFailed(c)
    \/ EndCheck(c)

Next ==
    \/ \E k \in Codes : Register(k)
    \/ \E k \in Codes : Expire(k)
    \/ \E r \in older : Propagate(r)
    \/ Restart
    \/ \E q \in Workers : RegistryStep(q)
    \/ \E c \in Checks : CheckStep(c)

Spec == Init /\ [][Next]_vars

-----------------------------------------------------------------------------
(* The record and everything held about it have their types; what a check     *)
(* holds was in the record all along (held) or is mirrored (hashes).          *)
TypeOK ==
    /\ record \in Record \cup {None}
    /\ older \subseteq Record \cup {None}
    /\ expired \subseteq drawn
    /\ drawn \subseteq Codes \cup Tokens
    /\ request \in [Workers -> Request]
    /\ mirror \subseteq Tokens
    /\ stored \subseteq Tokens
    /\ check \in [Checks -> Check]
    /\ history \in [printed: SUBSET Codes, spent: SUBSET Codes, superseded: SUBSET Codes,
                    written: Seq(Tokens), handed: SUBSET Tokens, synced: SUBSET Tokens]

(* At least TokenMax tokens were put after t. *)
Displaced(t) == \E i \in (TokenMax + 1)..Len(history.written) : history.written[i] = t

(* A token an app was handed stays in the record until as many newer tokens   *)
(* as the limit allows were issued: no refresh and no claim loses one         *)
(* (index.ts, the records handlePairAccessCode and handlePairClaim put).      *)
HandedTokenKept ==
    \A t \in history.handed : Holds(record, t) \/ Displaced(t)

(* A code the bridge has printed is the active one until it is claimed or     *)
(* a later refresh replaces it (handlePairAccessCode, handlePairClaim).       *)
PrintedCodeClaimable ==
    \A k \in history.printed :
        record.code = k \/ k \in history.spent \cup history.superseded

(* No request, however old the record it read, makes a claimed code active    *)
(* again (handlePairClaim clears it, handlePairAccessCode draws a new one).   *)
SpentCodeStaysSpent == record # None => record.code \notin history.spent

(* A token whose push to the relay succeeded before it was handed over is     *)
(* mirrored in the room, whatever the store's view there, for as long as the  *)
(* record holds it (syncClientTokensToRelay, storeMirroredClientTokenHashes). *)
SyncedTokenMirrored ==
    \A t \in history.synced : Holds(record, t) => t \in mirror

(* The relay never mirrors a token the registry did not put, so that a claim  *)
(* that failed before its put leaves nothing behind (the order of             *)
(* putPairGateway and syncClientTokensToRelay in handlePairClaim).            *)
MirrorFollowsRecord == mirror \subseteq ToSet(history.written)

(* A connect whose token was in the record from its start to its end is       *)
(* rejected only when the registry could not be asked, however old the        *)
(* relay's view of the store and its mirrored hashes (isRelayTokenAuthorized).*)
ValidTokenAccepted ==
    \A c \in Checks : check[c].stage = "rejected" => ~check[c].held

=============================================================================
