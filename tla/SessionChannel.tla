---------------------------- MODULE SessionChannel ----------------------------
(***************************************************************************)
(* What the bridge promises a gateway about the frames it proxies: every   *)
(* gateway connection gets a run of the frames that arrived from the       *)
(* relay, in the order of their arrival, that begins with a connect, and   *)
(* no frame is given to two connections.  Which frames are dropped is left *)
(* open.                                                                   *)
(***************************************************************************)
EXTENDS Integers, Sequences

CONSTANTS
  Connections,  \* connections to the gateway
  Kinds         \* kinds of frames, "connect" one of them

VARIABLES
  arrived,  \* the kinds of the frames that have arrived, in order
  given,    \* for each connection the numbers of the frames given to it
  spent     \* the numbers of all frames ever given

channelVars == <<arrived, given, spent>>

ToSet(s) == {s[i] : i \in DOMAIN s}
Increasing(s) == \A i, j \in DOMAIN s : i < j => s[i] < s[j]

Init ==
  /\ arrived = <<>>
  /\ given = [c \in Connections |-> <<>>]
  /\ spent = {}

\* A frame arrives; it may be given in the same step.
Arrive == \E k \in Kinds : arrived' = Append(arrived, k)

\* A connection is given frames that nobody was given before.
Give ==
  \E c \in Connections :
     /\ \A d \in Connections \ {c} : given'[d] = given[d]
     /\ Len(given[c]) < Len(given'[c])
     /\ SubSeq(given'[c], 1, Len(given[c])) = given[c]
     /\ Increasing(given'[c])
     /\ arrived'[given'[c][1]] = "connect"
     /\ LET new == ToSet(given'[c]) \ ToSet(given[c])
        IN  new \subseteq (DOMAIN arrived') \ spent /\ spent' = spent \cup new

\* Connections end; those that take their place start with nothing given.
End ==
  /\ \A c \in Connections : given'[c] \in {given[c], <<>>}
  /\ UNCHANGED spent

Next == (Arrive \/ UNCHANGED arrived) /\ (Give \/ End)

Spec == Init /\ [][Next]_channelVars
=============================================================================
