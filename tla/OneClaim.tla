-------------------------------- MODULE OneClaim --------------------------------
(***************************************************************************)
(* What a service gets that creates something under a name before it goes   *)
(* on, where a name in use is refused and never becomes free again: of all   *)
(* who try one name at most one gets past it, the others are turned away,    *)
(* and when that one has left nobody gets past it any more.                  *)
(*                                                                         *)
(* The handlers of src/launch-k8s/manage_cilium_longhorn.go do this with the *)
(* namespace of a tenant, those of src/api/main.go with the container of a   *)
(* microVM outside "default".  Neither gives a name back.                    *)
(***************************************************************************)
EXTENDS TLAPS

CONSTANTS
  Names,    \* what may be created
  Clients   \* who may try

VARIABLES
  taken,    \* names in use
  past      \* the clients that are past each name

vars == <<taken, past>>

TypeOK ==
  /\ taken \subseteq Names
  /\ past \in [Names -> SUBSET Clients]

Init == taken = {} /\ past = [n \in Names |-> {}]

\* The creation succeeds, and the client goes on.
Claim(n, c) ==
  /\ n \notin taken /\ taken' = taken \cup {n}
  /\ past' = [past EXCEPT ![n] = @ \cup {c}]

\* The creation takes effect, but its client is told that it failed.
Waste(n) ==
  /\ n \notin taken /\ taken' = taken \cup {n}
  /\ UNCHANGED past

\* Clients give up or are done, several at once if the service ends.
Leave ==
  /\ UNCHANGED taken
  /\ past' \in [Names -> SUBSET Clients]
  /\ \A n \in Names : past'[n] \subseteq past[n]

Next ==
  \/ \E n \in Names, c \in Clients : Claim(n, c)
  \/ \E n \in Names : Waste(n)
  \/ Leave

Spec == Init /\ [][Next]_vars

-----------------------------------------------------------------------------
\* A client that is past a name stands in everybody's way, and is alone there.
Exclusive ==
  \A n \in Names :
    /\ past[n] # {} => n \in taken
    /\ \A c, d \in past[n] : c = d

\* Nobody gets past a name that is taken but whoever is past it already.
NoneNew == \A n \in taken : n \in taken' /\ past'[n] \subseteq past[n]

Closed == [][NoneNew]_vars

-----------------------------------------------------------------------------
LEMMA Typing == Spec => []TypeOK
<1>1. Init => TypeOK
  BY DEF Init, TypeOK
<1>2. TypeOK /\ [Next]_vars => TypeOK'
  BY DEF TypeOK, Next, vars, Claim, Waste, Leave
<1> QED BY <1>1, <1>2, PTL DEF Spec

\* However many clients try a name, one at most is past it at any time.
THEOREM AtMostOne == Spec => []Exclusive
<1>1. Init => Exclusive
  BY DEF Init, Exclusive
<1>2. TypeOK /\ Exclusive /\ [Next]_vars => Exclusive'
  <2> SUFFICES ASSUME TypeOK, Exclusive, [Next]_vars, NEW n \in Names
               PROVE  /\ past'[n] # {} => n \in taken'
                      /\ \A c, d \in past'[n] : c = d
    BY DEF Exclusive
  <2> USE DEF TypeOK, Exclusive
  <2>1. ASSUME NEW m \in Names, NEW c \in Clients, Claim(m, c)
        PROVE  /\ past'[n] # {} => n \in taken'
               /\ \A d, e \in past'[n] : d = e
    <3>1. CASE m = n
      BY <2>1, <3>1 DEF Claim
    <3>2. CASE m # n
      BY <2>1, <3>2 DEF Claim
    <3> QED BY <3>1, <3>2
  <2>2. ASSUME NEW m \in Names, Waste(m)
        PROVE  past'[n] = past[n] /\ taken \subseteq taken'
    BY <2>2 DEF Waste
  <2>3. CASE Leave
    BY <2>3 DEF Leave
  <2>4. CASE UNCHANGED vars
    BY <2>4 DEF vars
  <2> QED BY <2>1, <2>2, <2>3, <2>4 DEF Next
<1> QED BY Typing, <1>1, <1>2, PTL DEF Spec

\* A name is never free again, and nobody comes past it a second time.
THEOREM OnceForAll == Spec => Closed
<1>1. TypeOK /\ [Next]_vars => [NoneNew]_vars
  BY DEF TypeOK, Next, vars, Claim, Waste, Leave, NoneNew
<1> QED BY Typing, <1>1, PTL DEF Spec, Closed
=============================================================================
