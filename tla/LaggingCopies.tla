--------------------------- MODULE LaggingCopies ---------------------------
(***************************************************************************)
(* What a read-through cache promises when nothing orders its writes after *)
(* the writes of the source it copies: an answer is the source's value of  *)
(* now or one of its earlier values that a copy still holds.  A value      *)
(* enters the copies only from the source, and leaves them for good unless *)
(* the source takes it again.                                              *)
(*                                                                         *)
(* The repository allowlist and the JWKS cache of cargohold implement this *)
(* specification; the authentication of requests is modelled on top of it. *)
(***************************************************************************)

CONSTANTS
  Readers,   \* who asks
  Keys,      \* what is asked about
  Values,    \* what is answered
  None       \* no answer yet

VARIABLES
  source,    \* key -> the value of the authority
  held,      \* key -> the values an answer may still have
  answer     \* reader -> the answer it was given

lagVars == <<source, held, answer>>

Answers == [key : Keys, value : Values]

LagInit ==
  /\ source \in [Keys -> Values]
  /\ held = [k \in Keys |-> {source[k]}]
  /\ answer = [r \in Readers |-> None]

(* The value of k changes; copies of earlier values may remain.            *)
Change(k) ==
  /\ \E v \in Values :
       /\ source' = [source EXCEPT ![k] = v]
       /\ \E h \in SUBSET (held[k] \union {v}) :
            v \in h /\ held' = [held EXCEPT ![k] = h]
  /\ UNCHANGED answer

(* Copies of earlier values are dropped, readers are done.                 *)
Forget ==
  /\ held' \in [Keys -> SUBSET Values]
  /\ \A k \in Keys : source[k] \in held'[k] /\ held'[k] \subseteq held[k]
  /\ answer' \in [Readers -> Answers \union {None}]
  /\ \A r \in Readers : answer'[r] \in {answer[r], None}
  /\ UNCHANGED source

Answer(r, k) ==
  /\ \E v \in held[k] : answer' = [answer EXCEPT ![r] = [key |-> k, value |-> v]]
  /\ UNCHANGED <<source, held>>

(* The last copies of earlier values of k are dropped.                     *)
Settle(k) ==
  /\ held[k] # {source[k]}
  /\ held' = [held EXCEPT ![k] = {source[k]}]
  /\ UNCHANGED <<source, answer>>

LagNext ==
  \/ \E k \in Keys : Change(k)
  \/ Forget
  \/ \E r \in Readers, k \in Keys : Answer(r, k)

LagSpec == LagInit /\ [][LagNext]_lagVars

-----------------------------------------------------------------------------

(* Once the source no longer changes, every answer has its value.          *)
Settles == \A k \in Keys : <>[](held[k] = {source[k]})
=============================================================================
