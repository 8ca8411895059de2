---------------------------- MODULE AcceptService ----------------------------
(***************************************************************************)
(* What an endpoint promises the application that accepts connections:     *)
(* the connections of one listener come out in the order in which they     *)
(* were established, each of them once; none is lost while somebody can    *)
(* accept; and None is returned only when there is nothing more to come.   *)
(***************************************************************************)
EXTENDS Naturals, Sequences

CONSTANTS Addrs, Conns

VARIABLES established, taken, open, over

vars == <<established, taken, open, over>>

Init ==
  /\ established = [a \in Addrs |-> <<>>] /\ taken = [a \in Addrs |-> <<>>]
  /\ open = TRUE /\ over = FALSE

Establish(a, x) ==
  /\ ~over /\ \A b \in Addrs : \A i \in DOMAIN established[b] : established[b][i] # x
  /\ established' = [established EXCEPT ![a] = Append(@, x)]
  /\ UNCHANGED <<taken, open, over>>

HandOut(a) ==
  /\ open /\ ~over /\ Len(taken[a]) < Len(established[a])
  /\ taken' = [taken EXCEPT ![a] = Append(@, established[a][Len(@) + 1])]
  /\ UNCHANGED <<established, open, over>>

Finish ==
  /\ open /\ ~over /\ taken = established
  /\ over' = TRUE
  /\ UNCHANGED <<established, taken, open>>

Close == open /\ open' = FALSE /\ UNCHANGED <<established, taken, over>>

Next ==
  \/ \E a \in Addrs : HandOut(a) \/ \E x \in Conns : Establish(a, x)
  \/ Finish \/ Close

Spec == Init /\ [][Next]_vars /\ \A a \in Addrs : WF_vars(HandOut(a))
=============================================================================
