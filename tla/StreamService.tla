---------------------------- MODULE StreamService ----------------------------
(***************************************************************************)
(* What two multiplexed sessions promise to the applications that use      *)
(* them, without sessions, frames, tables or channels: an open_stream call *)
(* that returns a stream has found the other end of it, no id is used      *)
(* twice, and each direction of a stream hands over what was sent, in      *)
(* order and once.  A call may fail and a stream may fall silent at any    *)
(* time; nothing else may happen to them.                                  *)
(***************************************************************************)
EXTENDS Naturals, Sequences

CONSTANTS Side, Peer(_), Ids

VARIABLES
  calls,   \* outcome of every open_stream call of a side, in order
  ends     \* the stream ends a side has got, in order

End == [id : Ids, by : {"open", "accept"}, sent : Nat, got : Seq(Nat)]

NewEnd(id, by) == [id |-> id, by |-> by, sent |-> 0, got |-> <<>>]

Init ==
  /\ calls = [s \in Side |-> <<>>]
  /\ ends = [s \in Side |-> <<>>]

Fresh(s, id) == \A k \in DOMAIN ends[s] : ends[s][k].id # id

\* An application calls open_stream; there may be nobody to ask.
Call(s) ==
  /\ \E r \in {"waiting", "err"} : calls' = [calls EXCEPT ![s] = Append(@, r)]
  /\ UNCHANGED ends

\* Some calls fail, or their callers give up.
Fail(s) ==
  /\ \E C \in SUBSET {c \in DOMAIN calls[s] : calls[s][c] = "waiting"} :
       \E r \in {"err", "abandoned"} :
         calls' = [calls EXCEPT ![s] = [c \in DOMAIN @ |-> IF c \in C THEN r ELSE @[c]]]
  /\ UNCHANGED ends

\* The accepting end of a stream comes first, one at most for each call ...
Accept(s, id) ==
  /\ Len(SelectSeq(ends[s], LAMBDA e : e.by = "accept")) < Len(calls[Peer(s)])
  /\ Fresh(s, id)
  /\ ends' = [ends EXCEPT ![s] = Append(@, NewEnd(id, "accept"))]
  /\ UNCHANGED calls

\* ... then the opening end, which goes to the caller if it still waits.
Establish(s, c, id) ==
  /\ calls[s][c] \in {"waiting", "abandoned"}
  /\ \E j \in DOMAIN ends[Peer(s)] :
       ends[Peer(s)][j].id = id /\ ends[Peer(s)][j].by = "accept"
  /\ Fresh(s, id)
  /\ ends' = [ends EXCEPT ![s] = Append(@, NewEnd(id, "open"))]
  /\ calls' = [calls EXCEPT ![s][c] = IF @ = "waiting" THEN "ok" ELSE @]

Send(s, k) ==
  /\ ends' = [ends EXCEPT ![s][k].sent = @ + 1]
  /\ UNCHANGED calls

\* The next item that the other end has sent.
Receive(s, k) ==
  LET n == Len(ends[s][k].got) + 1
  IN /\ \E j \in DOMAIN ends[Peer(s)] :
          ends[Peer(s)][j].id = ends[s][k].id /\ n <= ends[Peer(s)][j].sent
     /\ ends' = [ends EXCEPT ![s][k].got = Append(@, n)]
     /\ UNCHANGED calls

Next ==
  \E s \in Side :
    \/ Call(s) \/ Fail(s)
    \/ \E id \in Ids :
         Accept(s, id) \/ \E c \in DOMAIN calls[s] : Establish(s, c, id)
    \/ \E k \in DOMAIN ends[s] : Send(s, k) \/ Receive(s, k)

Spec == Init /\ [][Next]_<<calls, ends>>
=============================================================================
