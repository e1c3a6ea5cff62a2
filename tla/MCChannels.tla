----------------------------- MODULE MCChannels -----------------------------
(***************************************************************************)
(* Channels with three coroutines on three workers and two channels of     *)
(* capacity one, A and B, and an unbounded one, U.                         *)
(***************************************************************************)
EXTENDS Channels

CONSTANTS t1, t2, t3, A, B, U

Each == [t \in Tasks |-> t]

Op(kind, br) == [kind |-> kind, br |-> br, entry |-> "poll"]

Send(c) == Op("send", <<<<c, "send">>>>)
TrySend(c) == Op("try_send", <<<<c, "send">>>>)
Recv(c) == Op("recv", <<<<c, "recv">>>>)
TryRecv(c) == Op("try_recv", <<<<c, "recv">>>>)
OnToken == Op("on_cancel", <<<<Token, "cancel">>>>)
Closing(c) == [kind |-> "close", br |-> <<<<c, "recv">>>>, entry |-> "close"]
Requesting == [kind |-> "request", br |-> <<<<Token, "cancel">>>>, entry |-> "request"]
Select(br) == Op("select", br)
SelectRecv == Op("select_recv", <<<<A, "recv">>, <<B, "recv">>>>)

\* A select's channels have no other waiter on the same side.
Alone == {
  [t \in Tasks |-> CASE t = t1 -> {Recv(A)}
                     [] t = t2 -> {Send(A), Closing(A)}
                     [] t = t3 -> {Recv(A), Send(A)}],
  [t \in Tasks |-> CASE t = t1 -> {Recv(U)}
                     [] t = t2 -> {TrySend(U), Closing(U)}
                     [] t = t3 -> {Recv(U), TryRecv(U)}],
  [t \in Tasks |-> CASE t = t1 -> {Select(<<<<A, "recv">>, <<B, "send">>, <<t1, "sleep">>>>)}
                     [] t = t2 -> {Send(A), TryRecv(B)}
                     [] t = t3 -> {TrySend(B), Closing(B)}],
  [t \in Tasks |-> CASE t = t1 -> {SelectRecv}
                     [] t = t2 -> {Send(A), Closing(A)}
                     [] t = t3 -> {TrySend(B), Closing(B)}],
  [t \in Tasks |-> CASE t = t1 -> {Select(<<<<A, "recv">>, <<Token, "cancel">>>>)}
                     [] t = t2 -> {Send(A), Requesting}
                     [] t = t3 -> {OnToken}] }

\* The first set is what NobodyStranded is about.
ASSUME AloneIsUncontended == Programs = Alone => Uncontended

\* A select and a plain sender wait for room in the same channel.
Shared == {
  [t \in Tasks |-> CASE t = t1 -> {Select(<<<<A, "send">>, <<B, "send">>>>)}
                     [] t = t2 -> {Send(A)}
                     [] t = t3 -> {TrySend(A), TrySend(B), TryRecv(A), TryRecv(B)}] }
=============================================================================
