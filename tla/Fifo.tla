--------------------------------- MODULE Fifo ---------------------------------
(***************************************************************************)
(* What a pipe promises: a bounded queue of bytes.  Bytes come out in the  *)
(* order they went in, none is lost, repeated or made up, and none goes in *)
(* once the reading end is closed.                                         *)
(***************************************************************************)
EXTENDS Naturals, Sequences

CONSTANTS Bytes, Capacity, NoByte

VARIABLES queue,  \* bytes written and not yet read
          got,    \* the byte the last read returned
          listens \* the reading end is open

FInit == queue = <<>> /\ got = NoByte /\ listens = TRUE

FPut(v) ==
  /\ listens
  /\ Len(queue) < Capacity
  /\ queue' = Append(queue, v)
  /\ UNCHANGED <<got, listens>>

FGet ==
  /\ queue # <<>>
  /\ got' = Head(queue)
  /\ queue' = Tail(queue)
  /\ UNCHANGED listens

FHangUp == listens' = FALSE /\ UNCHANGED <<queue, got>>

FSpec ==
  /\ FInit
  /\ [][(\E v \in Bytes : FPut(v)) \/ FGet \/ FHangUp]_<<queue, got, listens>>
===============================================================================
