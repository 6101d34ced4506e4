------------------------------- MODULE BufferLoan -------------------------------
(***************************************************************************)
(* What every capture backend promises about the shared memory it hands to *)
(* the compositor, whatever the protocol: a buffer is lent to the          *)
(* compositor, which may write into it until it returns it or until the    *)
(* loan is cancelled; its memory is released only when it is not on loan;  *)
(* and a capture delivers only a buffer that the compositor has finished.  *)
(***************************************************************************)
CONSTANTS Buffers, NoBuffer

VARIABLES
  loan,      \* the buffer the compositor may be writing into, or NoBuffer
  finished,  \* buffers returned with a complete image
  freed,     \* buffers whose memory the compositor has been told to release
  delivered  \* the buffer the capture returned, or NoBuffer

vars == <<loan, finished, freed, delivered>>

TypeOK ==
  /\ loan \in Buffers \cup {NoBuffer}
  /\ finished \subseteq Buffers
  /\ freed \subseteq Buffers
  /\ delivered \in Buffers \cup {NoBuffer}

Init ==
  /\ loan = NoBuffer
  /\ finished = {}
  /\ freed = {}
  /\ delivered = NoBuffer

Lend(b) ==
  /\ loan = NoBuffer
  /\ b \notin freed /\ b \notin finished
  /\ delivered = NoBuffer
  /\ loan' = b
  /\ UNCHANGED <<finished, freed, delivered>>

\* The compositor is done with the buffer, or the loan is cancelled.
Return ==
  /\ loan # NoBuffer
  /\ loan' = NoBuffer
  /\ finished' \in {finished, finished \cup {loan}}
  /\ UNCHANGED <<freed, delivered>>

Free(b) ==
  /\ b # loan /\ b \notin freed
  /\ freed' = freed \cup {b}
  /\ UNCHANGED <<loan, finished, delivered>>

Deliver(b) ==
  /\ delivered = NoBuffer
  /\ b \in finished
  /\ delivered' = b
  /\ UNCHANGED <<loan, finished, freed>>

Next == Return \/ \E b \in Buffers : Lend(b) \/ Free(b) \/ Deliver(b)

Spec == Init /\ [][Next]_vars
=================================================================================
