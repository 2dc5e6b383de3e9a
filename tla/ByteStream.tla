----------------------------- MODULE ByteStream -----------------------------
(***************************************************************************)
(* What the plugin promises to everything above a binary channel: the      *)
(* bytes the peer sent arrive once, in order and complete, and the reader  *)
(* learns of the end only after the last of them, unless this side cut the *)
(* stream short.                                                           *)
(*                                                                         *)
(* A byte is its position in the stream, so a stream is the number of      *)
(* bytes in it.                                                            *)
(***************************************************************************)
EXTENDS Naturals

VARIABLES sent,      \* bytes the peer put on the stream
          finished,  \* the peer ended the stream
          cut,       \* this side closed the stream, or the pipe under it broke
          got,       \* bytes handed to the reader
          failed     \* the reader was told that the stream has ended

vars == <<sent, finished, cut, got, failed>>

\* Positions are natural numbers; a stream is finished, cut and failed or not.
TypeOK == /\ sent \in Nat /\ got \in Nat
          /\ finished \in BOOLEAN /\ cut \in BOOLEAN /\ failed \in BOOLEAN

Init == /\ sent = 0 /\ got = 0
        /\ finished = FALSE /\ cut = FALSE /\ failed = FALSE

Send == /\ ~finished
        /\ sent' \in Nat /\ sent' > sent
        /\ UNCHANGED <<finished, cut, got, failed>>

Finish == finished' = TRUE /\ UNCHANGED <<sent, cut, got, failed>>

Cut == cut' = TRUE /\ UNCHANGED <<sent, finished, got, failed>>

\* Nothing is delivered after the end was announced.
Receive == /\ ~failed
           /\ got' \in (got + 1)..sent
           /\ UNCHANGED <<sent, finished, cut, failed>>

\* The end is announced when everything was delivered, or after a cut.
Fail == /\ cut \/ (finished /\ got = sent)
        /\ failed' = TRUE
        /\ UNCHANGED <<sent, finished, cut, got>>

Next == Send \/ Finish \/ Cut \/ Receive \/ Fail

Spec == Init /\ [][Next]_vars
=============================================================================
