--------------------------- MODULE AdsOctetStream ---------------------------
(***************************************************************************)
(* What a client of the asynOctet interface may rely on: answers come as a *)
(* stream of characters.  What is passed on of a text goes to the end of   *)
(* the stream as a whole or not at all, a reader takes characters from its *)
(* front, and what it gets is exactly what leaves the stream.              *)
(***************************************************************************)
EXTENDS Naturals, Sequences

CONSTANT Pieces      \* the texts that can be added, as sequences of characters

VARIABLES stream, taken

(* A text is added. *)
Put == /\ \E piece \in Pieces : stream' = stream \o piece
       /\ taken' = <<>>

(* A reader takes n characters. *)
Take == \E n \in 0..Len(stream) :
          /\ taken'  = SubSeq(stream, 1, n)
          /\ stream' = SubSeq(stream, n + 1, Len(stream))

(* A new call forgets what the last reader got. *)
Call == stream' = stream /\ taken' = <<>>

StreamInit == stream = <<>> /\ taken = <<>>

StreamSpec == StreamInit /\ [][Put \/ Take \/ Call]_<<stream, taken>>
=============================================================================
