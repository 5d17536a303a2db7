------------------------------- MODULE MCBsend -------------------------------
(***************************************************************************)
(* Two buffers that overlap, each for three messages and a tail too small  *)
(* for another.  A word and a header are two bytes.  With the unaligned    *)
(* buffer Segments fails as soon as the buffer is attached.                *)
(***************************************************************************)
EXTENDS Bsend

MCBuffers == {[base |-> Word, size |-> 15], [base |-> 2 * Word, size |-> 13]}
UnalignedBuffers == {[base |-> Word + 1, size |-> 13]}
==============================================================================
