------------------------------- MODULE Chunks -------------------------------
(***************************************************************************)
(* The arithmetic and the buffers of a file transfer, which the four loops *)
(* of ClientFileHandler, ServerUploadHandler and ServerDownloadHandler     *)
(* repeat.  The bytes of a file are the numbers 1, 2, ... in order; the    *)
(* bytes of a buffer that no read has filled are Pad.  All four loops      *)
(* write a whole buffer, whatever length the read returned.                *)
(***************************************************************************)
EXTENDS Integers, Sequences

Pad == 0
Pads(n) == [i \in 1..n |-> Pad]
Smaller(a, b) == IF a < b THEN a ELSE b

(* The bytes of the file from position i to position j.                    *)
FileBytes(i, j) == [k \in 1..(j - i + 1) |-> i + k - 1]

(* Mutant: n_chunks++ is forgotten.                                        *)
NChunksWithoutLast(size, chunk) == size \div chunk

(* n_chunks before the first chunk.                                        *)
NChunks(size, chunk) == (size \div chunk) + 1

(* Mutant: the last chunk is one byte short.                               *)
LastChunkShortByOne(size, chunk) == size - chunk * (size \div chunk) - 1

(* The size of the last chunk.                                             *)
LastChunk(size, chunk) == size - chunk * (size \div chunk)
=============================================================================
