---------------------------- MODULE SizeClasses ----------------------------
(***************************************************************************)
(* The size classes of par_malloc (par_malloc_help.c): multiples of 8      *)
(* bytes up to 1024, multiples of 128 above, and how much of the master    *)
(* chunk is cut up for a class at a time, in hw11-1 and in hw11.           *)
(***************************************************************************)
EXTENDS Integers

size_to_class(size) ==
  IF size <= 1024 THEN (size + 7) \div 8 ELSE (size + 127 + 120 * 128) \div 128

class_to_size(index) ==
  IF index <= 128 THEN index * 8 ELSE 1024 + (index - 128) * 128

getClassChunkSize(klassSize) ==
  klassSize * (IF klassSize <= 64 THEN 128
               ELSE IF klassSize <= 128 THEN 32
               ELSE IF klassSize <= 1024 THEN 8
               ELSE IF klassSize <= 4096 THEN 16 ELSE 1)

\* The copy in hw11 cuts up twice as much for the smallest classes.
getClassChunkSize_11(klassSize) ==
  IF klassSize <= 24 THEN klassSize * 256 ELSE getClassChunkSize(klassSize)

=============================================================================
