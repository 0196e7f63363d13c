---------------------------- MODULE Subsequences ----------------------------
(* The elements of a sequence at some of its indices, in their order: what  *)
(* a std::remove_if, or a loop that erases from a list, leaves.             *)
EXTENDS Integers, Sequences

SubseqAt(seq, indices) ==
    LET prefix[i \in 0..Len(seq)] ==
            IF i = 0 THEN << >>
            ELSE IF i \in indices THEN Append(prefix[i - 1], seq[i])
                                  ELSE prefix[i - 1]
    IN prefix[Len(seq)]
=============================================================================
