----------------------------- MODULE MCGDSFCache -----------------------------
(* Instances of GDSFCache for TLC. *)
EXTENDS GDSFCache, TLC

\* Every value has size 1: no getsizeof, as SSDataManager creates the index
MCUnitSize == [v \in Values |-> 1]

\* getsizeof given: sizes 0, 1, 2 and one that exceeds the index; the
\* cheaper of the two values that are cached is the larger
MCSize == [v \in Values |-> CASE v = Placeholder -> 0
                              [] v = 1 -> 2
                              [] v = 2 -> 1
                              [] OTHER -> 4]

Item == Keys \X Values

\* One object per call
MCSingles == {<<i>> : i \in Item}

\* An import that fills an index of four places (import_data of the data
\* manager), and one object per call: one of the imported keys, and new ones
MCBatches ==
    {[i \in 1..4 |-> <<i, Placeholder>>]}
        \cup {<< <<k, Placeholder>> >> : k \in Keys \ 1..3}

KeySymmetry == Permutations(Keys)
=============================================================================
