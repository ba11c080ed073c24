-------------------------------- MODULE BitMap --------------------------------
(***************************************************************************)
(* A set of small numbers as an array of words (userprog/bitmap.cc), which *)
(* the file system keeps in a file and the pager uses for its frames; the  *)
(* modules FileSystem and Paging take it as a set.                         *)
(***************************************************************************)
EXTENDS Naturals, Bitwise

LOCAL Ext == INSTANCE FiniteSetsExt

CONSTANTS
    numBits,
    BitsInWord,
    NoBit           \* the -1 that Find returns

Bits == 0..(numBits - 1)
numWords == (numBits + BitsInWord - 1) \div BitsInWord
WordIndex == 0..(numWords - 1)
WordValues == 0..(2^BitsInWord - 1)

VARIABLES
    map,        \* the words
    file,       \* the words in the file
    found,      \* what the last Find returned
    set,        \* history: the set that map should be
    filedSet,   \* history: and the one that file should be
    free        \* history: the bits that were clear before the last Find

vars == <<map, file, found, set, filedSet, free>>

Mask(which) == 2^(which % BitsInWord)
WordOf(which) == which \div BitsInWord

\* BitMap::Test
Test(which) == (map[WordOf(which)] & Mask(which)) # 0

\* Mutant: the other bits of the word are lost.
MarkedAlone(words, which) == [words EXCEPT ![WordOf(which)] = Mask(which)]

\* BitMap::Mark
Marked(words, which) == [words EXCEPT ![WordOf(which)] = @ | Mask(which)]

\* BitMap::Clear
Cleared(words, which) == [words EXCEPT ![WordOf(which)] = @ & (2^BitsInWord - 1 - Mask(which))]

\* The constructor clears the bits one by one; the array comes from new, so the
\* bits of the last word that stand for nothing keep any value.
Init ==
    /\ map \in {w \in [WordIndex -> WordValues] :
                   \A which \in Bits : (w[WordOf(which)] & Mask(which)) = 0}
    /\ file = map
    /\ found = NoBit
    /\ set = {} /\ filedSet = {} /\ free = {}

Mark(which) ==
    /\ map' = Marked(map, which)
    /\ set' = set \cup {which}
    /\ UNCHANGED <<file, found, filedSet, free>>

Clear(which) ==
    /\ map' = Cleared(map, which)
    /\ set' = set \ {which}
    /\ UNCHANGED <<file, found, filedSet, free>>

\* BitMap::Find: the first clear bit, which is marked, or -1.
Find ==
    /\ \/ \E which \in Bits :
             /\ ~Test(which) /\ \A w \in Bits : w < which => Test(w)
             /\ map' = Marked(map, which)
             /\ found' = which
             /\ set' = set \cup {which}
       \/ /\ \A which \in Bits : Test(which)
          /\ found' = NoBit
          /\ UNCHANGED <<map, set>>
    /\ free' = Bits \ set
    /\ UNCHANGED <<file, filedSet>>

\* BitMap::NumClear
NumClear == Ext!Quantify(Bits, LAMBDA which : ~Test(which))

FetchFrom ==
    /\ map' = file /\ set' = filedSet
    /\ UNCHANGED <<file, found, filedSet, free>>

WriteBack ==
    /\ file' = map /\ filedSet' = set
    /\ UNCHANGED <<map, found, set, free>>

Next == (\E which \in Bits : Mark(which) \/ Clear(which)) \/ Find \/ FetchFrom \/ WriteBack

-----------------------------------------------------------------------------
(* Properties                                                              *)

\* Test, Find and NumClear answer for the array of words as they would for the
\* set, through any calls, also after the words have been in a file, and
\* whatever is in the bits that stand for nothing.
BitsExact ==
    /\ \A which \in Bits : Test(which) <=> which \in set
    /\ NumClear = numBits - Ext!Quantify(Bits, LAMBDA which : which \in set)
    /\ found = NoBit => free = {}
    /\ found # NoBit => found \in free /\ \A which \in free : found <= which

=============================================================================
