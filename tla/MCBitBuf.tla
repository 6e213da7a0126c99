------------------------------ MODULE MCBitBuf ------------------------------
(* Words of four bytes of two bits.                                        *)
EXTENDS BitBuf

\* The number n as a function of its w lowest bits.
Binary(n, w) == [i \in 0..(w - 1) |-> (n \div 2^i) % 2]

\* A positive number and a negative one.
MCValues == {Binary(n, 8) : n \in {90, 203}}
MCTexts == {<<Binary(2, 2), Binary(3, 2), Binary(1, 2)>>}
\* One that ends in the middle of a word and one that does not fit.
MCLists == {[i \in 1..n |-> Binary((i * i) % 4, 2)] : n \in {3, 9}}
\* What a datagram without a NUL has left.
MCContents == {[i \in 0..23 |-> IF i < 16 /\ i % 3 # 0 THEN 1 ELSE 0]}
=============================================================================
