-------------------------- MODULE MCMemoryAccess --------------------------
(***************************************************************************)
(* MemoryAccess for TLC: four pages of three bytes, a scratch buffer of two *)
(* bytes, so that a chunk meets at most two pages, as in the source.       *)
(***************************************************************************)
EXTENDS MemoryAccess, TLC

AllPlatforms ==
    {[agent |-> "dxe", arch |-> "X64"], [agent |-> "mm", arch |-> "X64"]}
    \cup {[agent |-> g, arch |-> a] : g \in {"tables", "pei"}, a \in {"X64", "AARCH64"}}

DxeOnly == {[agent |-> "dxe", arch |-> "X64"]}

Plain    == [mapped |-> TRUE, attr |-> {}, user |-> FALSE, device |-> FALSE]
Unmapped == [Plain EXCEPT !.mapped = FALSE]
Protected == {[Plain EXCEPT !.attr = s, !.user = u] : s \in SUBSET {"RO", "RP"}, u \in BOOLEAN}

\* Page 0 and the last page are ordinary, the two between them of every kind.
AllLayouts ==
    {(0 :> Plain) @@ (1 :> s) @@ (2 :> t) @@ (3 :> Plain) :
        s \in Protected \cup {Unmapped}, t \in Protected \cup {Unmapped}}
    \cup {(0 :> Unmapped) @@ (1 :> s) @@ (2 :> s) @@ (3 :> s) :
             s \in Protected \cup {[Plain EXCEPT !.device = TRUE]}}

PlainLayout == {[p \in Page |-> Plain]}

NoBig  == {{}}
AnyBig == {{}, {1}}

\* Every byte of memory tells where it is.
Bytes == 0 .. 30
Distinct == {[a \in Addr |-> a + 1]}

Read(a, n)  == [write |-> FALSE, addr |-> a, len |-> n, data |-> <<>>]
Write(a, n) == [write |-> TRUE, addr |-> a, len |-> n, data |-> [i \in 1 .. n |-> 20 + i]]
Malformed   == [Write(4, 2) EXCEPT !.len = 1]

\* Up to a chunk for a read.  A write is at most a chunk, because mRequest is: see
\* the README.
ChunkRequests ==
    {Read(a, n) : a \in {0, 1, 2, 5, 8}, n \in 1 .. 2}
    \cup {Write(a, n) : a \in {0, 2, 5, 8}, n \in 1 .. 2} \cup {Malformed}

\* The walks reach every page, as the theorems about them suppose.
ASSUME ReachAssumption == TablesReach

LongReads == {Read(a, n) : a \in {3, 5}, n \in 1 .. 4}

=============================================================================
