----------------------------- MODULE Registers -----------------------------
(***************************************************************************)
(* The register commands g, G, p and P of the stub (GdbStub.c): a table     *)
(* gives every register that GDB knows its place in the saved context or   *)
(* says that it has none.  A byte of the model stands for two hex digits   *)
(* of a packet; a register that is present has one byte.                   *)
(***************************************************************************)
EXTENDS Naturals, SequencesExt

CONSTANT gRegisterOffsets \* sequence of [name, size, present], in GDB's order

gRegisterCount == Len(gRegisterOffsets)

ASSUME RegisterAssumption ==
    /\ gRegisterOffsets \in Seq([name : STRING, size : Nat, present : BOOLEAN])
    /\ \A i \in 1 .. gRegisterCount : gRegisterOffsets[i].present => gRegisterOffsets[i].size = 1
    /\ \A i, j \in 1 .. gRegisterCount :
           gRegisterOffsets[i].name = gRegisterOffsets[j].name => i = j
    /\ \A i, j \in 1 .. gRegisterCount : \* those without a place are the last ones
           i < j /\ gRegisterOffsets[j].present => gRegisterOffsets[i].present

\* Mutated form of ReadRegisterFromContext: nothing for a register that is not there.
ReadOnlyPresent(ctx, i) ==
    IF gRegisterOffsets[i].present THEN <<ctx[gRegisterOffsets[i].name]>> ELSE <<>>

\* A register that is not in the context reads as zero.
ReadRegisterFromContext(ctx, i) ==
    IF gRegisterOffsets[i].present THEN <<ctx[gRegisterOffsets[i].name]>>
    ELSE [j \in 1 .. gRegisterOffsets[i].size |-> 0]

\* g: all registers, one after the other.
ReadGeneralRegisters(ctx) ==
    FlattenSeq([i \in 1 .. gRegisterCount |-> ReadRegisterFromContext(ctx, i)])

\* One register, from the front of the input.
WriteRegisterToContext(ctx, i, input) ==
    LET r == gRegisterOffsets[i]
        fits == Len(input) >= r.size
    IN  [ok |-> fits,
         ctx |-> IF fits /\ r.present THEN [ctx EXCEPT ![r.name] = input[1]] ELSE ctx]

\* Mutated form of Taken: the input is not advanced.
TakenNone(i) == 0

\* How far the registers before i advance the input: not past the value of a register
\* that is not present.
Taken(i) == Cardinality({j \in 1 .. i - 1 : gRegisterOffsets[j].present})

\* G: the registers before the first one that fails stay written.
WriteGeneralRegisters(ctx, data) ==
    LET written == {i \in 1 .. gRegisterCount :
                      \A j \in 1 .. i : Len(data) >= Taken(j) + gRegisterOffsets[j].size}
        sources == [n \in DOMAIN ctx |->
                      {i \in written : gRegisterOffsets[i].present /\ gRegisterOffsets[i].name = n}]
    IN  [ok  |-> written = 1 .. gRegisterCount,
         ctx |-> [n \in DOMAIN ctx |->
                    IF sources[n] = {} THEN ctx[n]
                    ELSE data[Taken(CHOOSE i \in sources[n] : TRUE) + 1]]]

\* p and P of register number i, counted from 0 in the packet.
ReadRegister(ctx, i) ==
    IF i >= gRegisterCount THEN [ok |-> FALSE, data |-> <<>>]
    ELSE [ok |-> TRUE, data |-> ReadRegisterFromContext(ctx, i + 1)]

WriteRegister(ctx, i, data) ==
    IF i >= gRegisterCount THEN [ok |-> FALSE, ctx |-> ctx]
    ELSE WriteRegisterToContext(ctx, i + 1, data)

=============================================================================
