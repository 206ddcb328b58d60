--------------------------- MODULE BreakpointSet ---------------------------
(***************************************************************************)
(* What software breakpoints promise to a debugger and to the program:     *)
(* there is a set of inserted addresses, the processor fetches a breakpoint *)
(* instruction at exactly these, and fetches what the program holds at all *)
(* others.  How the stub keeps the displaced instructions is not visible.  *)
(***************************************************************************)
CONSTANTS Addr,   \* addresses of instructions
          Value,  \* contents of an instruction cell
          BP      \* the breakpoint instruction

VARIABLES code,     \* code[a]: the instruction the program has at a
          inserted, \* the addresses with a breakpoint
          fetch,    \* fetch[a]: the instruction the processor fetches at a
          reply     \* the last answer to the debugger

vars == <<code, inserted, fetch, reply>>

\* The answer that says nothing about these addresses.
Quiet == [op |-> "none"]

Answers == {Quiet} \cup [op : {"add", "remove"}, addr : Addr, ok : BOOLEAN]

\* What the processor sees of program c with breakpoints at the addresses of S.
Patched(c, S) == [a \in Addr |-> IF a \in S THEN BP ELSE c[a]]

Init == /\ code \in [Addr -> Value]
        /\ inserted = {}
        /\ fetch = code
        /\ reply = Quiet

\* A successful insertion; inserting twice is inserting once.
Insert(a) ==
    /\ inserted' = inserted \cup {a}
    /\ fetch' = Patched(code, inserted')
    /\ reply' = [op |-> "add", addr |-> a, ok |-> TRUE]
    /\ UNCHANGED code

\* An insertion may be refused, and then has no effect.
RefuseInsert(a) ==
    /\ a \notin inserted
    /\ reply' = [op |-> "add", addr |-> a, ok |-> FALSE]
    /\ UNCHANGED <<code, inserted, fetch>>

\* A removal succeeds exactly when the breakpoint is there.
Remove(a) ==
    /\ inserted' = inserted \ {a}
    /\ fetch' = Patched(code, inserted')
    /\ reply' = [op |-> "remove", addr |-> a, ok |-> a \in inserted]
    /\ UNCHANGED code

\* The program, or the debugger for it, changes an instruction that has no
\* breakpoint.
Rewrite(a, v) ==
    /\ a \notin inserted
    /\ code' = [code EXCEPT ![a] = v]
    /\ fetch' = [fetch EXCEPT ![a] = v]
    /\ reply' = Quiet
    /\ UNCHANGED inserted

\* Something happened at other addresses.
Elsewhere ==
    /\ reply' = Quiet
    /\ UNCHANGED <<code, inserted, fetch>>

Next == \/ Elsewhere
        \/ \E a \in Addr : \/ Insert(a)
                           \/ RefuseInsert(a)
                           \/ Remove(a)
                           \/ \E v \in Value : Rewrite(a, v)

Spec == Init /\ [][Next]_vars

=============================================================================
