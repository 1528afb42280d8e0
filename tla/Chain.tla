-------------------------------- MODULE Chain --------------------------------
(***************************************************************************)
(* The blockchain network as the gateway meets it through a chain data     *)
(* source: blocks are appended, the part above the finality boundary may   *)
(* be reorganized, and the boundary follows the head.  This is the         *)
(* environment of the watcher; nothing here is gateway code, it is what    *)
(* chains/base.py promises about finality and what watcher/single_pass.py  *)
(* relies on.                                                              *)
(*                                                                         *)
(* Time is counted in blocks: the timestamp of block b is b, and "now" is  *)
(* the head.  Block 0 stands for "not on the chain".                       *)
(***************************************************************************)
EXTENDS Integers

CONSTANTS
    Tx,         \* transfers the network may ever carry, one per idempotency key
    Token,      \* those that are events of a watched token contract
    MaxBlock,   \* bound: the last block the network ever mines
    Lag         \* how many blocks the finality boundary may trail the head by

ASSUME ChainAssumption ==
    /\ Token \subseteq Tx
    /\ MaxBlock \in Nat \ {0}
    /\ Lag \in Nat \ {0}

VARIABLES
    chain,      \* for each transfer, the block that carries it and its outcome
    head,       \* the network height
    fin         \* the finality boundary: blocks up to it never change again

chainVars == <<chain, head, fin>>

Block == 0 .. MaxBlock
Place == [at : Block, ok : BOOLEAN]
OffChain == [at |-> 0, ok |-> FALSE]

ChainTypeOK ==
    /\ chain \in [Tx -> Place]
    /\ head \in Block
    /\ fin \in 0 .. head

ChainInit ==
    /\ chain = [t \in Tx |-> OffChain]
    /\ head = 0
    /\ fin = 0

\* A new block carries any of the transfers still waiting.  A native transfer
\* may be carried and fail; a token event exists only if its execution succeeded.
Mine ==
    /\ head < MaxBlock
    /\ head + 1 <= fin + Lag
    /\ head' = head + 1
    /\ \E S \in SUBSET {t \in Tx : chain[t].at = 0} :
         \E V \in SUBSET S :
            /\ S \cap Token \subseteq V
            /\ chain' = [t \in Tx |-> IF t \in S THEN [at |-> head + 1, ok |-> t \in V]
                                                  ELSE chain[t]]
    /\ UNCHANGED fin

\* One transfer above the boundary is moved to another block of the winning
\* branch, executes differently there, or is dropped; a reorganization that
\* displaces several transfers is several such steps.
Reorg(t) ==
    /\ fin < head
    /\ chain[t].at = 0 \/ chain[t].at > fin
    /\ \E p \in Place :
          /\ p = OffChain \/ (p.at \in fin + 1 .. head /\ (t \in Token => p.ok))
          /\ chain' = [chain EXCEPT ![t] = p]
    /\ UNCHANGED <<head, fin>>

Finalize ==
    /\ fin < head
    /\ fin' = fin + 1
    /\ UNCHANGED <<chain, head>>

\* The transfer is carried by a block that can no longer be reorganized.
IsFinal(t) == chain[t].at \in 1 .. fin

=============================================================================
