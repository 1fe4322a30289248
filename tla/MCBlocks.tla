------------------------------ MODULE MCBlocks ------------------------------
(***************************************************************************)
(* The file that blocks are read from, and the tree over the transactions  *)
(* of a block; they share no state.  Two hashes make a pair, which differs *)
(* from every other pair and from every transaction: no collisions.        *)
(***************************************************************************)
EXTENDS MCBufferedFile, MerkleTree

PairHash(l, r) == <<l, r>>

\* Bound: of the two parts one is as it was at first, and the tree is built
\* beside one buffer only.
BlocksInit == BufferInit /\ Init
BlocksNext ==
  \/ Init /\ BufferNext /\ UNCHANGED vars
  \/ BufferInit /\ BufSize = 2 /\ Next /\ UNCHANGED bufferVars
BlocksSpec == BlocksInit /\ [][BlocksNext]_<<bufferVars, vars>> /\ WF_bufferVars(LoopStep)
=============================================================================
