----------------------------- MODULE MerkleTree -----------------------------
(***************************************************************************)
(* The Merkle tree of a CBlock (src/src/bitcoin/core.cpp:220-268).  The    *)
(* tree is kept in vMerkleTree, one row of hashes after the other, "memory *)
(* only": changing or unserializing vtx, which is public, leaves it as it  *)
(* was, and only BuildMerkleTree and SetNull touch it.                     *)
(*                                                                         *)
(* A transaction is its hash.  Sequences are indexed from 1 here and from  *)
(* 0 in the code, so nIndex is kept from 0 and 1 is added at each access.  *)
(* A loop is a function of the number of its passes.                       *)
(***************************************************************************)
EXTENDS Integers, Sequences

CONSTANTS Txs,          \* hashes of transactions
          MaxTxs,       \* bound on the transactions of a block
          Hash(_, _),   \* the hash of two hashes
          NoHash        \* uint256 0

ASSUME BoundAssumption == MaxTxs \in Nat \ {0}

VARIABLES vtx, vMerkleTree,
          built,        \* vtx as it was when vMerkleTree was made
          reply         \* what the call just made returned

vars == <<vtx, vMerkleTree, built, reply>>

Blocks == UNION {[1 .. n -> Txs] : n \in 0 .. MaxTxs}
Indices == 0 .. MaxTxs - 1

Smaller(i, k) == IF i < k THEN i ELSE k

-----------------------------------------------------------------------------
\* The tree over n leaves: nSize(n)[h] nodes in row h, one in the top row.
nSize(n) ==
  LET size[h \in 0 .. n] == IF h = 0 THEN n ELSE (size[h - 1] + 1) \div 2
  IN size

Top(n) == CHOOSE h \in 0 .. n : /\ nSize(n)[h] <= 1
                                /\ \A l \in 0 .. h - 1 : nSize(n)[l] > 1

\* j, the place in vMerkleTree before the first node of row h.
RowStart(n) ==
  LET j[h \in 0 .. n] == IF h = 0 THEN 0 ELSE j[h - 1] + nSize(n)[h - 1]
  IN j

\* Slip: a node without a right neighbour goes up as it is.
RowPromoted(row) ==
  [i \in 1 .. (Len(row) + 1) \div 2 |->
     IF 2 * i <= Len(row) THEN Hash(row[2 * i - 1], row[2 * i]) ELSE row[2 * i - 1]]

\* A node without a right neighbour is hashed with itself.
RowAbove(row) ==
  [i \in 1 .. (Len(row) + 1) \div 2 |->
     Hash(row[2 * i - 1], row[Smaller(2 * i, Len(row))])]

Rows(txs) ==
  LET row[h \in 0 .. Top(Len(txs))] == IF h = 0 THEN txs ELSE RowAbove(row[h - 1])
  IN row

Tree(txs) ==
  LET tree[h \in 0 .. Top(Len(txs))] == IF h = 0 THEN txs ELSE tree[h - 1] \o Rows(txs)[h]
  IN tree[Top(Len(txs))]

RootOf(tree) == IF tree = <<>> THEN NoHash ELSE tree[Len(tree)]

\* nIndex after h times nIndex >>= 1.
Shifted(nIndex, n) ==
  LET shifted[h \in 0 .. n] == IF h = 0 THEN nIndex ELSE shifted[h - 1] \div 2
  IN shifted

\* Slip: nIndex^1 is not held back to the last node of the row.
SiblingUnbounded(nIndex, size) == IF nIndex % 2 = 0 THEN nIndex + 1 ELSE nIndex - 1

\* nIndex^1 in a row of size nodes, but no further than the last node.
Sibling(nIndex, size) ==
  Smaller(IF nIndex % 2 = 0 THEN nIndex + 1 ELSE nIndex - 1, size - 1)

\* Slip: j is advanced before the node is taken.
BranchPlacesAhead(n, nIndex) ==
  [h \in 1 .. Top(n) |->
     RowStart(n)[h] + Sibling(Shifted(nIndex, Top(n))[h - 1], nSize(n)[h - 1]) + 1]

\* Where the nodes of the branch of nIndex are in a tree over n leaves.
BranchPlaces(n, nIndex) ==
  [h \in 1 .. Top(n) |->
     RowStart(n)[h - 1] + Sibling(Shifted(nIndex, Top(n))[h - 1], nSize(n)[h - 1]) + 1]

\* The nodes at these places, if the tree has them all.
Inside(n, nIndex, tree) == \A h \in DOMAIN BranchPlaces(n, nIndex) : BranchPlaces(n, nIndex)[h] \in DOMAIN tree
BranchIn(n, nIndex, tree) ==
  IF Inside(n, nIndex, tree) THEN [h \in DOMAIN BranchPlaces(n, nIndex) |-> tree[BranchPlaces(n, nIndex)[h]]]
  ELSE <<>>

CheckMerkleBranch(hash, branch, nIndex) ==
  LET bits == Shifted(nIndex, Len(branch))
      up[h \in 0 .. Len(branch)] ==
        IF h = 0 THEN hash
        ELSE IF bits[h - 1] % 2 = 1 THEN Hash(branch[h], up[h - 1]) ELSE Hash(up[h - 1], branch[h])
  IN IF nIndex = -1 THEN NoHash ELSE up[Len(branch)]

-----------------------------------------------------------------------------
Nothing == [call |-> "none"]

Init == vtx = <<>> /\ vMerkleTree = <<>> /\ built = <<>> /\ reply = Nothing

\* vtx is public: a miner or the parameters of the chain append to it, and
\* unserializing a block replaces it.
PushTx(tx) ==
  /\ Len(vtx) < MaxTxs
  /\ vtx' = Append(vtx, tx)
  /\ reply' = Nothing
  /\ UNCHANGED <<vMerkleTree, built>>

Unserialize(txs) ==
  /\ vtx' = txs
  /\ reply' = Nothing
  /\ UNCHANGED <<vMerkleTree, built>>

SetNull ==
  /\ vtx' = <<>> /\ vMerkleTree' = <<>> /\ built' = <<>>
  /\ reply' = Nothing

Make == vMerkleTree' = Tree(vtx) /\ built' = vtx

BuildMerkleTree ==
  /\ Make
  /\ reply' = [call |-> "root", hash |-> RootOf(Tree(vtx))]
  /\ UNCHANGED vtx

\* The tree is made if there is none; a stale one is used as it is, and may be
\* too short for the places of the branch.
GetMerkleBranch(nIndex) ==
  LET tree == IF vMerkleTree = <<>> THEN Tree(vtx) ELSE vMerkleTree
  IN /\ IF vMerkleTree = <<>> THEN Make ELSE UNCHANGED <<vMerkleTree, built>>
     /\ reply' = [call |-> "branch", nIndex |-> nIndex, inside |-> Inside(Len(vtx), nIndex, tree),
                  branch |-> BranchIn(Len(vtx), nIndex, tree)]
     /\ UNCHANGED vtx

\* A caller that respects both asserts.
GetTxHash(nIndex) ==
  /\ vMerkleTree # <<>> /\ nIndex < Len(vtx)
  /\ LET inside == nIndex + 1 <= Len(vMerkleTree)
     IN reply' = [call |-> "tx", nIndex |-> nIndex, inside |-> inside,
                  hash |-> IF inside THEN vMerkleTree[nIndex + 1] ELSE NoHash]
  /\ UNCHANGED <<vtx, vMerkleTree, built>>

Next ==
  \/ \E tx \in Txs : PushTx(tx)
  \/ \E txs \in Blocks : Unserialize(txs)
  \/ SetNull
  \/ BuildMerkleTree
  \/ \E nIndex \in Indices : GetMerkleBranch(nIndex) \/ GetTxHash(nIndex)

Spec == Init /\ [][Next]_vars

-----------------------------------------------------------------------------
(***************************************************************************)
(* Another definition of the root: the transactions padded to a power of   *)
(* two, and the perfect tree over them.                                    *)
(***************************************************************************)
\* From the top down, k rows below it: which node of the flat row each node of
\* the perfect tree is; where a row ends too early it is the last one.
PaddedPlaces(n) ==
  LET place[k \in 0 .. Top(n)] ==
        IF k = 0 THEN <<0>>
        ELSE [i \in 1 .. 2 * Len(place[k - 1]) |->
                Smaller(2 * place[k - 1][(i + 1) \div 2] + ((i + 1) % 2), nSize(n)[Top(n) - k] - 1)]
  IN place
Padded(txs) ==
  IF txs = <<>> THEN <<>>
  ELSE LET place == PaddedPlaces(Len(txs))[Top(Len(txs))] IN [i \in DOMAIN place |-> txs[place[i] + 1]]

PerfectAbove(row) == [i \in 1 .. Len(row) \div 2 |-> Hash(row[2 * i - 1], row[2 * i])]
PerfectRows(leaves, top) ==
  LET row[h \in 0 .. top] == IF h = 0 THEN leaves ELSE PerfectAbove(row[h - 1])
  IN row
PerfectRoot(leaves, top) == PerfectRows(leaves, top)[top][1]

Root(txs) == IF txs = <<>> THEN NoHash ELSE PerfectRoot(Padded(txs), Top(Len(txs)))

\* The tree has as many nodes as the transactions it was built from make.
TypeOK ==
  /\ vtx \in Blocks
  /\ built \in Blocks
  /\ Len(vMerkleTree) = RowStart(Len(built))[Top(Len(built))] + Smaller(1, Len(built))
  /\ reply.call \in {"none", "root", "branch", "tx"}

\* BuildMerkleTree returns the root of the transactions: flat rows with an odd
\* node doubled give the same as the perfect tree over the padded transactions.
BuildsTheRoot == reply.call = "root" => reply.hash = Root(vtx)

\* A branch leads from its transaction to the root, also one that was taken
\* from a stale tree, as long as the number of transactions is the same: then
\* it is the branch of the transaction the tree was made of.
BranchProves ==
  reply.call = "branch" /\ Len(vtx) = Len(built) /\ reply.nIndex < Len(vtx)
    => /\ reply.inside
       /\ CheckMerkleBranch(built[reply.nIndex + 1], reply.branch, reply.nIndex)
            = Root(built)

\* A stale tree is dangerous only if vtx has grown since it was made: otherwise
\* GetMerkleBranch and GetTxHash stay inside vMerkleTree, and GetTxHash returns
\* a transaction of the block the tree was made of, never an inner node.
StaleUnlessGrown ==
  reply.call \in {"branch", "tx"} /\ Len(vtx) <= Len(built)
    => /\ reply.inside
       /\ reply.call = "tx" => reply.hash = built[reply.nIndex + 1]

\* The root BuildMerkleTree computes commits to the transactions up to a doubled
\* end: two blocks have the same one exactly if they are the same once padded.
RootCommits ==
  RootOf(Tree(vtx)) = RootOf(Tree(built)) <=> Padded(vtx) = Padded(built)

\* The tree is that of the transactions it was made from, and gives their root
\* and, of each, the branch that leads to it, whatever has become of vtx since.
TreeProves == TypeOK /\ BuildsTheRoot /\ BranchProves
=============================================================================
