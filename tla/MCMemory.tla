------------------------------ MODULE MCMemory ------------------------------
(***************************************************************************)
(* Keys, and the locked memory that their bytes are in: what is a key is   *)
(* checked by the one, where it is by the other, and they share no state.  *)
(* The memory has three pages of four bytes, and storage that shares pages, *)
(* spans several of them, is empty, or reuses the bytes of other storage.  *)
(***************************************************************************)
EXTENDS MCKeys, LockedPages, TLC

CONSTANTS secret,  \* at the start of page 0
          chunk,   \* the end of page 0, all of page 1, the start of page 2
          tail,    \* the rest of page 2
          empty,   \* allocate(0)
          reuse    \* lies on bytes of chunk and tail, never live with them

MCBlocks == {secret, chunk, tail, empty, reuse}
MCAddr == (secret :> 0 @@ chunk :> 3 @@ tail :> 9 @@ empty :> 5 @@ reuse :> 7)
MCSize == (secret :> 3 @@ chunk :> 6 @@ tail :> 3 @@ empty :> 0 @@ reuse :> 3)

\* Bound: of the two parts one is as it was at first.
MemoryInit == Init /\ PagesInit
MemoryNext ==
  \/ Init /\ PagesNext /\ UNCHANGED vars
  \/ PagesInit /\ MCNext /\ UNCHANGED pageVars
MemorySpec ==
  MemoryInit /\ [][MemoryNext]_<<vars, pageVars>>
    /\ \A b \in Blocks : WF_pageVars(Running /\ CriticalStep(b))
=============================================================================
