---------------------------- MODULE PinnedPages ----------------------------
(***************************************************************************)
(* What LockedPageManagerBase (allocators.h) promises to the owners of     *)
(* secret memory, without histogram, mutex or page loop: a block that is   *)
(* protected lies on pages the operating system may not swap out, however  *)
(* many blocks share those pages and in whatever order they come and go.   *)
(***************************************************************************)
CONSTANTS Pages,    \* the pages of the address space
          Blocks,   \* pieces of storage that may hold a secret
          PageMap   \* PageMap[b]: the pages block b touches

VARIABLES pinned,     \* pages the operating system keeps in memory
          protected   \* blocks whose owner may rely on that

avars == <<pinned, protected>>

AInit == pinned = {} /\ protected = {}

Pin(p) ==
  /\ p \notin pinned
  /\ pinned' = pinned \cup {p}
  /\ UNCHANGED protected

\* mlock does not stack: one munlock frees the page for every block on it, so
\* it may only happen when no protected block is left there.
Unpin(p) ==
  /\ p \in pinned
  /\ \A b \in protected : p \notin PageMap[b]
  /\ pinned' = pinned \ {p}
  /\ UNCHANGED protected

Protect(b) ==
  /\ b \notin protected
  /\ PageMap[b] \subseteq pinned
  /\ protected' = protected \cup {b}
  /\ UNCHANGED pinned

Release(b) ==
  /\ b \in protected
  /\ protected' = protected \ {b}
  /\ UNCHANGED pinned

ANext ==
  \/ \E p \in Pages : Pin(p) \/ Unpin(p)
  \/ \E b \in Blocks : Protect(b) \/ Release(b)

ASpec == AInit /\ [][ANext]_avars
=============================================================================
