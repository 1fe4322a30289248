---------------------------- MODULE LockedPages ----------------------------
(***************************************************************************)
(* LockedPageManagerBase and its users (src/src/bitcoin/allocators.h):     *)
(* LockRange and UnlockRange, which simulate stacking memory locks with a  *)
(* counter per page, called by LockObject / UnlockObject and by            *)
(* secure_allocator::allocate / deallocate from any number of threads.     *)
(*                                                                         *)
(* A block is the storage of one such object: a CKey's vch, a stack        *)
(* buffer, a chunk of a SecureString.  A thread works on one block at a    *)
(* time and no two threads work on the same one, so the control point of   *)
(* the operation under way is kept with the block (pc) and the mutex names *)
(* the block whose thread holds it.  Pages are numbered instead of being   *)
(* named by their base address, and histogram[p] = 0 stands for a page     *)
(* without an entry in the map.                                            *)
(***************************************************************************)
EXTENDS Integers, FiniteSets

CONSTANTS Blocks,         \* storage that may hold key material
          NPages,         \* pages 0 .. NPages-1 of the address space
          PageSize,       \* bytes per page
          Addr,           \* Addr[b]: address of the first byte of block b
          Length,         \* Length[b]: its length, possibly 0
          MlockOutcomes,  \* what MemoryPageLocker::Lock may return
          NoBlock         \* the mutex is free

Pages == 0 .. NPages - 1

ASSUME BlocksAssumption == IsFiniteSet(Blocks) /\ NoBlock \notin Blocks
ASSUME PageAssumption == NPages \in Nat /\ PageSize \in Nat \ {0}
ASSUME RangeAssumption ==
  /\ Addr \in [Blocks -> Nat]
  /\ Length \in [Blocks -> Nat]
  /\ \A b \in Blocks : Addr[b] + Length[b] <= NPages * PageSize
ASSUME MlockAssumption == MlockOutcomes \subseteq BOOLEAN

VARIABLES pc,         \* pc[b]: where the life of block b is
          page,       \* page[b]: the loop variable of LockRange / UnlockRange
          mutex,      \* the block whose thread holds the manager's mutex
          histogram,  \* lock count per page
          osLocked,   \* pages for which mlock is in force
          dirty,      \* blocks whose bytes hold key material
          manager,    \* "alive" until its static destructor has run
          aborted     \* an assert has failed

pageVars == <<pc, page, mutex, histogram, osLocked, dirty, manager, aborted>>

-----------------------------------------------------------------------------
Bytes(b) == Addr[b] .. Addr[b] + Length[b] - 1

StartPage(b) == Addr[b] \div PageSize
EndPage(b) == (Addr[b] + Length[b] - 1) \div PageSize

\* The pages LockRange visits: none for an empty range.
PagesOf(b) == IF Length[b] = 0 THEN {} ELSE StartPage(b) .. EndPage(b)

PageMap == [b \in Blocks |-> PagesOf(b)]

LockPoints == {"lockPage", "mlock", "bump"}
UnlockPoints == {"unlockPage", "drop", "munlock"}
Critical == LockPoints \cup UnlockPoints
PCs == {"free", "raw", "held", "cleansed", "unlocked"} \cup Critical

LockedPageCount == Cardinality({p \in Pages : histogram[p] > 0})

Goto(b, point) == pc' = [pc EXCEPT ![b] = point]
NextPage(b) == page' = [page EXCEPT ![b] = @ + 1]

-----------------------------------------------------------------------------
PagesInit ==
  /\ pc = [b \in Blocks |-> "free"]
  /\ page = [b \in Blocks |-> 0]
  /\ mutex = NoBlock
  /\ histogram = [p \in Pages |-> 0]
  /\ osLocked = {}
  /\ dirty = {}
  /\ manager = "alive"
  /\ aborted = FALSE

\* Storage comes to life: a stack object is entered or std::allocator::allocate
\* returns.  Live storage is disjoint; it may reuse the bytes of dead storage.
Allocate(b) ==
  /\ pc[b] = "free"
  /\ \A c \in Blocks : pc[c] # "free" => Bytes(b) \cap Bytes(c) = {}
  /\ Goto(b, "raw")
  /\ UNCHANGED <<page, mutex, histogram, osLocked, dirty, manager, aborted>>

\* Slip: no scoped_lock, so that a second thread gets into the loops.
EnterUnlocked(b, from, loop, done) ==
  /\ pc[b] = from
  /\ IF Length[b] = 0
       THEN Goto(b, done) /\ UNCHANGED <<mutex, page>>
       ELSE /\ Goto(b, loop)
            /\ mutex' = b
            /\ page' = [page EXCEPT ![b] = StartPage(b)]
  /\ UNCHANGED <<histogram, osLocked, dirty, manager, aborted>>

\* Entry of LockRange / UnlockRange: the scoped_lock, then "if(!size) return".
Enter(b, from, loop, done) ==
  /\ pc[b] = from
  /\ mutex = NoBlock
  /\ IF Length[b] = 0
       THEN Goto(b, done) /\ UNCHANGED <<mutex, page>>
       ELSE /\ Goto(b, loop)
            /\ mutex' = b
            /\ page' = [page EXCEPT ![b] = StartPage(b)]
  /\ UNCHANGED <<histogram, osLocked, dirty, manager, aborted>>

EnterLockRange(b) == Enter(b, "raw", "lockPage", "held")
EnterUnlockRange(b) == Enter(b, "cleansed", "unlockPage", "unlocked")

\* histogram.find(page) in LockRange.
LockFind(b) ==
  /\ pc[b] = "lockPage"
  /\ page[b] <= EndPage(b)
  /\ Goto(b, IF histogram[page[b]] = 0 THEN "mlock" ELSE "bump")
  /\ UNCHANGED <<page, mutex, histogram, osLocked, dirty, manager, aborted>>

\* Newly locked page: locker.Lock, whose result is dropped, then insert, which
\* leaves an entry that is already there alone.
MlockPage(b) ==
  /\ pc[b] = "mlock"
  /\ \E ok \in MlockOutcomes :
       osLocked' = IF ok THEN osLocked \cup {page[b]} ELSE osLocked
  /\ histogram' = [histogram EXCEPT ![page[b]] = IF @ = 0 THEN 1 ELSE @]
  /\ NextPage(b)
  /\ Goto(b, "lockPage")
  /\ UNCHANGED <<mutex, dirty, manager, aborted>>

\* Slip: the page is found locked and is not counted again.
BumpForgotten(b) ==
  /\ pc[b] = "bump"
  /\ NextPage(b)
  /\ Goto(b, "lockPage")
  /\ UNCHANGED <<mutex, histogram, osLocked, dirty, manager, aborted>>

\* Slip: "continue" for a page already locked, in a loop that steps at its end.
BumpStays(b) ==
  /\ pc[b] = "bump"
  /\ Goto(b, "lockPage")
  /\ UNCHANGED <<page, mutex, histogram, osLocked, dirty, manager, aborted>>

\* Page was already locked: it->second += 1.
BumpPage(b) ==
  /\ pc[b] = "bump"
  /\ histogram' = [histogram EXCEPT ![page[b]] = @ + 1]
  /\ NextPage(b)
  /\ Goto(b, "lockPage")
  /\ UNCHANGED <<mutex, osLocked, dirty, manager, aborted>>

\* Slip: the loops stop before end_page ("page < end_page").
ReturnEarly(b, from, to) ==
  /\ pc[b] = from
  /\ page[b] >= EndPage(b)
  /\ mutex' = NoBlock
  /\ Goto(b, to)
  /\ UNCHANGED <<page, histogram, osLocked, dirty, manager, aborted>>

\* The loop ends and the scoped_lock releases the mutex.
Return(b, from, to) ==
  /\ pc[b] = from
  /\ page[b] > EndPage(b)
  /\ mutex' = NoBlock
  /\ Goto(b, to)
  /\ UNCHANGED <<page, histogram, osLocked, dirty, manager, aborted>>

LockReturn(b) == Return(b, "lockPage", "held")
UnlockReturn(b) == Return(b, "unlockPage", "unlocked")

\* The owner writes key material into the block (CKey::Set, BIP32Hash, ...).
Write(b) ==
  /\ pc[b] = "held"
  /\ dirty' = dirty \cup {b}
  /\ UNCHANGED <<pc, page, mutex, histogram, osLocked, manager, aborted>>

\* Slip: the block is unlocked without being cleansed.
CleanseForgotten(b) ==
  /\ pc[b] = "held"
  /\ Goto(b, "cleansed")
  /\ UNCHANGED <<page, mutex, histogram, osLocked, dirty, manager, aborted>>

\* UnlockObject / deallocate begin with OPENSSL_cleanse over the whole block.
Cleanse(b) ==
  /\ pc[b] = "held"
  /\ dirty' = dirty \ {b}
  /\ Goto(b, "cleansed")
  /\ UNCHANGED <<page, mutex, histogram, osLocked, manager, aborted>>

\* histogram.find(page) in UnlockRange and the assert that follows it.
UnlockFind(b) ==
  /\ pc[b] = "unlockPage"
  /\ page[b] <= EndPage(b)
  /\ aborted' = (histogram[page[b]] = 0)
  /\ Goto(b, "drop")
  /\ UNCHANGED <<page, mutex, histogram, osLocked, dirty, manager>>

\* Slip: munlock whatever the counter says, as if memory locks stacked.
DropNaively(b) ==
  /\ pc[b] = "drop"
  /\ histogram' = [histogram EXCEPT ![page[b]] = @ - 1]
  /\ Goto(b, "munlock")
  /\ UNCHANGED <<page, mutex, osLocked, dirty, manager, aborted>>

\* Slip: the counter is tested before it is decremented.
DropTestedFirst(b) ==
  /\ pc[b] = "drop"
  /\ histogram' = [histogram EXCEPT ![page[b]] = @ - 1]
  /\ IF histogram[page[b]] = 0
       THEN Goto(b, "munlock") /\ UNCHANGED page
       ELSE Goto(b, "unlockPage") /\ NextPage(b)
  /\ UNCHANGED <<mutex, osLocked, dirty, manager, aborted>>

\* it->second -= 1 and the test for zero.
DropPage(b) ==
  /\ pc[b] = "drop"
  /\ histogram' = [histogram EXCEPT ![page[b]] = @ - 1]
  /\ IF histogram[page[b]] = 1
       THEN Goto(b, "munlock") /\ UNCHANGED page
       ELSE Goto(b, "unlockPage") /\ NextPage(b)
  /\ UNCHANGED <<mutex, osLocked, dirty, manager, aborted>>

\* Slip: the entry is decremented once more instead of being erased.
MunlockDecrements(b) ==
  /\ pc[b] = "munlock"
  /\ osLocked' = osLocked \ {page[b]}
  /\ histogram' = [histogram EXCEPT ![page[b]] = @ - 1]
  /\ NextPage(b)
  /\ Goto(b, "unlockPage")
  /\ UNCHANGED <<mutex, dirty, manager, aborted>>

\* Nothing keeps the page locked: locker.Unlock and histogram.erase.
MunlockPage(b) ==
  /\ pc[b] = "munlock"
  /\ osLocked' = osLocked \ {page[b]}
  /\ histogram' = [histogram EXCEPT ![page[b]] = 0]
  /\ NextPage(b)
  /\ Goto(b, "unlockPage")
  /\ UNCHANGED <<mutex, dirty, manager, aborted>>

\* std::allocator::deallocate, or the end of the stack object's scope.
Free(b) ==
  /\ pc[b] = "unlocked"
  /\ Goto(b, "free")
  /\ UNCHANGED <<page, mutex, histogram, osLocked, dirty, manager, aborted>>

\* Static destruction, after every user of the manager is done; the destructor
\* takes the mutex in GetLockedPageCount and asserts that it returns 0.
DestroyManager ==
  /\ \A b \in Blocks : pc[b] = "free"
  /\ mutex = NoBlock
  /\ manager' = "destroyed"
  /\ aborted' = (LockedPageCount # 0)
  /\ UNCHANGED <<pc, page, mutex, histogram, osLocked, dirty>>

\* The process has exited, or abort() has ended it.
Ended ==
  /\ manager = "destroyed" \/ aborted
  /\ UNCHANGED pageVars

\* What the thread inside the critical section does next.
CriticalStep(b) ==
  \/ LockFind(b) \/ MlockPage(b) \/ BumpPage(b) \/ LockReturn(b)
  \/ UnlockFind(b) \/ DropPage(b) \/ MunlockPage(b) \/ UnlockReturn(b)

BlockStep(b) ==
  \/ Allocate(b) \/ EnterLockRange(b) \/ Write(b)
  \/ Cleanse(b) \/ EnterUnlockRange(b) \/ Free(b)
  \/ CriticalStep(b)

Running == manager = "alive" /\ ~aborted

PagesNext ==
  \/ Running /\ \E b \in Blocks : BlockStep(b)
  \/ Running /\ DestroyManager
  \/ Ended

PagesSpec == PagesInit /\ [][PagesNext]_pageVars

\* A thread that holds the mutex is not descheduled for ever: it blocks on
\* nothing inside the loop.  Nothing is assumed of who gets a free mutex.
FairSpec == PagesSpec /\ \A b \in Blocks : WF_pageVars(Running /\ CriticalStep(b))

-----------------------------------------------------------------------------
\* Every variable of the manager and of its users keeps its type.
PagesTypeOK ==
  /\ pc \in [Blocks -> PCs]
  /\ page \in [Blocks -> Nat]
  /\ mutex \in Blocks \cup {NoBlock}
  /\ histogram \in [Pages -> Nat]
  /\ osLocked \in SUBSET Pages
  /\ dirty \in SUBSET Blocks
  /\ manager \in {"alive", "destroyed"}
  /\ aborted \in BOOLEAN

\* Block b is counted on page p: from the step of LockRange that counted it to
\* the step of UnlockRange that drops it.
Counted(b, p) ==
  /\ p \in PagesOf(b)
  /\ \/ pc[b] \in {"held", "cleansed"}
     \/ pc[b] \in LockPoints /\ p < page[b]
     \/ pc[b] \in {"unlockPage", "drop"} /\ p >= page[b]
     \/ pc[b] = "munlock" /\ p > page[b]

CountedOn(p) == {b \in Blocks : Counted(b, p)}

\* The counter of a page is at every step the number of blocks that rely on
\* it, whichever threads are inside or waiting for LockRange and UnlockRange.
HistogramExact == \A p \in Pages : histogram[p] = Cardinality(CountedOn(p))

\* Neither the assert of UnlockRange ("Cannot unlock an area that was not
\* locked") nor the one in the manager's destructor ever fires.
NoAssertFails == ~aborted

\* Key material is never on a page the system may swap out, also while other
\* threads release blocks that share the page (mlock never fails here).
SecretsPinned == \A b \in dirty : PagesOf(b) \subseteq osLocked

\* When the mutex is free a page is locked by the system exactly if some block
\* needs it: no lock is lost and none is leaked (mlock never fails here).
LocksNeeded ==
  mutex = NoBlock => osLocked = {p \in Pages : CountedOn(p) # {}}

\* Key material never outlives its block: it is gone before the storage may be
\* handed out again.
NoRemains == \A b \in dirty : pc[b] = "held"

\* LockRange and UnlockRange return: a thread inside the critical section
\* leaves it with every page of its block visited.
RangeReturns ==
  \A b \in Blocks : pc[b] \in Critical ~> pc[b] \in {"held", "unlocked"}

\* The manager keeps the promise of PinnedPages: blocks are protected from the
\* return of LockRange to the cleansing of their bytes.
Promise == INSTANCE PinnedPages
             WITH pinned <- osLocked, protected <- {b \in Blocks : pc[b] = "held"}
KeepsPromise == Promise!ASpec
=============================================================================
