------------------------------- MODULE Arena -------------------------------
(***************************************************************************)
(* The bump allocator of internal/cbm/arena.c: blocks that grow, nothing   *)
(* freed before everything is. One file's extraction owns one arena, and   *)
(* every string and every array of its result lies in it.                  *)
(*                                                                         *)
(* Addresses are pairs of a block and an offset in bytes. malloc may fail, *)
(* at most MaxFailures times in the life of an arena.                      *)
(***************************************************************************)
EXTENDS Integers, Sequences

CONSTANTS DefaultBlockSize, \* CBM_ARENA_DEFAULT_BLOCK_SIZE, in bytes
          MaxBlocks,        \* CBM_ARENA_MAX_BLOCKS
          MaxFailures       \* bound: how often malloc fails in one arena

ASSUME ArenaAssumption ==
  /\ DefaultBlockSize \in Nat \ {0}
  /\ MaxBlocks \in Nat \ {0}
  /\ MaxFailures \in Nat

VARIABLES nblocks,    \* blocks held
          block_size, \* size of the last block
          used,       \* bytes used of the last block
          failures,   \* how often malloc has failed
          sizes,      \* sizes[b]: what malloc was asked for (not kept by the code)
          regions     \* what was handed out, in order (not kept by the code)

arenaVars == <<nblocks, block_size, used, failures, sizes, regions>>

Align == 8

\* Mutant: the size is rounded down.
RoundDown(n) == (n \div Align) * Align

RoundUp(n) == ((n + Align - 1) \div Align) * Align

Region(b, o, l) == [block |-> b, off |-> o, len |-> l]

ArenaZero ==
  /\ nblocks = 0 /\ block_size = 0 /\ used = 0 /\ failures = 0
  /\ sizes = <<>> /\ regions = <<>>

\* cbm_arena_init. When malloc fails the arena has no block, and no
\* allocation from it succeeds.
ArenaInit ==
  /\ block_size' = DefaultBlockSize
  /\ used' = 0
  /\ regions' = <<>>
  /\ \/ nblocks' = 1 /\ sizes' = <<DefaultBlockSize>> /\ failures' = 0
     \/ nblocks' = 0 /\ sizes' = <<>> /\ failures' = 1 /\ MaxFailures > 0

Fits(n) == used + RoundUp(n) <= block_size

\* The size of the block that arena_grow asks malloc for.
NewSize(n) == IF 2 * block_size < RoundUp(n) THEN RoundUp(n) ELSE 2 * block_size

\* What the next allocation of n bytes returns when it succeeds.
Place(n) == IF Fits(n) THEN Region(nblocks, used, n) ELSE Region(nblocks + 1, 0, n)

\* cbm_arena_alloc and arena_grow, when they return memory ...
AllocOK(n) ==
  /\ n > 0 /\ nblocks > 0
  /\ regions' = Append(regions, Place(n))
  /\ \/ /\ Fits(n)
        /\ used' = used + RoundUp(n)
        /\ UNCHANGED <<nblocks, block_size, sizes, failures>>
     \/ /\ ~ Fits(n)
        /\ nblocks < MaxBlocks
        /\ nblocks' = nblocks + 1
        /\ block_size' = NewSize(n)
        /\ sizes' = Append(sizes, NewSize(n))
        /\ used' = RoundUp(n)
        /\ UNCHANGED failures

\* ... and when they return NULL.
AllocFails(n) ==
  /\ \/ /\ n = 0 \/ nblocks = 0 \/ (~ Fits(n) /\ nblocks >= MaxBlocks)
        /\ UNCHANGED failures
     \/ /\ n > 0 /\ nblocks > 0 /\ ~ Fits(n) /\ nblocks < MaxBlocks
        /\ failures < MaxFailures
        /\ failures' = failures + 1
  /\ UNCHANGED <<nblocks, block_size, used, sizes, regions>>

\* cbm_arena_destroy
ArenaDestroy ==
  /\ nblocks' = 0 /\ block_size' = 0 /\ used' = 0 /\ failures' = 0
  /\ sizes' = <<>> /\ regions' = <<>>

Overlap(r, s) ==
  r.block = s.block /\ r.off < s.off + s.len /\ s.off < r.off + r.len

\* Whatever is handed out lies within its block, is aligned to 8 bytes
\* (arena.h: "All returned pointers are 8-byte aligned") and shares no byte
\* with anything handed out before, however the blocks grow.
RegionsDisjoint ==
  /\ \A i \in DOMAIN regions :
       /\ regions[i].block \in 1 .. nblocks
       /\ regions[i].off % Align = 0
       /\ regions[i].off + regions[i].len <= sizes[regions[i].block]
  /\ \A i, j \in DOMAIN regions : i # j => ~ Overlap(regions[i], regions[j])
  /\ nblocks <= MaxBlocks
=============================================================================
