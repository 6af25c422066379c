---------------------------- MODULE MCAllocator ----------------------------
EXTENDS Allocator

Pair(buffer_size, reserved_space_size) ==
  [buffer_size |-> buffer_size, reserved_space_size |-> reserved_space_size]

\* Powers of two, in KB: nothing reserved, one slab, several.
MCSizes == {Pair(2, 0), Pair(2, 2), Pair(2, 4), Pair(2, 8), Pair(1, 4)}
MCSizesShort == {Pair(2, 1)}
MCSizesTwo == {Pair(2, 4)}
=============================================================================
