------------------------------ MODULE DiskLayout ------------------------------
(* Where things are on the device of easy-fs: its areas, the inodes and the   *)
(* bits of the bitmaps. The other modules work with inode numbers and bits;   *)
(* BlockCacheProofs shows that these never share a place and never leave      *)
(* their area, for devices of any size.                                       *)
EXTENDS Integers

BLOCK_SZ == 512
BLOCK_BITS == 4096
INODE_SIZE == 128
INODES_PER_BLOCK == 4

(* EasyFileSystem::create, for a device of `total` blocks of which `ib` hold   *)
(* the inode bitmap: the super block it writes.                               *)
inode_area_blocks(ib) == (ib * BLOCK_BITS * INODE_SIZE + BLOCK_SZ - 1) \div BLOCK_SZ
data_bitmap_blocks(n) == (n + 4096) \div 4097
data_total_blocks(total, ib) == total - 1 - (ib + inode_area_blocks(ib))
SuperBlock(total, ib) ==
  LET n == data_total_blocks(total, ib) IN
  [inode_bitmap_blocks |-> ib, inode_area_blocks |-> inode_area_blocks(ib),
   data_bitmap_blocks |-> data_bitmap_blocks(n),
   data_area_blocks |-> n - data_bitmap_blocks(n)]

(* EasyFileSystem::open: the first block of each area. *)
AreasOf(sb) ==
  LET t == sb.inode_bitmap_blocks + sb.inode_area_blocks IN
  [inode_bitmap |-> 1, inode_area |-> 1 + sb.inode_bitmap_blocks,
   data_bitmap |-> 1 + t, data_area |-> 1 + t + sb.data_bitmap_blocks]

get_disk_inode_pos(start, id) ==
  <<start + id \div INODES_PER_BLOCK, (id % INODES_PER_BLOCK) * INODE_SIZE>>

(* Bitmap: the bit that alloc returns, and decompsition, by which dealloc     *)
(* finds it again.                                                            *)
BitAt(idx, bits64_pos, inner_pos) == idx * BLOCK_BITS + bits64_pos * 64 + inner_pos
decompsition(bit) ==
  <<bit \div BLOCK_BITS, (bit % BLOCK_BITS) \div 64, (bit % BLOCK_BITS) % 64>>
===============================================================================
