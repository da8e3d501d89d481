----------------------------- MODULE AddressLayout -----------------------------
(* Where things are in the address spaces: pages, the stacks and trap         *)
(* contexts of thread ids, and the slices of a buffer. The other modules work *)
(* with page numbers and thread ids; ProcessProofs shows that these never     *)
(* share a place, for ids and addresses of any size.                          *)
EXTENDS Integers

(* Addresses. A usize has 64 bits; VirtAddr::from keeps 39 of them.            *)
PAGE_SIZE == 4096
VA_SPACE == 549755813888  \* VA_MASK + 1
TRAMPOLINE == 18446744073709547520
TRAP_CONTEXT == TRAMPOLINE - PAGE_SIZE
STACK_SIZE == 8192  \* KERNEL_STACK_SIZE and USER_STACK_SIZE
MEMORY_END == 2281701376
MMAP_AREA_BASE == 4294967296

VirtAddr(a) == a % VA_SPACE
floor(va) == va \div PAGE_SIZE
indexes(vpn) == <<(vpn \div 262144) % 512, (vpn \div 512) % 512, vpn % 512>>

(* SimpleRange: [l, r), and the test by which vpn_range_free refuses a range. *)
contains(s, v) == s.l <= v /\ v < s.r
overlap_with(s, o) == s.r >= o.l + 1 /\ o.r >= s.l + 1

(* The bottoms of a kernel stack, a trap context and a user stack. *)
kernel_stack_bottom(id) == TRAMPOLINE - id * (STACK_SIZE + PAGE_SIZE) - STACK_SIZE
trap_cx_bottom_from_tid(tid) == TRAP_CONTEXT - tid * PAGE_SIZE
ustack_bottom_from_tid(base, tid) == base + tid * (PAGE_SIZE + STACK_SIZE)

(* One turn of the loop of translated_byte_buffer, at address start of a      *)
(* buffer that ends before `end`: where the next turn starts, and the slice   *)
(* of the page that this turn takes.                                          *)
NextStart(start, end) ==
  LET next == (floor(VirtAddr(start)) + 1) * PAGE_SIZE
  IN IF next <= VirtAddr(end) THEN next ELSE VirtAddr(end)
Slice(start, end) ==
  [from |-> VirtAddr(start) % PAGE_SIZE,
   to   |-> IF NextStart(start, end) % PAGE_SIZE = 0
            THEN PAGE_SIZE ELSE NextStart(start, end) % PAGE_SIZE]
===============================================================================
